-------------------------- MODULE HostProcesses_proofs -------------------------
(***************************************************************************)
(* Proofs about the protocols between the processes of a host: data-parallel *)
(* load balancing, for every number of workers, engines and requests and     *)
(* every delay of a message; the NeuronCore allocator, for every set of      *)
(* processes and number of cores, whoever is killed and whoever gets its id; *)
(* the port rendezvous, for every number of servers, ranks and ports,        *)
(* whatever the Neuron runtime takes and whoever is killed.                  *)
(***************************************************************************)
EXTENDS DpLoadBalancer, CoreAllocator, PortRendezvous, ListLemmas
------------------------------------------------------------------------------
(* Data-parallel load balancing (DpLoadBalancer).                           *)

LbTypes ==
  /\ stage \in [Request -> {"new", "sent", "waiting", "running", "ended"}]
  /\ route = [r \in Request |-> route[r]]
  /\ reqsInFlight \in [Worker -> SUBSET Request]
  /\ engineInflight \in [Worker -> [Engine -> Int]]
  /\ sharedInflight \in [Engine -> Int] \cup {NoArray}
  /\ popped \in [Worker -> Request \cup {NoRequest}]
  /\ aborts \subseteq Request /\ finished \subseteq Request /\ notices \subseteq Request

(* A reservation, and one a worker is giving back, is of a request that was  *)
(* routed by that worker; it is not both.                                   *)
Owned ==
  /\ \A w \in Worker : \A r \in reqsInFlight[w] : Home[r] = w /\ stage[r] # "new"
  /\ \A w \in Worker : popped[w] # NoRequest =>
       /\ Shared /\ stage[popped[w]] # "new"
       /\ popped[w] \notin reqsInFlight[Home[popped[w]]]

(* What is reported has ended; what has not is reserved. *)
Truthful ==
  /\ \A r \in finished \cup notices : stage[r] = "ended"
  /\ \A r \in Request : stage[r] \in {"sent", "waiting", "running"} =>
       r \in reqsInFlight[Home[r]]

(* The requests reserved on an engine, and the workers about to take the    *)
(* lock for it.                                                             *)
AllReserved(e) == {r \in Request : r \in reqsInFlight[Home[r]] /\ route[r] = e}
Popping(e) == {w \in Worker : popped[w] # NoRequest /\ route[popped[w]] = e}

Exact ==
  \A e \in Engine :
    /\ \A w \in Worker : engineInflight[w][e] = Cardinality(Reserved(w, e))
    /\ Shared => sharedInflight[e] = Cardinality(AllReserved(e)) + Cardinality(Popping(e))

(* The inductive invariant.  That the counts are exact needs every request   *)
(* to be reserved once, by the worker that routed it, and to be popped once. *)
LbInv == LbTypes /\ Owned /\ Truthful /\ Exact

(* The sets that are counted are finite. *)
LEMMA CountedFinite ==
  ASSUME LoadBalancerAssumption
  PROVE  \A e : /\ IsFiniteSet(AllReserved(e)) /\ IsFiniteSet(Popping(e))
                /\ Cardinality(AllReserved(e)) \in Nat /\ Cardinality(Popping(e)) \in Nat
<1> SUFFICES ASSUME NEW e
             PROVE  /\ IsFiniteSet(AllReserved(e)) /\ IsFiniteSet(Popping(e))
                    /\ Cardinality(AllReserved(e)) \in Nat /\ Cardinality(Popping(e)) \in Nat
  OBVIOUS
<1>1. AllReserved(e) \subseteq Request /\ Popping(e) \subseteq Worker
  BY DEF AllReserved, Popping
<1> QED BY <1>1, FS_Subset, FS_CardinalityType DEF LoadBalancerAssumption

(* So are the reservations of one worker. *)
LEMMA ReservedFinite ==
  ASSUME LoadBalancerAssumption, LbTypes, NEW w \in Worker, NEW e
  PROVE  IsFiniteSet(Reserved(w, e)) /\ Cardinality(Reserved(w, e)) \in Nat
<1>1. Reserved(w, e) \subseteq Request
  BY DEF LbTypes, Reserved
<1> QED BY <1>1, FS_Subset, FS_CardinalityType DEF LoadBalancerAssumption

(* Taken over all workers the reservations are those of the routed requests. *)
LEMMA ReservedOnce ==
  ASSUME LoadBalancerAssumption, LbTypes, Owned, NEW e
  PROVE  UNION {Reserved(w, e) : w \in Worker} = AllReserved(e)
  BY DEF LoadBalancerAssumption, LbTypes, Owned, Reserved, AllReserved

(* An array is not the absence of one. *)
LEMMA ArrayIsShared ==
  ASSUME LoadBalancerAssumption, NEW f \in [Engine -> Int]
  PROVE  f # NoArray
<1>1. 0 \in Engine
  BY DEF LoadBalancerAssumption, Engine
<1>2. DOMAIN f = Engine /\ DOMAIN NoArray = {}
  BY DEF NoArray
<1> QED BY <1>1, <1>2

(* A count goes up or down by one, if there is a count for x. *)
LEMMA CountMoves ==
  ASSUME NEW D, NEW f \in [D -> Int], NEW x
  PROVE  /\ [f EXCEPT ![x] = @ + 1] \in [D -> Int]
         /\ [f EXCEPT ![x] = @ - 1] \in [D -> Int]
<1>1. CASE x \in D
  <2>1. f[x] + 1 \in Int /\ f[x] - 1 \in Int
    BY <1>1
  <2> QED BY <2>1
<1>2. CASE x \notin D
  <2>1. [f EXCEPT ![x] = @ + 1] = f /\ [f EXCEPT ![x] = @ - 1] = f
    BY <1>2
  <2> QED BY <2>1
<1> QED BY <1>1, <1>2

(* Nothing is routed at first. *)
LEMMA LbInitially == LoadBalancerAssumption /\ LbInit => LbInv
<1> SUFFICES ASSUME LoadBalancerAssumption, LbInit PROVE LbInv
  OBVIOUS
<1>1. LbTypes
  BY DEF LbInit, LbTypes, NoEngine, NoArray
<1>2. Owned /\ Truthful
  BY DEF LbInit, Owned, Truthful
<1>3. ASSUME NEW e, NEW w \in Worker
      PROVE  Reserved(w, e) = {} /\ AllReserved(e) = {} /\ Popping(e) = {}
  BY DEF LbInit, Reserved, AllReserved, Popping, LoadBalancerAssumption
<1>4. \A e : AllReserved(e) = {} /\ Popping(e) = {}
  BY DEF LbInit, AllReserved, Popping, LoadBalancerAssumption
<1>5. Cardinality({}) = 0
  BY FS_EmptySet
<1>6. \A e \in Engine : Shared => sharedInflight[e] = 0
  BY DEF LbInit, Shared, NoArray
<1>7. Exact
  <2>1. \A e \in Engine, w \in Worker :
          engineInflight[w][e] = 0 /\ Cardinality(Reserved(w, e)) = 0
    BY <1>3, <1>5 DEF LbInit
  <2>2. \A e \in Engine : Cardinality(AllReserved(e)) = 0 /\ Cardinality(Popping(e)) = 0
    BY <1>4, <1>5
  <2> QED BY <1>6, <2>1, <2>2 DEF Exact
<1> QED BY <1>1, <1>2, <1>7 DEF LbInv

(* A step that changes neither reservations nor counts. *)
LEMMA CountsKept ==
  ASSUME Exact, UNCHANGED <<route, reqsInFlight, engineInflight, sharedInflight, popped>>
  PROVE  Exact'
<1>1. /\ \A w \in Worker : \A e : Reserved(w, e)' = Reserved(w, e)
      /\ \A e : AllReserved(e)' = AllReserved(e) /\ Popping(e)' = Popping(e)
      /\ Shared' = Shared
  BY DEF Reserved, AllReserved, Popping, Shared
<1> QED BY <1>1 DEF Exact

(* A routed request is counted where it was sent, and nowhere else. *)
LEMMA RouteKeeps ==
  ASSUME LoadBalancerAssumption, LbInv, NEW r \in Request, Route(r)
  PROVE  LbInv'
<1> DEFINE h == Home[r]
           x == route'[r]
<1>0. /\ LbTypes /\ Owned /\ Truthful /\ Exact /\ h \in Worker
      /\ NoRequest \notin Request
  BY DEF LbInv, LoadBalancerAssumption
<1>1. /\ stage[r] = "new" /\ popped[h] = NoRequest
      /\ stage' = [stage EXCEPT ![r] = "sent"]
      /\ route' = [route EXCEPT ![r] = x]
      /\ reqsInFlight' = [reqsInFlight EXCEPT ![h] = @ \cup {r}]
      /\ engineInflight' = [engineInflight EXCEPT ![h][x] = @ + 1]
      /\ sharedInflight' = IF Shared THEN [sharedInflight EXCEPT ![x] = @ + 1]
                           ELSE sharedInflight
      /\ UNCHANGED <<popped, aborts, finished, notices>>
  BY <1>0 DEF Route, LbTypes
<1> HIDE DEF x
<1>2. /\ \A q \in Request : route'[q] = IF q = r THEN x ELSE route[q]
      /\ \A q \in Request : stage'[q] = IF q = r THEN "sent" ELSE stage[q]
      /\ \A w \in Worker : reqsInFlight'[w] = IF w = h THEN reqsInFlight[w] \cup {r}
                                              ELSE reqsInFlight[w]
  BY <1>0, <1>1 DEF LbTypes
<1>3. \A w \in Worker : r \notin reqsInFlight[w] /\ popped[w] # r
  BY <1>0, <1>1 DEF Owned
<1>a. h = Home[r] /\ \A q \in Request : Home[q] \in Worker
  BY DEF LoadBalancerAssumption
<1>b. \A w \in Worker : /\ reqsInFlight[w] \subseteq Request
                         /\ popped[w] \in Request \cup {NoRequest}
  BY <1>0 DEF LbTypes
<1> HIDE DEF h
<1>c. ASSUME NEW w \in Worker, NEW q
      PROVE  q \in reqsInFlight'[w] <=> q \in reqsInFlight[w] \/ (w = h /\ q = r)
  <2>1. CASE w = h
    BY <1>2, <2>1
  <2>2. CASE w # h
    BY <1>2, <2>2
  <2> QED BY <2>1, <2>2
<1>4. Shared' = Shared
  BY <1>0, <1>1, ArrayIsShared DEF LbTypes, Shared
<1>5. LbTypes'
  <2>1. /\ stage' \in [Request -> {"new", "sent", "waiting", "running", "ended"}]
        /\ reqsInFlight' \in [Worker -> SUBSET Request]
    BY <1>0, <1>1 DEF LbTypes
  <2>2. engineInflight' \in [Worker -> [Engine -> Int]]
    <3>1. [engineInflight[h] EXCEPT ![x] = @ + 1] \in [Engine -> Int]
      <4>1. engineInflight[h] \in [Engine -> Int]
        BY <1>0, <1>a DEF LbTypes
      <4> QED BY <4>1, CountMoves
    <3>2. engineInflight' = [engineInflight EXCEPT ![h] = [engineInflight[h] EXCEPT ![x] = @ + 1]]
      BY <1>1
    <3> QED BY <1>0, <3>1, <3>2 DEF LbTypes
  <2>3. sharedInflight' \in [Engine -> Int] \cup {NoArray}
    <3>1. CASE Shared
      <4>1. sharedInflight \in [Engine -> Int]
        BY <1>0, <3>1 DEF LbTypes, Shared
      <4>2. [sharedInflight EXCEPT ![x] = @ + 1] \in [Engine -> Int]
        BY <4>1, CountMoves
      <4> QED BY <1>1, <3>1, <4>2
    <3>2. CASE ~Shared
      BY <1>1, <3>2 DEF Shared
    <3> QED BY <3>1, <3>2
  <2> QED BY <1>0, <1>1, <2>1, <2>2, <2>3 DEF LbTypes, Engine, NoArray
<1>6. Owned'
  <2>1. \A w \in Worker : \A q \in reqsInFlight'[w] : Home[q] = w /\ stage'[q] # "new"
    <3> SUFFICES ASSUME NEW w \in Worker, NEW q \in reqsInFlight'[w]
                 PROVE  Home[q] = w /\ stage'[q] # "new"
      OBVIOUS
    <3>1. CASE q = r
      BY <1>0, <1>2, <1>3, <1>a, <3>1
    <3>2. CASE q # r
      <4>1. q \in reqsInFlight[w] /\ q \in Request
        BY <1>2, <1>b, <3>2
      <4> QED BY <1>0, <1>2, <3>2, <4>1 DEF Owned
    <3> QED BY <3>1, <3>2
  <2>2. \A w \in Worker : popped[w] # NoRequest =>
          /\ Shared' /\ stage'[popped[w]] # "new"
          /\ popped[w] \notin reqsInFlight'[Home[popped[w]]]
    <3> SUFFICES ASSUME NEW w \in Worker, popped[w] # NoRequest
                 PROVE  /\ Shared' /\ stage'[popped[w]] # "new"
                        /\ popped[w] \notin reqsInFlight'[Home[popped[w]]]
      OBVIOUS
    <3>1. popped[w] \in Request /\ popped[w] # r /\ Home[popped[w]] \in Worker
      BY <1>3, <1>a, <1>b
    <3>2. popped[w] \notin reqsInFlight[Home[popped[w]]] /\ Shared /\ stage[popped[w]] # "new"
      BY <1>0 DEF Owned
    <3>3. stage'[popped[w]] = stage[popped[w]]
      BY <1>2, <3>1
    <3> QED BY <1>4, <1>c, <3>1, <3>2, <3>3
  <2> QED BY <1>1, <2>1, <2>2 DEF Owned
<1>7. Truthful'
  <2>1. \A q \in finished \cup notices : q \in Request /\ stage[q] = "ended"
    BY <1>0 DEF Truthful, LbTypes
  <2>2. \A q \in finished \cup notices : stage'[q] = "ended"
    BY <1>1, <1>2, <2>1
  <2>3. ASSUME NEW q \in Request, stage'[q] \in {"sent", "waiting", "running"}
        PROVE  q \in reqsInFlight'[Home[q]]
    BY <1>0, <1>2, <1>a, <2>3 DEF Truthful
  <2> QED BY <1>1, <2>2, <2>3 DEF Truthful
<1>8. Exact'
  <2> SUFFICES ASSUME NEW e \in Engine
               PROVE  /\ \A w \in Worker :
                           engineInflight'[w][e] = Cardinality(Reserved(w, e)')
                      /\ Shared => sharedInflight'[e] = Cardinality(AllReserved(e)')
                                                          + Cardinality(Popping(e)')
    BY <1>4 DEF Exact
  <2>1. Popping(e)' = Popping(e)
    BY <1>0, <1>1, <1>2, <1>3 DEF Popping, LbTypes
  <2>2. CASE e = x
    <3>1. \A w \in Worker : Reserved(w, e)' = IF w = h THEN Reserved(w, e) \cup {r}
                                              ELSE Reserved(w, e)
      <4> SUFFICES ASSUME NEW w \in Worker
                   PROVE  \A q : q \in Reserved(w, e)'
                                    <=> q \in Reserved(w, e) \/ (w = h /\ q = r)
        BY DEF Reserved
      <4> SUFFICES ASSUME NEW q
                   PROVE  q \in reqsInFlight'[w] /\ route'[q] = e
                            <=> (q \in reqsInFlight[w] /\ route[q] = e) \/ (w = h /\ q = r)
        BY DEF Reserved
      <4>1. CASE q = r
        BY <1>2, <1>3, <1>c, <2>2, <4>1
      <4>2. CASE q # r
        BY <1>2, <1>b, <1>c, <4>2
      <4> QED BY <4>1, <4>2
    <3>2. r \notin Reserved(h, e) /\ r \notin AllReserved(e)
      BY <1>0, <1>3 DEF Reserved, AllReserved
    <3>3. AllReserved(e)' = AllReserved(e) \cup {r}
      <4>1. ASSUME NEW q \in Request
            PROVE  q \in reqsInFlight'[Home[q]] /\ route'[q] = e
                     <=> (q \in reqsInFlight[Home[q]] /\ route[q] = e) \/ q = r
        <5>1. CASE q = r
          BY <1>2, <1>a, <1>c, <2>2, <5>1
        <5>2. CASE q # r
          BY <1>2, <1>a, <1>c, <5>2
        <5> QED BY <5>1, <5>2
      <4> QED BY <4>1 DEF AllReserved
    <3>4. /\ Cardinality(Reserved(h, e) \cup {r}) = Cardinality(Reserved(h, e)) + 1
          /\ Cardinality(AllReserved(e) \cup {r}) = Cardinality(AllReserved(e)) + 1
      BY <1>0, <3>2, ReservedFinite, CountedFinite, FS_AddElement
    <3>5. \A w \in Worker : engineInflight'[w][e] = IF w = h THEN engineInflight[w][e] + 1
                                                    ELSE engineInflight[w][e]
      BY <1>0, <1>1, <2>2 DEF LbTypes
    <3>6. Shared => sharedInflight'[e] = sharedInflight[e] + 1
      BY <1>0, <1>1, <2>2 DEF LbTypes, Shared
    <3>7. \A w \in Worker : engineInflight'[w][e] = Cardinality(Reserved(w, e)')
      <4> SUFFICES ASSUME NEW w \in Worker
                   PROVE  engineInflight'[w][e] = Cardinality(Reserved(w, e)')
        OBVIOUS
      <4>1. engineInflight[w][e] = Cardinality(Reserved(w, e))
        BY <1>0 DEF Exact
      <4>2. CASE w = h
        BY <3>1, <3>4, <3>5, <4>1, <4>2
      <4>3. CASE w # h
        BY <3>1, <3>5, <4>1, <4>3
      <4> QED BY <4>2, <4>3
    <3>8. Shared => sharedInflight'[e] = Cardinality(AllReserved(e)') + Cardinality(Popping(e)')
      BY <1>0, <2>1, <3>3, <3>4, <3>6, CountedFinite DEF Exact
    <3> QED BY <3>7, <3>8
  <2>3. CASE e # x
    <3>1. \A w \in Worker : Reserved(w, e)' = Reserved(w, e)
      <4> SUFFICES ASSUME NEW w \in Worker
                   PROVE  \A q : q \in Reserved(w, e)' <=> q \in Reserved(w, e)
        BY DEF Reserved
      <4> SUFFICES ASSUME NEW q
                   PROVE  q \in reqsInFlight'[w] /\ route'[q] = e
                            <=> q \in reqsInFlight[w] /\ route[q] = e
        BY DEF Reserved
      <4>1. CASE q = r
        BY <1>2, <1>3, <2>3, <4>1
      <4>2. CASE q # r
        BY <1>2, <1>b, <1>c, <4>2
      <4> QED BY <4>1, <4>2
    <3>2. AllReserved(e)' = AllReserved(e)
      <4>1. \A q \in Request : /\ r \notin reqsInFlight[Home[q]]
                               /\ reqsInFlight'[Home[q]] \ {r} = reqsInFlight[Home[q]]
        BY <1>2, <1>3, <1>a
      <4>2. \A q \in Request : q \in reqsInFlight'[Home[q]] /\ route'[q] = e
                                <=> q \in reqsInFlight[Home[q]] /\ route[q] = e
        BY <1>2, <2>3, <4>1
      <4> QED BY <4>2 DEF AllReserved
    <3>3. \A w \in Worker : engineInflight'[w][e] = engineInflight[w][e]
      BY <1>0, <1>1, <2>3 DEF LbTypes
    <3>4. Shared => sharedInflight'[e] = sharedInflight[e]
      BY <1>0, <1>1, <2>3 DEF LbTypes, Shared
    <3> QED BY <1>0, <2>1, <3>1, <3>2, <3>3, <3>4 DEF Exact
  <2> QED BY <2>2, <2>3
<1> QED BY <1>5, <1>6, <1>7, <1>8 DEF LbInv

(* A finished request leaves the worker's count, and waits for the lock. *)
LEMMA PopKeeps ==
  ASSUME LoadBalancerAssumption, LbInv, NEW h \in Worker, PopFinished(h)
  PROVE  LbInv'
<1>0. LbTypes /\ Owned /\ Truthful /\ Exact /\ NoRequest \notin Request
  BY DEF LbInv, LoadBalancerAssumption
<1>1. PICK r \in Poppable(h) :
        /\ notices' = notices \ {r}
        /\ reqsInFlight' = [reqsInFlight EXCEPT ![h] = @ \ {r}]
        /\ engineInflight' = [engineInflight EXCEPT ![h][route[r]] = @ - 1]
        /\ popped' = [popped EXCEPT ![h] = IF Shared THEN r ELSE NoRequest]
  BY DEF PopFinished
<1>2. popped[h] = NoRequest /\ UNCHANGED <<stage, route, aborts, finished, sharedInflight>>
  BY DEF PopFinished
<1>3. r \in Request /\ r \in reqsInFlight[h] /\ stage[r] = "ended" /\ Home[r] = h
  BY <1>0 DEF Poppable, LbTypes, Truthful, Owned
<1> DEFINE x == route[r]
<1>4. /\ \A w \in Worker : reqsInFlight'[w] = IF w = h THEN reqsInFlight[w] \ {r}
                                              ELSE reqsInFlight[w]
      /\ \A w \in Worker : popped'[w] = IF w = h /\ Shared THEN r ELSE popped[w]
  BY <1>0, <1>1, <1>2 DEF LbTypes
<1>5. Shared' = Shared
  BY <1>2 DEF Shared
<1>6. LbTypes'
  <2>1. engineInflight' \in [Worker -> [Engine -> Int]]
    <3>1. [engineInflight[h] EXCEPT ![x] = @ - 1] \in [Engine -> Int]
      <4>1. engineInflight[h] \in [Engine -> Int]
        BY <1>0 DEF LbTypes
      <4> QED BY <4>1, CountMoves
    <3>2. engineInflight' = [engineInflight EXCEPT ![h] = [engineInflight[h] EXCEPT ![x] = @ - 1]]
      BY <1>1
    <3> QED BY <1>0, <3>1, <3>2 DEF LbTypes
  <2>2. reqsInFlight' \in [Worker -> SUBSET Request]
    BY <1>0, <1>1 DEF LbTypes
  <2>3. popped' \in [Worker -> Request \cup {NoRequest}]
    BY <1>0, <1>1, <1>3 DEF LbTypes
  <2>4. notices' \subseteq Request
    BY <1>0, <1>1 DEF LbTypes
  <2> QED BY <1>0, <1>2, <2>1, <2>2, <2>3, <2>4 DEF LbTypes, Engine, NoArray
<1>7. Owned'
  <2>1. \A w \in Worker : \A q \in reqsInFlight'[w] : Home[q] = w /\ stage'[q] # "new"
    BY <1>0, <1>2, <1>4 DEF Owned
  <2>2. ASSUME NEW w \in Worker, popped'[w] # NoRequest
        PROVE  /\ Shared' /\ stage'[popped'[w]] # "new"
               /\ popped'[w] \notin reqsInFlight'[Home[popped'[w]]]
    <3>1. CASE w = h
      BY <1>2, <1>3, <1>4, <1>5, <2>2, <3>1
    <3>2. CASE w # h
      <4>1. popped'[w] = popped[w] /\ popped[w] \in Request
        BY <1>0, <1>4, <2>2, <3>2 DEF LbTypes
      <4>2. Home[popped[w]] \in Worker
        BY <4>1 DEF LoadBalancerAssumption
      <4>3. Shared /\ stage[popped[w]] # "new" /\ popped[w] \notin reqsInFlight[Home[popped[w]]]
        BY <1>0, <2>2, <4>1 DEF Owned
      <4>4. reqsInFlight'[Home[popped[w]]] \subseteq reqsInFlight[Home[popped[w]]]
        BY <1>4, <4>2
      <4> QED BY <1>2, <1>5, <4>1, <4>3, <4>4
    <3> QED BY <3>1, <3>2
  <2> QED BY <2>1, <2>2 DEF Owned
<1>8. Truthful'
  <2>1. ASSUME NEW q \in Request, stage[q] \in {"sent", "waiting", "running"}
        PROVE  q \in reqsInFlight'[Home[q]]
    <3>1. q \in reqsInFlight[Home[q]] /\ q # r /\ Home[q] \in Worker
      BY <1>0, <1>3, <2>1 DEF Truthful, LoadBalancerAssumption
    <3> QED BY <1>4, <3>1
  <2> QED BY <1>0, <1>1, <1>2, <2>1 DEF Truthful
<1>9. Exact'
  <2> SUFFICES ASSUME NEW e \in Engine
               PROVE  /\ \A w \in Worker :
                           engineInflight'[w][e] = Cardinality(Reserved(w, e)')
                      /\ Shared => sharedInflight[e] = Cardinality(AllReserved(e)')
                                                         + Cardinality(Popping(e)')
    BY <1>2, <1>5 DEF Exact
  <2>1. \A w \in Worker : w # h => Reserved(w, e)' = Reserved(w, e)
    BY <1>2, <1>4 DEF Reserved
  <2>2. Reserved(h, e)' = Reserved(h, e) \ {r}
    BY <1>2, <1>4 DEF Reserved
  <2>3. AllReserved(e)' = AllReserved(e) \ {r}
    <3>1. ASSUME NEW q \in Request
          PROVE  q \in reqsInFlight'[Home[q]] <=> q \in reqsInFlight[Home[q]] /\ q # r
      <4>1. Home[q] \in Worker
        BY DEF LoadBalancerAssumption
      <4> QED BY <1>3, <1>4, <4>1
    <3> QED BY <1>2, <3>1 DEF AllReserved
  <2>4. \A w \in Worker : w # h => engineInflight'[w][e] = engineInflight[w][e]
    BY <1>0, <1>1 DEF LbTypes
  <2>5. CASE e = x
    <3>1. r \in Reserved(h, e) /\ r \in AllReserved(e)
      BY <1>3, <2>5 DEF Reserved, AllReserved
    <3>2. /\ Cardinality(Reserved(h, e) \ {r}) = Cardinality(Reserved(h, e)) - 1
          /\ Cardinality(AllReserved(e) \ {r}) = Cardinality(AllReserved(e)) - 1
      BY <1>0, <3>1, ReservedFinite, CountedFinite, FS_RemoveElement
    <3>3. engineInflight'[h][e] = engineInflight[h][e] - 1
      BY <1>0, <1>1, <2>5 DEF LbTypes
    <3>4. Shared => Popping(e)' = Popping(e) \cup {h}
      <4> SUFFICES ASSUME Shared, NEW w \in Worker
                   PROVE  popped'[w] # NoRequest /\ route[popped'[w]] = e
                            <=> (popped[w] # NoRequest /\ route[popped[w]] = e) \/ w = h
        BY <1>2 DEF Popping
      <4>1. CASE w = h
        BY <1>0, <1>3, <1>4, <2>5, <4>1
      <4>2. CASE w # h
        BY <1>4, <4>2
      <4> QED BY <4>1, <4>2
    <3>5. h \notin Popping(e)
      BY <1>2 DEF Popping
    <3>6. Cardinality(Popping(e) \cup {h}) = Cardinality(Popping(e)) + 1
      BY <3>5, CountedFinite, FS_AddElement
    <3>7. \A w \in Worker : engineInflight'[w][e] = Cardinality(Reserved(w, e)')
      <4> SUFFICES ASSUME NEW w \in Worker
                   PROVE  engineInflight'[w][e] = Cardinality(Reserved(w, e)')
        OBVIOUS
      <4>1. engineInflight[w][e] = Cardinality(Reserved(w, e))
        BY <1>0 DEF Exact
      <4>2. CASE w = h
        BY <2>2, <3>2, <3>3, <4>1, <4>2
      <4>3. CASE w # h
        BY <2>1, <2>4, <4>1, <4>3
      <4> QED BY <4>2, <4>3
    <3>8. Shared => sharedInflight[e] = Cardinality(AllReserved(e)') + Cardinality(Popping(e)')
      <4> SUFFICES ASSUME Shared
                   PROVE  sharedInflight[e] = Cardinality(AllReserved(e)')
                                                + Cardinality(Popping(e)')
        OBVIOUS
      <4>1. sharedInflight[e] = Cardinality(AllReserved(e)) + Cardinality(Popping(e))
        BY <1>0 DEF Exact
      <4>2. /\ Cardinality(AllReserved(e)') = Cardinality(AllReserved(e)) - 1
            /\ Cardinality(Popping(e)') = Cardinality(Popping(e)) + 1
        BY <2>3, <3>2, <3>4, <3>6
      <4> QED BY <4>1, <4>2, CountedFinite
    <3> QED BY <3>7, <3>8
  <2>6. CASE e # x
    <3>1. Reserved(h, e)' = Reserved(h, e) /\ AllReserved(e)' = AllReserved(e)
      BY <2>2, <2>3, <2>6 DEF Reserved, AllReserved
    <3>2. engineInflight'[h][e] = engineInflight[h][e]
      BY <1>0, <1>1, <2>6 DEF LbTypes
    <3>3. Popping(e)' = Popping(e)
      <4> SUFFICES ASSUME NEW w \in Worker
                   PROVE  popped'[w] # NoRequest /\ route[popped'[w]] = e
                            <=> popped[w] # NoRequest /\ route[popped[w]] = e
        BY <1>2 DEF Popping
      <4>1. CASE w = h
        BY <1>2, <1>4, <2>6, <4>1
      <4>2. CASE w # h
        BY <1>4, <4>2
      <4> QED BY <4>1, <4>2
    <3>4. \A w \in Worker : engineInflight'[w][e] = Cardinality(Reserved(w, e)')
      BY <1>0, <2>1, <2>4, <3>1, <3>2 DEF Exact
    <3>5. Shared => sharedInflight[e] = Cardinality(AllReserved(e)') + Cardinality(Popping(e)')
      BY <1>0, <3>1, <3>3 DEF Exact
    <3> QED BY <3>4, <3>5
  <2> QED BY <2>5, <2>6
<1> QED BY <1>6, <1>7, <1>8, <1>9 DEF LbInv

(* The worker takes the lock: the array loses what was due, no more. *)
LEMMA ReleaseKeeps ==
  ASSUME LoadBalancerAssumption, LbInv, NEW h \in Worker, ReleaseShared(h)
  PROVE  LbInv'
<1> DEFINE p == popped[h]
           x == route[p]
<1>0. LbTypes /\ Owned /\ Truthful /\ Exact
  BY DEF LbInv
<1>1. /\ p # NoRequest
      /\ sharedInflight' = [sharedInflight EXCEPT ![x] = @ - 1]
      /\ popped' = [popped EXCEPT ![h] = NoRequest]
      /\ UNCHANGED <<stage, route, aborts, finished, notices, reqsInFlight, engineInflight>>
  BY DEF ReleaseShared, SharedAfterRelease
<1>2. Shared /\ sharedInflight \in [Engine -> Int]
  BY <1>0, <1>1 DEF Owned, LbTypes, Shared
<1>3. sharedInflight' \in [Engine -> Int] /\ Shared'
  BY <1>1, <1>2, CountMoves, ArrayIsShared DEF Shared
<1>4. \A w \in Worker : popped'[w] = IF w = h THEN NoRequest ELSE popped[w]
  BY <1>0, <1>1 DEF LbTypes
<1>5. LbTypes'
  <2>1. popped' \in [Worker -> Request \cup {NoRequest}]
    BY <1>0, <1>1 DEF LbTypes
  <2> QED BY <1>0, <1>1, <1>3, <2>1 DEF LbTypes, Engine, NoArray
<1>6. Owned'
  BY <1>0, <1>1, <1>2, <1>3, <1>4 DEF Owned
<1>7. Truthful'
  BY <1>0, <1>1 DEF Truthful
<1>8. Exact'
  <2> SUFFICES ASSUME NEW e \in Engine
               PROVE  sharedInflight'[e] = Cardinality(AllReserved(e)) + Cardinality(Popping(e)')
    <3>1. /\ \A w \in Worker : \A e : Reserved(w, e)' = Reserved(w, e)
          /\ \A e : AllReserved(e)' = AllReserved(e)
      BY <1>1 DEF Reserved, AllReserved
    <3> QED BY <1>0, <1>1, <3>1 DEF Exact
  <2>1. Popping(e)' = Popping(e) \ {h}
    BY <1>1, <1>4 DEF Popping
  <2>2. sharedInflight[e] = Cardinality(AllReserved(e)) + Cardinality(Popping(e))
    BY <1>0, <1>2 DEF Exact
  <2>3. CASE e = x
    <3>1. h \in Popping(e)
      BY <1>1, <2>3 DEF Popping
    <3>2. Cardinality(Popping(e) \ {h}) = Cardinality(Popping(e)) - 1
      BY <3>1, CountedFinite, FS_RemoveElement
    <3>3. sharedInflight'[e] = sharedInflight[e] - 1
      BY <1>1, <1>2, <2>3
    <3> QED BY <2>1, <2>2, <3>2, <3>3, CountedFinite
  <2>4. CASE e # x
    <3>1. h \notin Popping(e)
      BY <2>4 DEF Popping
    <3>2. Popping(e)' = Popping(e)
      BY <2>1, <3>1
    <3>3. sharedInflight'[e] = sharedInflight[e]
      BY <1>1, <1>2, <2>4
    <3> QED BY <2>2, <3>2, <3>3
  <2> QED BY <2>3, <2>4
<1> QED BY <1>5, <1>6, <1>7, <1>8 DEF LbInv

(* Where a request may get to while no worker acts. *)
Live == {"sent", "waiting", "running"}
Onward ==
  \A r \in Request : /\ stage[r] = "new" => stage'[r] = "new"
                     /\ stage[r] \in Live => stage'[r] \in Live \cup {"ended"}
                     /\ stage[r] = "ended" => stage'[r] = "ended"

(* What an engine does leaves every reservation as it is. *)
LEMMA EngineKeeps ==
  ASSUME LoadBalancerAssumption, LbInv, Onward,
         \A r \in finished' \cup notices' : r \in Request /\ stage'[r] = "ended",
         stage' \in [Request -> {"new", "sent", "waiting", "running", "ended"}],
         aborts' \subseteq Request,
         UNCHANGED <<route, reqsInFlight, engineInflight, sharedInflight, popped>>
  PROVE  LbInv'
<1>0. LbTypes /\ Owned /\ Truthful /\ Exact /\ NoRequest \notin Request
  BY DEF LbInv, LoadBalancerAssumption
<1>1. LbTypes'
  BY <1>0 DEF LbTypes, Engine, NoArray
<1>2. Exact'
  BY <1>0, CountsKept
<1>3. \A r \in Request : /\ stage'[r] = "new" <=> stage[r] = "new"
                         /\ stage'[r] \in Live => stage[r] \in Live
  BY <1>0 DEF Onward, Live, LbTypes
<1>4. Owned'
  <2>1. \A w \in Worker : \A r \in reqsInFlight[w] : Home[r] = w /\ stage'[r] # "new"
    BY <1>0, <1>3 DEF Owned, LbTypes
  <2>2. \A w \in Worker : popped[w] # NoRequest =>
          /\ Shared /\ stage'[popped[w]] # "new"
          /\ popped[w] \notin reqsInFlight[Home[popped[w]]]
    BY <1>0, <1>3 DEF Owned, LbTypes
  <2> QED BY <2>1, <2>2 DEF Owned, Shared
<1>5. Truthful'
  BY <1>0, <1>3 DEF Truthful, Live
<1> QED BY <1>1, <1>2, <1>4, <1>5 DEF LbInv

(* The invariant holds throughout. *)
LEMMA LbStep == LoadBalancerAssumption /\ LbInv /\ [LbNext]_lbVars => LbInv'
<1> SUFFICES ASSUME LoadBalancerAssumption, LbInv, [LbNext]_lbVars
             PROVE  LbInv'
  OBVIOUS
<1>0. /\ LbTypes /\ Truthful
      /\ \A r \in finished \cup notices : r \in Request /\ stage[r] = "ended"
  BY DEF LbInv, LbTypes, Truthful
<1>1. ASSUME NEW r \in Request, Route(r) PROVE LbInv'
  BY <1>1, RouteKeeps
<1>2. ASSUME NEW r \in Request, AbortRequest(r) PROVE LbInv'
  <2>1. Onward /\ UNCHANGED <<stage, finished, notices>> /\ aborts' \subseteq Request
    BY <1>0, <1>2 DEF AbortRequest, Onward, Live, LbTypes
  <2> QED BY <1>0, <1>2, <2>1, EngineKeeps DEF AbortRequest, LbTypes
<1>3. ASSUME NEW w \in Worker, PopFinished(w) PROVE LbInv'
  BY <1>3, PopKeeps
<1>4. ASSUME NEW w \in Worker, ReleaseShared(w) PROVE LbInv'
  BY <1>4, ReleaseKeeps
<1>5. ASSUME NEW w \in Worker, ObserveStats(w) PROVE LbInv'
  <2>1. Onward /\ UNCHANGED <<stage, finished, notices, aborts>>
    BY <1>5 DEF ObserveStats, Onward, Live
  <2> QED BY <1>0, <1>5, <2>1, EngineKeeps DEF ObserveStats, LbTypes
<1>6. ASSUME NEW e \in Engine, ProcessInput(e) PROVE LbInv'
  <2> DEFINE gone == {r \in aborts : route[r] = e}
             ended == {r \in gone : stage[r] \in {"sent", "waiting", "running"}}
  <2>1. /\ aborts' = aborts \ gone /\ finished' = finished \cup ended
        /\ stage' = [r \in Request |-> IF r \in ended THEN "ended"
                                       ELSE IF r \in At(e, "sent") THEN "waiting"
                                       ELSE stage[r]]
        /\ UNCHANGED <<route, notices, reqsInFlight, engineInflight, sharedInflight, popped>>
    BY <1>6 DEF ProcessInput
  <2>2. ended \subseteq Request /\ \A r \in ended : stage[r] \in Live
    BY <1>0 DEF LbTypes, Live
  <2> HIDE DEF ended, gone
  <2>3. \A r \in At(e, "sent") : r \in Request /\ stage[r] = "sent"
    BY DEF At
  <2>4. /\ Onward /\ aborts' \subseteq Request
        /\ stage' \in [Request -> {"new", "sent", "waiting", "running", "ended"}]
    BY <1>0, <2>1, <2>2, <2>3 DEF Onward, Live, LbTypes
  <2>5. \A r \in finished' \cup notices' : r \in Request /\ stage'[r] = "ended"
    BY <1>0, <2>1, <2>2, <2>3, <2>4 DEF Onward
  <2> QED BY <2>1, <2>4, <2>5, EngineKeeps
<1>7. ASSUME NEW e \in Engine, EngineStep(e) PROVE LbInv'
  <2>1. PICK admitted \in SUBSET At(e, "waiting") :
          stage' = [r \in Request |-> IF r \in At(e, "running") THEN "ended"
                                      ELSE IF r \in admitted THEN "running"
                                      ELSE stage[r]]
    BY <1>7 DEF EngineStep
  <2>2. /\ notices' = notices \cup Unreported(e) \cup At(e, "running")
        /\ finished' = finished \ Unreported(e)
        /\ UNCHANGED <<route, aborts, reqsInFlight, engineInflight, sharedInflight, popped>>
    BY <1>7 DEF EngineStep
  <2>3. /\ \A r \in At(e, "running") : r \in Request /\ stage[r] = "running"
        /\ \A r \in admitted : r \in Request /\ stage[r] = "waiting"
        /\ Unreported(e) \subseteq finished
    BY DEF At, Unreported
  <2>4. /\ Onward /\ aborts' \subseteq Request
        /\ stage' \in [Request -> {"new", "sent", "waiting", "running", "ended"}]
    BY <1>0, <2>1, <2>2, <2>3 DEF Onward, Live, LbTypes
  <2>5. \A r \in finished' \cup notices' : r \in Request /\ stage'[r] = "ended"
    BY <1>0, <2>1, <2>2, <2>3, <2>4 DEF Onward
  <2> QED BY <2>2, <2>4, <2>5, EngineKeeps
<1>8. CASE UNCHANGED lbVars
  <2>1. Onward /\ UNCHANGED <<stage, finished, notices, aborts, route, reqsInFlight,
                              engineInflight, sharedInflight, popped>>
    BY <1>8 DEF lbVars, Onward, Live
  <2> QED BY <1>0, <2>1, EngineKeeps DEF LbTypes
<1> QED BY <1>1, <1>2, <1>3, <1>4, <1>5, <1>6, <1>7, <1>8 DEF LbNext

(* Reservations are exact: for any number of API workers and engines, and    *)
(* whatever order routing, releasing, aborting and late queue lengths come  *)
(* in, the shared array holds every worker's reservations and what is being *)
(* given back, so no update of several processes is lost or done twice.     *)
THEOREM ReservationsAreExact == LbSpec => []ReservationsExact
<1>1. LbInv => ReservationsExact
  <2> SUFFICES ASSUME LbInv PROVE ReservationsExact
    OBVIOUS
  <2>1. \A e : UNION {Reserved(w, e) : w \in Worker} = AllReserved(e)
    BY LoadBalancerAssumption, ReservedOnce DEF LbInv
  <2> QED BY <2>1 DEF LbInv, Exact, ReservationsExact, Popping
<1> QED BY <1>1, LoadBalancerAssumption, LbInitially, LbStep, PTL DEF LbSpec

(* The load is never understated: no engine ever has more unfinished requests *)
(* than the shared array says, also of clients that went away.                *)
THEOREM LoadIsNeverUnderstated == LbSpec => []LoadNeverUnderstated
<1>1. LbInv => LoadNeverUnderstated
  <2> SUFFICES ASSUME LbInv, Shared, NEW e \in Engine
               PROVE  Cardinality(OnEngine(e)) <= sharedInflight[e]
    BY DEF LoadNeverUnderstated
  <2>1. OnEngine(e) \subseteq AllReserved(e)
    BY DEF LbInv, Truthful, OnEngine, AllReserved
  <2>2. Cardinality(OnEngine(e)) <= Cardinality(AllReserved(e))
    BY <2>1, LoadBalancerAssumption, CountedFinite, FS_Subset
  <2>3. Cardinality(OnEngine(e)) \in Nat
    BY <2>1, LoadBalancerAssumption, CountedFinite, FS_Subset, FS_CardinalityType
  <2>4. sharedInflight[e] = Cardinality(AllReserved(e)) + Cardinality(Popping(e))
    BY DEF LbInv, Exact
  <2> QED BY <2>2, <2>3, <2>4, LoadBalancerAssumption, CountedFinite
<1> QED BY <1>1, LoadBalancerAssumption, LbInitially, LbStep, PTL DEF LbSpec

(* Queue lengths and the rotation index are what their names say, and a      *)
(* request has an engine once it is routed.                                  *)
LoadTypes ==
  /\ route \in [Request -> Engine \cup {NoEngine}]
  /\ stepping \subseteq Engine
  /\ lastCounts \in [Engine -> [waiting : Nat, running : Nat]]
  /\ lbEngines \in [Worker -> [Engine -> [waiting : Nat, running : Nat]]]
  /\ startIndex \in [Worker -> Engine]

Unrouted == \A r \in Request : stage[r] = "new" => route[r] = NoEngine

(* The premise of BurstSpread: clients leave the choice to the balancer, and *)
(* no reservation was released.                                              *)
NoneReleased ==
  \A r \in Request :
    route[r] # NoEngine => LoadBalanced(r) /\ r \in reqsInFlight[Home[r]]

(* The inductive invariant of the burst.                                     *)
BurstInv == LbInv /\ LoadTypes /\ Unrouted /\ BurstSpread

(* Every count of reservations is a natural number. *)
LEMMA CountsNatural ==
  ASSUME LoadBalancerAssumption, LbInv
  PROVE  /\ engineInflight \in [Worker -> [Engine -> Nat]]
         /\ Shared => sharedInflight \in [Engine -> Nat]
<1>0. LbTypes /\ Exact
  BY DEF LbInv
<1>1. \A w \in Worker, e \in Engine : engineInflight[w][e] \in Nat
  BY <1>0, ReservedFinite DEF Exact
<1>2. ASSUME Shared, NEW e \in Engine PROVE sharedInflight[e] \in Nat
  <2>1. sharedInflight[e] = Cardinality(AllReserved(e)) + Cardinality(Popping(e))
    BY <1>0, <1>2 DEF Exact
  <2> QED BY <2>1, CountedFinite
<1>3. \A w \in Worker : engineInflight[w] \in [Engine -> Nat]
  BY <1>0, <1>1 DEF LbTypes
<1>4. engineInflight \in [Worker -> [Engine -> Nat]]
  BY <1>0, <1>3 DEF LbTypes
<1>5. Shared => sharedInflight \in [Engine -> Nat]
  BY <1>0, <1>2 DEF LbTypes, Shared
<1> QED BY <1>4, <1>5

(* A score is a pair of naturals, whichever way it is formed. *)
LEMMA ScoresNatural ==
  ASSUME LoadBalancerAssumption, LbInv, LoadTypes, NEW w \in Worker, NEW e \in Engine
  PROVE  Score(w, e)[1] \in Nat /\ Score(w, e)[2] \in Nat
<1>1. lbEngines[w][e] \in [waiting : Nat, running : Nat]
  BY DEF LoadTypes
<1>2. ObservedLoad(lbEngines[w][e]) \in Nat
  <2>1. PICK a \in Nat, b \in Nat : lbEngines[w][e].waiting = a /\ lbEngines[w][e].running = b
    BY <1>1
  <2> QED BY <2>1 DEF ObservedLoad
<1>3. Shared => sharedInflight[e] \in Nat
  BY CountsNatural
<1>4. LocalInflight(w, e) \in Int
  <2>1. engineInflight[w][e] \in Nat
    BY CountsNatural
  <2>2. ClientCount \in Int
    <3>1. Cardinality(Worker) \in Nat
      BY FS_CardinalityType DEF LoadBalancerAssumption
    <3> QED BY <3>1 DEF LoadBalancerAssumption
  <2> QED BY <2>1, <2>2 DEF LocalInflight
<1>5. CASE Shared
  BY <1>2, <1>3, <1>5 DEF Score
<1>6. CASE ~Shared
  <2> DEFINE o == ObservedLoad(lbEngines[w][e])
             l == LocalInflight(w, e)
  <2>1. Score(w, e) = <<IF l > o THEN l ELSE o, 0>>
    BY <1>6 DEF Score
  <2> HIDE DEF o, l
  <2>2. o \in Nat /\ l \in Int
    BY <1>2, <1>4 DEF o, l
  <2> QED BY <2>1, <2>2
<1> QED BY <1>5, <1>6

(* Adding a rest to a start goes round once at most. *)
LEMMA RoundOnce ==
  ASSUME NEW N \in Nat \ {0}, NEW y \in 0 .. 2 * N - 1
  PROVE  y % N = IF y < N THEN y ELSE y - N
<1>1. PICK q \in Int, m \in 0 .. N - 1 : y = q * N + m /\ m = y % N
  OBVIOUS
<1>2. ~(q < 0)
  <2> SUFFICES ASSUME q < 0 PROVE FALSE
    OBVIOUS
  <2>1. (-q) * N >= N
    OBVIOUS
  <2>2. (-q) * N = -(q * N) /\ q * N \in Int
    OBVIOUS
  <2> QED BY <1>1, <2>1, <2>2
<1>3. ~(q > 1)
  <2> SUFFICES ASSUME q > 1 PROVE FALSE
    OBVIOUS
  <2>1. (q - 1) * N >= N
    <3>1. \A k \in Int : k >= 1 => k * N >= N
      OBVIOUS
    <3> QED BY <3>1
  <2>2. (q - 1) * N = q * N - N /\ q * N \in Int
    OBVIOUS
  <2>3. q * N >= 2 * N
    BY <2>1, <2>2
  <2> QED BY <1>1, <2>3
<1>4. CASE q = 0
  BY <1>1, <1>4
<1>5. CASE q = 1
  BY <1>1, <1>5
<1> QED BY <1>2, <1>3, <1>4, <1>5

(* From any start, the scan visits engines only, and every one of them. *)
LEMMA ScanVisitsAll ==
  ASSUME LoadBalancerAssumption, NEW s \in Engine
  PROVE  /\ \A k \in Engine : (s + k) % NumEngines \in Engine
         /\ \A f \in Engine : \E k \in Engine : (s + k) % NumEngines = f
<1> DEFINE N == NumEngines
<1>0. N \in Nat \ {0} /\ Engine = 0 .. N - 1
  BY DEF LoadBalancerAssumption, Engine
<1> HIDE DEF N
<1>1. \A k \in Engine : (s + k) % N \in Engine
  BY <1>0
<1>2. ASSUME NEW f \in Engine PROVE \E k \in Engine : (s + k) % N = f
  <2>1. CASE f >= s
    <3>1. f - s \in Engine /\ s + (f - s) = f /\ f \in 0 .. 2 * N - 1 /\ f < N
      BY <1>0, <2>1
    <3>2. f % N = f
      BY <1>0, <3>1, RoundOnce
    <3>3. PICK k \in Engine : k = f - s /\ s + k = f
      BY <3>1
    <3> QED BY <3>2, <3>3
  <2>2. CASE f < s
    <3>1. /\ f - s + N \in Engine /\ s + (f - s + N) = f + N
          /\ f + N \in 0 .. 2 * N - 1 /\ ~(f + N < N) /\ (f + N) - N = f
      BY <1>0, <2>2
    <3>2. (f + N) % N = f
      BY <1>0, <3>1, RoundOnce
    <3>3. PICK k \in Engine : k = f - s + N /\ s + k = f + N
      BY <3>1
    <3> QED BY <3>1, <3>2, <3>3
  <2> QED BY <1>0, <2>1, <2>2
<1> QED BY <1>1, <1>2 DEF N

(* Some engine has a least score. *)
LEMMA SomeLeast ==
  ASSUME LoadBalancerAssumption, LbInv, LoadTypes, NEW w \in Worker
  PROVE  \E b \in Engine : \A f \in Engine : ~Lower(Score(w, f), Score(w, b))
<1> DEFINE Firsts == {Score(w, f)[1] : f \in Engine}
<1>1. 0 \in Engine
  BY DEF LoadBalancerAssumption, Engine
<1>2. \A f \in Engine : Score(w, f)[1] \in Nat /\ Score(w, f)[2] \in Nat
  BY ScoresNatural
<1>3. PICK a \in Firsts : \A y \in Firsts : a <= y
  <2>1. Firsts \subseteq Nat /\ Firsts # {}
    BY <1>1, <1>2
  <2> HIDE DEF Firsts
  <2> QED BY <2>1, LeastNatural
<1> DEFINE Seconds == {Score(w, f)[2] : f \in {g \in Engine : Score(w, g)[1] = a}}
<1>4. PICK c \in Seconds : \A y \in Seconds : c <= y
  <2>1. Seconds \subseteq Nat /\ Seconds # {}
    BY <1>2
  <2> HIDE DEF Seconds
  <2> QED BY <2>1, LeastNatural
<1>5. PICK b \in Engine : Score(w, b)[1] = a /\ Score(w, b)[2] = c
  OBVIOUS
<1>6. ASSUME NEW f \in Engine PROVE ~Lower(Score(w, f), Score(w, b))
  <2>1. a <= Score(w, f)[1] /\ (Score(w, f)[1] = a => c <= Score(w, f)[2])
    BY <1>3, <1>4
  <2>2. Score(w, f)[1] \in Nat /\ Score(w, f)[2] \in Nat /\ a \in Nat /\ c \in Nat
    BY <1>2, <1>5
  <2> HIDE DEF Firsts, Seconds
  <2> QED BY <1>5, <2>1, <2>2 DEF Lower
<1> QED BY <1>5, <1>6

(* The balancer picks an engine, and no engine scores lower. *)
LEMMA BalancedIsLeast ==
  ASSUME LoadBalancerAssumption, LbInv, LoadTypes, NEW w \in Worker
  PROVE  /\ Balanced(w) \in Engine
         /\ \A f \in Engine : ~Lower(Score(w, f), Score(w, Balanced(w)))
<1> DEFINE nth(k) == (startIndex[w] + k) % NumEngines
           Least(k) == \A j \in Engine : ~Lower(Score(w, nth(j)), Score(w, nth(k)))
           First(k) == \A j \in 0 .. k - 1 : Lower(Score(w, nth(k)), Score(w, nth(j)))
<1>1. startIndex[w] \in Engine /\ Engine \subseteq Nat
  BY DEF LoadTypes, Engine
<1>2. /\ \A k \in Engine : nth(k) \in Engine
      /\ \A f \in Engine : \E k \in Engine : nth(k) = f
  BY <1>1, ScanVisitsAll
<1>a. Balanced(w) = nth(CHOOSE k \in Engine : Least(k) /\ First(k))
  BY DEF Balanced
<1>b. \A f \in Engine : Score(w, f)[1] \in Nat /\ Score(w, f)[2] \in Nat
  BY ScoresNatural
<1> HIDE DEF nth
<1>3. \E k \in Engine : Least(k)
  <2>1. PICK b \in Engine : \A f \in Engine : ~Lower(Score(w, f), Score(w, b))
    BY SomeLeast
  <2> QED BY <1>2, <2>1
<1>4. PICK k \in Engine : Least(k) /\ \A j \in Engine : Least(j) => k <= j
  <2> DEFINE S == {j \in Engine : Least(j)}
  <2>1. S \subseteq Nat /\ S # {}
    BY <1>1, <1>3
  <2> HIDE DEF Least
  <2>2. \E x \in S : \A y \in S : x <= y
    <3> HIDE DEF S
    <3> QED BY <2>1, LeastNatural
  <2> QED BY <2>2
<1>5. First(k)
  <2> SUFFICES ASSUME NEW j \in 0 .. k - 1
               PROVE  Lower(Score(w, nth(k)), Score(w, nth(j)))
    OBVIOUS
  <2>1. j \in Engine /\ j < k /\ ~(k <= j)
    BY <1>1 DEF Engine
  <2>2. ~Least(j)
    <3> HIDE DEF Least
    <3> QED BY <1>4, <2>1
  <2>3. PICK i \in Engine : Lower(Score(w, nth(i)), Score(w, nth(j)))
    BY <2>2
  <2>4. ~Lower(Score(w, nth(i)), Score(w, nth(k)))
    BY <1>4
  <2>5. nth(i) \in Engine /\ nth(j) \in Engine /\ nth(k) \in Engine
    BY <1>2, <2>1
  <2> QED BY <1>b, <2>3, <2>4, <2>5 DEF Lower
<1> DEFINE c == CHOOSE i \in Engine : Least(i) /\ First(i)
<1>6. c \in Engine /\ Least(c)
  <2> HIDE DEF Least, First
  <2> QED BY <1>4, <1>5
<1> HIDE DEF c
<1>7. Balanced(w) = nth(c)
  BY <1>a DEF c
<1>8. ASSUME NEW f \in Engine PROVE ~Lower(Score(w, f), Score(w, nth(c)))
  <2>1. PICK j \in Engine : nth(j) = f
    BY <1>2
  <2> QED BY <1>6, <2>1
<1> QED BY <1>2, <1>6, <1>7, <1>8

(* Initially nothing is routed. *)
LEMMA BurstInitially == LoadBalancerAssumption /\ LbInit => BurstInv
<1> SUFFICES ASSUME LoadBalancerAssumption, LbInit PROVE BurstInv
  OBVIOUS
<1>1. LbInv
  BY LbInitially
<1>2. 0 \in Engine
  BY DEF LoadBalancerAssumption, Engine
<1>3. LoadTypes /\ Unrouted
  BY <1>2 DEF LbInit, LoadTypes, Unrouted, NoCounts
<1>4. \A e \in Engine : Routed(e) = {}
  BY DEF LbInit, Routed, NoEngine, Engine
<1>5. BurstSpread
  <2>1. \A e \in Engine : Cardinality(Routed(e)) = 0
    BY <1>4, FS_EmptySet
  <2> QED BY <2>1 DEF BurstSpread
<1> QED BY <1>1, <1>3, <1>5 DEF BurstInv

(* While nothing is released, the array is the number of requests routed. *)
LEMMA ArrayIsRouted ==
  ASSUME LoadBalancerAssumption, LbInv, LoadTypes, Shared, NoneReleased, NEW e \in Engine
  PROVE  sharedInflight[e] = Cardinality(Routed(e))
<1>0. LbTypes /\ Owned /\ Exact /\ \A r \in Request : Home[r] \in Worker
  BY DEF LbInv, LoadBalancerAssumption
<1>1. e # NoEngine
  BY DEF Engine, NoEngine
<1>2. AllReserved(e) = Routed(e)
  BY <1>1 DEF AllReserved, Routed, NoneReleased
<1>3. Popping(e) = {}
  <2> SUFFICES ASSUME NEW w \in Worker, popped[w] # NoRequest, route[popped[w]] = e PROVE FALSE
    BY DEF Popping
  <2>1. popped[w] \in Request /\ popped[w] \notin reqsInFlight[Home[popped[w]]]
    BY <1>0 DEF LbTypes, Owned
  <2> QED BY <1>1, <2>1 DEF NoneReleased
<1>4. Cardinality(Popping(e)) = 0
  BY <1>3, FS_EmptySet
<1> QED BY <1>0, <1>2, <1>4, CountedFinite DEF Exact

(* A step that routes nothing leaves the spread as it is. *)
LEMMA SpreadKept ==
  ASSUME LoadTypes, BurstSpread, UNCHANGED route, Shared' => Shared,
         \A w \in Worker : reqsInFlight'[w] \subseteq reqsInFlight[w],
         \A r \in Request : Home[r] \in Worker
  PROVE  BurstSpread'
<1> SUFFICES ASSUME Shared, NoneReleased'
             PROVE  \A e, f \in Engine : Cardinality(Routed(e)') <= Cardinality(Routed(f)') + 1
  BY DEF BurstSpread, NoneReleased, LoadBalanced
<1>1. NoneReleased
  BY DEF NoneReleased, LoadBalanced
<1>2. \A e : Routed(e)' = Routed(e)
  BY DEF Routed
<1> QED BY <1>1, <1>2 DEF BurstSpread, NoneReleased

(* The chosen engine has no more requests than any other, so it may have one *)
(* more.                                                                     *)
LEMMA RouteSpreads ==
  ASSUME LoadBalancerAssumption, BurstInv, NEW r \in Request, Route(r)
  PROVE  /\ route' = [route EXCEPT ![r] = route'[r]] /\ route'[r] \in Engine
         /\ BurstSpread'
<1>0. /\ LbInv /\ LoadTypes /\ Unrouted /\ BurstSpread /\ LbTypes /\ Owned
      /\ Home[r] \in Worker /\ \A q \in Request : Home[q] \in Worker
      /\ Pinned[r] \in Engine \cup {NoEngine}
  BY DEF BurstInv, LbInv, LoadBalancerAssumption
<1> DEFINE h == Home[r]
           x == IF LoadBalanced(r) THEN Balanced(h) ELSE Pinned[r]
<1>1. /\ stage[r] = "new"
      /\ route' = [route EXCEPT ![r] = x]
      /\ reqsInFlight' = [reqsInFlight EXCEPT ![h] = @ \cup {r}]
      /\ sharedInflight' = IF Shared THEN [sharedInflight EXCEPT ![x] = @ + 1]
                           ELSE sharedInflight
  BY DEF Route
<1>2. x \in Engine
  BY <1>0, BalancedIsLeast DEF LoadBalanced
<1>3. LoadBalanced(r) => \A f \in Engine : ~Lower(Score(h, f), Score(h, x))
  BY <1>0, BalancedIsLeast
<1> HIDE DEF x
<1>4. \A q \in Request : route'[q] = IF q = r THEN x ELSE route[q]
  BY <1>0, <1>1 DEF LoadTypes
<1>5. route[r] = NoEngine /\ x # NoEngine
  BY <1>0, <1>1, <1>2 DEF Unrouted, Engine, NoEngine
<1>6. BurstSpread'
  <2> SUFFICES ASSUME Shared', NoneReleased', NEW e \in Engine, NEW f \in Engine
               PROVE  Cardinality(Routed(e)') <= Cardinality(Routed(f)') + 1
    BY DEF BurstSpread, NoneReleased, LoadBalanced
  <2>1. Shared
    BY <1>1 DEF Shared
  <2>2. LoadBalanced(r)
    BY <1>4, <1>5 DEF NoneReleased, LoadBalanced
  <2>3. NoneReleased
    <3> SUFFICES ASSUME NEW q \in Request, route[q] # NoEngine
                 PROVE  LoadBalanced(q) /\ q \in reqsInFlight[Home[q]]
      BY DEF NoneReleased
    <3>1. q # r /\ route'[q] = route[q]
      BY <1>4, <1>5
    <3>2. LoadBalanced(q) /\ q \in reqsInFlight'[Home[q]]
      BY <3>1 DEF NoneReleased, LoadBalanced
    <3>3. Home[q] \in Worker
      BY <1>0
    <3> QED BY <1>0, <1>1, <3>1, <3>2, <3>3 DEF LbTypes
  <2>4. \A g \in Engine : sharedInflight[g] = Cardinality(Routed(g))
    BY <1>0, <2>1, <2>3, ArrayIsRouted
  <2>5. \A g \in Engine : IsFiniteSet(Routed(g)) /\ Cardinality(Routed(g)) \in Nat
    <3> SUFFICES ASSUME NEW g \in Engine
                 PROVE  IsFiniteSet(Routed(g)) /\ Cardinality(Routed(g)) \in Nat
      OBVIOUS
    <3>1. Routed(g) \subseteq Request
      BY DEF Routed
    <3> QED BY <3>1, FS_Subset, FS_CardinalityType DEF LoadBalancerAssumption
  <2>6. \A g \in Engine : Cardinality(Routed(x)) <= Cardinality(Routed(g))
    <3> SUFFICES ASSUME NEW g \in Engine PROVE Cardinality(Routed(x)) <= Cardinality(Routed(g))
      OBVIOUS
    <3>1. ~Lower(Score(h, g), Score(h, x))
      BY <1>3, <2>2
    <3>2. Score(h, g)[1] = sharedInflight[g] /\ Score(h, x)[1] = sharedInflight[x]
      BY <2>1 DEF Score
    <3>3. ~(sharedInflight[g] < sharedInflight[x])
      BY <3>1, <3>2 DEF Lower
    <3> QED BY <1>2, <2>4, <2>5, <3>3
  <2>7. \A a, b \in Engine : Cardinality(Routed(a)) <= Cardinality(Routed(b)) + 1
    BY <1>0, <2>1, <2>3 DEF BurstSpread, NoneReleased
  <2>8. ASSUME NEW g \in Engine
        PROVE  Cardinality(Routed(g)') = IF g = x THEN Cardinality(Routed(g)) + 1
                                         ELSE Cardinality(Routed(g))
    <3>1. CASE g = x
      <4>1. Routed(g)' = Routed(g) \cup {r} /\ r \notin Routed(g)
        BY <1>4, <1>5, <3>1 DEF Routed
      <4>2. Cardinality(Routed(g) \cup {r}) = Cardinality(Routed(g)) + 1
        BY <2>5, <4>1, FS_AddElement
      <4> QED BY <3>1, <4>1, <4>2
    <3>2. CASE g # x
      <4>1. NoEngine # g
        BY DEF Engine, NoEngine
      <4>2. Routed(g)' = Routed(g)
        BY <1>4, <1>5, <3>2, <4>1 DEF Routed
      <4> QED BY <3>2, <4>2
    <3> QED BY <3>1, <3>2
  <2>9. /\ Cardinality(Routed(e)) \in Nat /\ Cardinality(Routed(f)) \in Nat
        /\ Cardinality(Routed(e)) <= Cardinality(Routed(f)) + 1
        /\ e = x => Cardinality(Routed(e)) <= Cardinality(Routed(f))
    BY <2>5, <2>6, <2>7
  <2>10. CASE e = f
    BY <2>8, <2>9, <2>10
  <2>11. CASE e # f
    BY <2>8, <2>9, <2>11
  <2> QED BY <2>10, <2>11
<1>7. route' = [route EXCEPT ![r] = route'[r]]
  BY <1>1, <1>4, <1>0 DEF LoadTypes
<1> QED BY <1>2, <1>4, <1>6, <1>7

(* The counts an engine publishes are natural numbers. *)
LEMMA CountsNextNatural ==
  ASSUME LoadBalancerAssumption, NEW e
  PROVE  CountsNext(e) \in [waiting : Nat, running : Nat]
<1>1. ASSUME NEW T, T \subseteq Request PROVE Cardinality(T) \in Nat
  BY <1>1, FS_Subset, FS_CardinalityType DEF LoadBalancerAssumption
<1> QED BY <1>1 DEF CountsNext

(* The invariant of the burst holds throughout. *)
LEMMA BurstStep == LoadBalancerAssumption /\ BurstInv /\ [LbNext]_lbVars => BurstInv'
<1> SUFFICES ASSUME LoadBalancerAssumption, BurstInv, [LbNext]_lbVars
             PROVE  BurstInv'
  OBVIOUS
<1>0. /\ LbInv /\ LoadTypes /\ Unrouted /\ BurstSpread /\ LbTypes /\ Owned
      /\ \A q \in Request : Home[q] \in Worker
  BY DEF BurstInv, LbInv, LoadBalancerAssumption
<1>1. LbInv'
  BY <1>0, LbStep
<1>2. ASSUME NEW r \in Request, Route(r) PROVE LoadTypes' /\ Unrouted' /\ BurstSpread'
  <2> DEFINE h == Home[r]
             x == IF LoadBalanced(r) THEN Balanced(h) ELSE Pinned[r]
  <2>1. /\ route' = [route EXCEPT ![r] = x]
        /\ stage' = [stage EXCEPT ![r] = "sent"]
        /\ lbEngines' = IF LoadBalanced(r) /\ ~Shared
                        THEN [lbEngines EXCEPT ![h][x].waiting = @ + ClientCount]
                        ELSE lbEngines
        /\ startIndex' = IF LoadBalanced(r)
                         THEN [startIndex EXCEPT ![h] = (@ + 1) % NumEngines]
                         ELSE startIndex
        /\ UNCHANGED <<stepping, lastCounts>>
    BY <1>2 DEF Route
  <2> HIDE DEF x
  <2>2. route'[r] \in Engine /\ route'[r] = x /\ h \in Worker
    BY <1>0, <1>2, <2>1, RouteSpreads DEF LoadTypes
  <2>3. startIndex' \in [Worker -> Engine]
    <3>1. (startIndex[h] + 1) % NumEngines \in Engine
      BY <1>0, <2>2 DEF LoadTypes, Engine, LoadBalancerAssumption
    <3> QED BY <1>0, <2>1, <3>1 DEF LoadTypes
  <2>4. lbEngines' \in [Worker -> [Engine -> [waiting : Nat, running : Nat]]]
    <3> DEFINE C == [waiting : Nat, running : Nat]
               new == [lbEngines[h] EXCEPT ![x].waiting = @ + ClientCount]
    <3>1. ClientCount \in Nat
      <4>1. Cardinality(Worker) \in Nat
        BY FS_CardinalityType DEF LoadBalancerAssumption
      <4> QED BY <4>1 DEF LoadBalancerAssumption
    <3>2. lbEngines[h] \in [Engine -> C] /\ lbEngines[h][x] \in C
      BY <1>0, <2>2 DEF LoadTypes
    <3>3. [lbEngines[h][x] EXCEPT !.waiting = @ + ClientCount] \in C
      BY <3>1, <3>2
    <3>4. new = [lbEngines[h] EXCEPT ![x] = [lbEngines[h][x] EXCEPT !.waiting = @ + ClientCount]]
      BY <3>2
    <3>5. new \in [Engine -> C]
      <4> HIDE DEF C, new
      <4> QED BY <3>2, <3>3, <3>4
    <3>6. [lbEngines EXCEPT ![h][x].waiting = @ + ClientCount] = [lbEngines EXCEPT ![h] = new]
      OBVIOUS
    <3>7. lbEngines \in [Worker -> [Engine -> C]]
      BY <1>0 DEF LoadTypes
    <3>8. lbEngines' = lbEngines \/ lbEngines' = [lbEngines EXCEPT ![h] = new]
      BY <2>1, <3>6
    <3> HIDE DEF C, new
    <3>9. lbEngines' \in [Worker -> [Engine -> C]]
      BY <3>5, <3>7, <3>8
    <3> QED BY <3>9 DEF C
  <2>5. route' \in [Request -> Engine \cup {NoEngine}] /\ Unrouted'
    BY <1>0, <2>1, <2>2 DEF LoadTypes, Unrouted, LbTypes
  <2>6. LoadTypes'
    BY <1>0, <2>1, <2>3, <2>4, <2>5 DEF LoadTypes, Engine
  <2> QED BY <1>2, <2>5, <2>6, RouteSpreads
<1>3. ASSUME NEW r \in Request, AbortRequest(r) PROVE LoadTypes' /\ Unrouted' /\ BurstSpread'
  <2>1. UNCHANGED <<stage, route, stepping, lastCounts, lbEngines, startIndex,
                    reqsInFlight, sharedInflight>>
    BY <1>3 DEF AbortRequest
  <2> QED BY <1>0, <2>1, SpreadKept DEF LoadTypes, Unrouted, Shared, Engine
<1>4. ASSUME NEW w \in Worker, PopFinished(w) PROVE LoadTypes' /\ Unrouted' /\ BurstSpread'
  <2>1. /\ UNCHANGED <<stage, route, stepping, lastCounts, lbEngines, startIndex, sharedInflight>>
        /\ \E r : reqsInFlight' = [reqsInFlight EXCEPT ![w] = @ \ {r}]
    BY <1>4 DEF PopFinished
  <2>2. \A u \in Worker : reqsInFlight'[u] \subseteq reqsInFlight[u]
    BY <1>0, <2>1 DEF LbTypes
  <2> QED BY <1>0, <2>1, <2>2, SpreadKept DEF LoadTypes, Unrouted, Shared, Engine
<1>5. ASSUME NEW w \in Worker, ReleaseShared(w) PROVE LoadTypes' /\ Unrouted' /\ BurstSpread'
  <2>1. UNCHANGED <<stage, route, stepping, lastCounts, lbEngines, startIndex, reqsInFlight>>
    BY <1>5 DEF ReleaseShared
  <2>2. Shared
    BY <1>0, <1>5 DEF ReleaseShared, Owned
  <2>3. LoadTypes' /\ Unrouted'
    BY <1>0, <2>1 DEF LoadTypes, Unrouted, Engine
  <2> QED BY <1>0, <2>1, <2>2, <2>3, SpreadKept
<1>6. ASSUME NEW w \in Worker, ObserveStats(w) PROVE LoadTypes' /\ Unrouted' /\ BurstSpread'
  <2>1. /\ UNCHANGED <<stage, route, stepping, lastCounts, startIndex, reqsInFlight,
                       sharedInflight>>
        /\ lbEngines' = [lbEngines EXCEPT ![w] = lastCounts]
    BY <1>6 DEF ObserveStats
  <2>2. LoadTypes' /\ Unrouted'
    BY <1>0, <2>1 DEF LoadTypes, Unrouted, Engine
  <2> QED BY <1>0, <2>1, <2>2, SpreadKept DEF Shared
<1>7. ASSUME NEW e \in Engine, ProcessInput(e) PROVE LoadTypes' /\ Unrouted' /\ BurstSpread'
  <2> DEFINE ended == {r \in {q \in aborts : route[q] = e} : stage[r] \in {"sent", "waiting", "running"}}
  <2>1. /\ UNCHANGED <<route, lbEngines, startIndex, reqsInFlight, sharedInflight>>
        /\ stepping' = stepping \cup {e}
        /\ lastCounts' = [lastCounts EXCEPT ![e] = CountsNext(e)]
        /\ stage' = [r \in Request |-> IF r \in ended THEN "ended"
                                       ELSE IF r \in At(e, "sent") THEN "waiting"
                                       ELSE stage[r]]
    BY <1>7 DEF ProcessInput, PublishCounts
  <2>2. \A r \in Request : stage'[r] = "new" => stage[r] = "new"
    <3> HIDE DEF ended
    <3> QED BY <2>1
  <2>3. Unrouted'
    BY <1>0, <2>1, <2>2 DEF Unrouted
  <2>4. LoadTypes'
    BY <1>0, <2>1, CountsNextNatural DEF LoadTypes, Engine
  <2> QED BY <1>0, <2>1, <2>3, <2>4, SpreadKept DEF Shared
<1>8. ASSUME NEW e \in Engine, EngineStep(e) PROVE LoadTypes' /\ Unrouted' /\ BurstSpread'
  <2>1. /\ UNCHANGED <<route, lbEngines, startIndex, reqsInFlight, sharedInflight>>
        /\ stepping' = stepping \ {e}
        /\ lastCounts' = [lastCounts EXCEPT ![e] = CountsNext(e)]
    BY <1>8 DEF EngineStep, PublishAfterStep, PublishCounts
  <2>2. \A r \in Request : stage'[r] = "new" => stage[r] = "new"
    BY <1>8 DEF EngineStep
  <2>3. Unrouted'
    BY <1>0, <2>1, <2>2 DEF Unrouted
  <2>4. LoadTypes'
    BY <1>0, <2>1, CountsNextNatural DEF LoadTypes, Engine
  <2> QED BY <1>0, <2>1, <2>3, <2>4, SpreadKept DEF Shared
<1>9. ASSUME UNCHANGED lbVars PROVE LoadTypes' /\ Unrouted' /\ BurstSpread'
  <2>1. UNCHANGED <<stage, route, stepping, lastCounts, lbEngines, startIndex,
                    reqsInFlight, sharedInflight>>
    BY <1>9 DEF lbVars
  <2> QED BY <1>0, <2>1, SpreadKept DEF LoadTypes, Unrouted, Shared, Engine
<1>10. LoadTypes' /\ Unrouted' /\ BurstSpread'
  <2> HIDE DEF LoadTypes, Unrouted, BurstSpread
  <2>1. LbNext \/ UNCHANGED lbVars
    OBVIOUS
  <2> QED BY <1>2, <1>3, <1>4, <1>5, <1>6, <1>7, <1>8, <1>9, <2>1 DEF LbNext
<1> QED BY <1>1, <1>10 DEF BurstInv

(* A burst is spread evenly: for any number of API workers and engines, and  *)
(* however stale the queue lengths the workers observe, two engines differ   *)
(* by one request at most until a reservation is released.                   *)
THEOREM BurstIsSpread == LbSpec => []BurstSpread
<1>1. BurstInv => BurstSpread
  BY DEF BurstInv
<1> QED BY <1>1, LoadBalancerAssumption, BurstInitially, BurstStep, PTL DEF LbSpec

(* Every variable of the balancer keeps its type; in particular no count of  *)
(* requests in flight, of a worker or in the array, ever goes below zero.    *)
THEOREM LbTypesCorrect == LbSpec => []LbTypeOK
<1>1. BurstInv => LbTypeOK
  <2> SUFFICES ASSUME BurstInv PROVE LbTypeOK
    OBVIOUS
  <2>1. LbTypes /\ LoadTypes /\ LbInv
    BY DEF BurstInv, LbInv
  <2>2. /\ engineInflight \in [Worker -> [Engine -> Nat]]
        /\ Shared => sharedInflight \in [Engine -> Nat]
    BY <2>1, LoadBalancerAssumption, CountsNatural
  <2> QED BY <2>1, <2>2 DEF LbTypeOK, LbTypes, LoadTypes, Shared
<1> QED BY <1>1, LoadBalancerAssumption, BurstInitially, BurstStep, PTL DEF LbSpec
------------------------------------------------------------------------------
(* The NeuronCore allocator (CoreAllocator).                                *)

Inside == {"reaping", "finding", "granting", "releasing"}

(* Who runs inside the lock has it, and nobody else does. *)
LockHolder == \A p \in Pid : lock = p <=> pc[p] \in Inside

(* What the file says, or will once the holder of the lock has written it. *)
Books == IF lock \in Pid /\ pc[lock] \in Writing THEN snap ELSE held

(* In between the holder works on what the file says. *)
ReadTrue == \A p \in Pid : pc[p] = "finding" => snap = held

(* The books give no core twice, and every process has what it uses in them. *)
Booked(state) ==
  /\ \A p, q \in Pid : p # q => state[p] \cap state[q] = {}
  /\ \A p \in Pid : mine[p] \subseteq state[p]

(* The dead use nothing, nor does a process before it is granted a block.   *)
UsersAlive == \A p \in Pid : mine[p] # {} => pc[p] \in {"granting", "using"}

(* The inductive invariant.  CoresExclusive is about what processes use; it *)
(* is kept because the books they are given cores from name all of it,      *)
(* which needs the lock around every read and write of the file.            *)
CoreInv ==
  /\ CoreTypeOK /\ LockHolder /\ ReadTrue /\ UsersAlive
  /\ ~tornOnce => Booked(Books)

(* A block found free lies on the host, and nobody has a core of it. *)
LEMMA FreeBlock ==
  ASSUME AllocatorAssumption, NEW state \in [Pid -> SUBSET Core], NEW n \in 1 .. NumCores,
         FreeStarts(state, n) # {}
  PROVE  /\ Block(Min(FreeStarts(state, n)), n) \subseteq Core
         /\ \A q \in Pid : Block(Min(FreeStarts(state, n)), n) \cap state[q] = {}
<1> DEFINE S == FreeStarts(state, n)
<1>1. S \subseteq Nat /\ S # {}
  BY DEF FreeStarts, Core, AllocatorAssumption
<1>2. Min(S) \in S
  <2>1. \E x \in S : \A y \in S : x <= y
    BY <1>1, LeastNatural
  <2> QED BY <2>1 DEF Min
<1>3. \A s \in S : /\ s \in Core /\ s + n <= NumCores
                   /\ Block(s, n) \cap Taken(state) = {}
  BY DEF FreeStarts
<1> HIDE DEF S
<1>4. Block(Min(S), n) \subseteq Core
  BY <1>2, <1>3 DEF Block, Core, AllocatorAssumption
<1>5. \A q \in Pid : Block(Min(S), n) \cap state[q] = {}
  BY <1>2, <1>3 DEF Taken
<1> QED BY <1>4, <1>5 DEF S

(* No process runs and no core is taken at first. *)
LEMMA CoreInitially == AllocatorAssumption /\ CoreInit => CoreInv
<1> SUFFICES ASSUME AllocatorAssumption, CoreInit PROVE CoreInv
  OBVIOUS
<1>1. CoreTypeOK
  <2>1. 0 \in 0 .. MaxStarts
    BY DEF AllocatorAssumption
  <2>2. \A X : X = [p \in Pid |-> {}] => X \in [Pid -> SUBSET Core]
    OBVIOUS
  <2> QED BY <2>1, <2>2 DEF CoreInit, CoreTypeOK, Nothing
<1>2. LockHolder /\ ReadTrue /\ UsersAlive
  BY DEF CoreInit, LockHolder, ReadTrue, UsersAlive, Inside, AllocatorAssumption
<1>3. Booked(Books)
  BY DEF CoreInit, Booked, Books, Nothing, AllocatorAssumption
<1> QED BY <1>1, <1>2, <1>3 DEF CoreInv

(* Every step keeps the types. *)
LEMMA CoreTypesKept ==
  ASSUME AllocatorAssumption, CoreTypeOK, CoreNext
  PROVE  CoreTypeOK'
<1> USE DEF CoreTypeOK
<1>0. Nothing \in [Pid -> SUBSET Core] /\ Reaped(held) \in [Pid -> SUBSET Core]
  BY DEF Nothing, Reaped
<1>p. PICK p \in Pid :
        \/ Ask(p) \/ Enter(p) \/ WriteReaped(p) \/ Find(p) \/ WriteGranted(p)
        \/ Backoff(p) \/ Timeout(p) \/ Release(p) \/ WriteReleased(p)
        \/ Die(p) \/ Start(p)
  BY Zenon DEF CoreNext
<1>1. CASE Ask(p) \/ Timeout(p)
  BY <1>1 DEF Ask, Timeout, Goto
<1>2. CASE Enter(p)
  BY <1>0, <1>2 DEF Enter, Goto, Truncate
<1>3. CASE WriteReaped(p) \/ WriteGranted(p) \/ Backoff(p) \/ WriteReleased(p)
  BY <1>0, <1>3 DEF WriteReaped, WriteGranted, Backoff, WriteReleased, Goto, Write, Unlock
<1>4. CASE Find(p)
  <2> DEFINE B == Block(Min(FreeStarts(snap, Wanted[p])), Wanted[p])
  <2>1. B \subseteq Core
    BY <1>4, FreeBlock DEF Find, AllocatorAssumption
  <2>2. /\ pc' = [pc EXCEPT ![p] = "granting"] /\ held' = Nothing
        /\ snap' = [snap EXCEPT ![p] = snap[p] \cup B] /\ mine' = [mine EXCEPT ![p] = B]
        /\ UNCHANGED <<lock, starts, tornOnce, reused>>
    BY <1>4 DEF Find, Goto, Truncate
  <2> HIDE DEF B
  <2> QED BY <1>0, <2>1, <2>2
<1>5. CASE Release(p)
  BY <1>0, <1>5 DEF Release, Goto, Truncate, EntryAfterRelease
<1>6. CASE Die(p)
  BY <1>0, <1>6 DEF Die, Unlock
<1>7. CASE Start(p)
  <2>1. PICK as \in {"idle", "foreign"} : pc' = [pc EXCEPT ![p] = as]
    BY <1>7 DEF Start
  <2>2. starts' \in 0 .. MaxStarts
    BY <1>7 DEF Start, AllocatorAssumption
  <2>3. reused' \subseteq Pid /\ UNCHANGED <<held, lock, snap, mine, tornOnce>>
    BY <1>7 DEF Start
  <2> QED BY <2>1, <2>2, <2>3
<1> QED BY <1>p, <1>1, <1>2, <1>3, <1>4, <1>5, <1>6, <1>7

(* Every step keeps the lock's discipline: one process inside, that reads   *)
(* what the file says, and only the living use cores.                       *)
LEMMA DisciplineKept ==
  ASSUME AllocatorAssumption, CoreInv, CoreNext
  PROVE  LockHolder' /\ ReadTrue' /\ UsersAlive'
<1> USE DEF CoreInv, CoreTypeOK
<1>p. PICK p \in Pid :
        \/ Ask(p) \/ Enter(p) \/ WriteReaped(p) \/ Find(p) \/ WriteGranted(p)
        \/ Backoff(p) \/ Timeout(p) \/ Release(p) \/ WriteReleased(p)
        \/ Die(p) \/ Start(p)
  BY Zenon DEF CoreNext
<1>0. Free \notin Pid
  BY DEF AllocatorAssumption
<1>1. LockHolder'
  <2>1. CASE Ask(p) \/ Timeout(p)
    BY <2>1 DEF LockHolder, Inside, Ask, Timeout, Goto
  <2>2. CASE Enter(p) \/ Release(p)
    BY <1>0, <2>2 DEF LockHolder, Inside, Enter, Release, Goto
  <2>3. CASE WriteReaped(p) \/ Find(p)
    BY <2>3 DEF LockHolder, Inside, WriteReaped, Find, Goto
  <2>4. CASE WriteGranted(p) \/ Backoff(p) \/ WriteReleased(p)
    BY <1>0, <2>4 DEF LockHolder, Inside, WriteGranted, Backoff, WriteReleased, Goto, Unlock
  <2>5. CASE Die(p)
    BY <1>0, <2>5 DEF LockHolder, Inside, Die, Unlock
  <2>6. CASE Start(p)
    BY <2>6 DEF LockHolder, Inside, Start, Alive
  <2> QED BY <1>p, <2>1, <2>2, <2>3, <2>4, <2>5, <2>6
<1>2. ReadTrue'
  <2>1. CASE Ask(p) \/ Timeout(p)
    BY <2>1 DEF ReadTrue, Ask, Timeout, Goto
  <2>2. CASE Enter(p) \/ Release(p)
    BY <1>0, <2>2 DEF ReadTrue, LockHolder, Inside, Enter, Release, Goto
  <2>3. CASE WriteReaped(p) \/ Find(p)
    BY <2>3 DEF ReadTrue, LockHolder, Inside, WriteReaped, Find, Goto, Write
  <2>4. CASE WriteGranted(p) \/ Backoff(p) \/ WriteReleased(p)
    BY <2>4 DEF ReadTrue, LockHolder, Inside, WriteGranted, Backoff, WriteReleased, Goto
  <2>5. CASE Die(p)
    BY <2>5 DEF ReadTrue, LockHolder, Inside, Die
  <2>6. CASE Start(p)
    BY <2>6 DEF ReadTrue, Start
  <2> QED BY <1>p, <2>1, <2>2, <2>3, <2>4, <2>5, <2>6
<1>3. UsersAlive'
  <2>1. CASE Ask(p) \/ Timeout(p) \/ Enter(p) \/ WriteReaped(p) \/ WriteGranted(p)
             \/ Backoff(p) \/ WriteReleased(p)
    BY <2>1 DEF UsersAlive, Ask, Timeout, Enter, WriteReaped, WriteGranted, Backoff,
                WriteReleased, Goto
  <2>2. CASE Find(p)
    BY <2>2 DEF UsersAlive, Find, Goto
  <2>3. CASE Release(p) \/ Die(p)
    BY <2>3 DEF UsersAlive, Release, Die, Goto
  <2>4. CASE Start(p)
    BY <2>4 DEF UsersAlive, Start, Alive
  <2> QED BY <1>p, <2>1, <2>2, <2>3, <2>4
<1> QED BY <1>1, <1>2, <1>3

(* The books stay right as long as nobody dies while it writes the file. *)
LEMMA BooksKept ==
  ASSUME AllocatorAssumption, CoreInv, CoreNext, ~tornOnce'
  PROVE  Booked(Books)'
<1> USE DEF CoreInv, CoreTypeOK
<1>p. PICK p \in Pid :
        \/ Ask(p) \/ Enter(p) \/ WriteReaped(p) \/ Find(p) \/ WriteGranted(p)
        \/ Backoff(p) \/ Timeout(p) \/ Release(p) \/ WriteReleased(p)
        \/ Die(p) \/ Start(p)
  BY Zenon DEF CoreNext
<1>0. Free \notin Pid
  BY DEF AllocatorAssumption
<1>1. Booked(Books)
  <2>1. ~tornOnce
    BY <1>p DEF Ask, Enter, WriteReaped, Find, WriteGranted, Backoff, Timeout, Release,
                WriteReleased, Die, Start
  <2> QED BY <2>1
<1>2. ASSUME Books' = Books, mine' = mine PROVE Booked(Books)'
  BY <1>1, <1>2 DEF Booked
<1>3. CASE Ask(p) \/ Timeout(p)
  BY <1>2, <1>3 DEF Ask, Timeout, Goto, Books, Writing
<1>4. CASE Enter(p)
  <2>1. /\ lock = Free /\ lock' = p /\ mine' = mine /\ snap' = Reaped(held)
        /\ \/ pc' = [pc EXCEPT ![p] = "reaping"]
           \/ pc' = [pc EXCEPT ![p] = "finding"] /\ held' = held
    BY <1>4 DEF Enter, Goto
  <2>2. Books = held /\ Books' \in {Reaped(held), held}
    BY <1>0, <2>1 DEF Books, Writing
  <2>3. Booked(Reaped(held))
    <3>1. \A q \in Pid : mine[q] # {} => Alive(q)
      BY DEF UsersAlive, Alive
    <3>2. \A q \in Pid : Reaped(held)[q] = IF Alive(q) THEN held[q] ELSE {}
      BY DEF Reaped
    <3> HIDE DEF CoreInv, CoreTypeOK
    <3> QED BY <1>1, <2>2, <3>1, <3>2 DEF Booked
  <2>4. Booked(Books')
    BY <1>1, <2>2, <2>3
  <2> QED BY <2>1, <2>4 DEF Booked
<1>5. CASE WriteReaped(p)
  <2>1. lock = p /\ pc[p] = "reaping"
    BY <1>5 DEF WriteReaped, Goto, LockHolder, Inside
  <2>2. Books = snap /\ Books' = snap
    BY <1>5, <2>1 DEF WriteReaped, Goto, Write, Books, Writing
  <2> QED BY <1>2, <1>5, <2>2 DEF WriteReaped
<1>6. CASE Find(p)
  <2> DEFINE B == Block(Min(FreeStarts(snap, Wanted[p])), Wanted[p])
  <2>1. \A q \in Pid : B \cap snap[q] = {}
    BY <1>6, FreeBlock DEF Find, AllocatorAssumption
  <2>2. /\ pc[p] = "finding" /\ pc' = [pc EXCEPT ![p] = "granting"] /\ lock' = lock
        /\ snap' = [snap EXCEPT ![p] = snap[p] \cup B] /\ mine' = [mine EXCEPT ![p] = B]
    BY <1>6 DEF Find, Goto
  <2>3. lock = p /\ snap = held
    BY <2>2 DEF LockHolder, ReadTrue, Inside
  <2>4. Books = snap /\ Books' = snap'
    BY <2>2, <2>3 DEF Books, Writing
  <2>5. /\ \A q \in Pid : snap'[q] = IF q = p THEN snap[q] \cup B ELSE snap[q]
        /\ \A q \in Pid : mine'[q] = IF q = p THEN B ELSE mine[q]
    BY <2>2
  <2> HIDE DEF B, CoreInv, CoreTypeOK
  <2>6. \A q, r \in Pid : q # r => snap'[q] \cap snap'[r] = {}
    <3>1. \A q, r \in Pid : q # r => snap[q] \cap snap[r] = {}
      BY <1>1, <2>4 DEF Booked
    <3> SUFFICES ASSUME NEW q \in Pid, NEW r \in Pid, q # r
                 PROVE  snap'[q] \cap snap'[r] = {}
      OBVIOUS
    <3>2. CASE q = p
      BY <2>1, <2>5, <3>1, <3>2
    <3>3. CASE r = p
      BY <2>1, <2>5, <3>1, <3>3
    <3>4. CASE q # p /\ r # p
      BY <2>5, <3>1, <3>4
    <3> QED BY <3>2, <3>3, <3>4
  <2>7. \A q \in Pid : mine'[q] \subseteq snap'[q]
    <3>1. \A q \in Pid : mine[q] \subseteq snap[q]
      BY <1>1, <2>4 DEF Booked
    <3> QED BY <2>5, <3>1
  <2> QED BY <2>4, <2>6, <2>7 DEF Booked
<1>7. CASE WriteGranted(p) \/ WriteReleased(p)
  <2>1. lock = p /\ pc[p] \in Writing
    BY <1>7 DEF WriteGranted, WriteReleased, Goto, LockHolder, Inside, Writing
  <2>2. Books = snap /\ Books' = snap
    BY <1>0, <1>7, <2>1 DEF WriteGranted, WriteReleased, Goto, Write, Unlock, Books
  <2> QED BY <1>2, <1>7, <2>2 DEF WriteGranted, WriteReleased
<1>8. CASE Backoff(p)
  <2>1. lock = p /\ pc[p] = "finding"
    BY <1>8 DEF Backoff, Goto, LockHolder, Inside
  <2>2. Books = held /\ Books' = held
    BY <1>0, <1>8, <2>1 DEF Backoff, Unlock, Books, Writing
  <2> QED BY <1>2, <1>8, <2>2 DEF Backoff
<1>9. CASE Release(p)
  <2>1. /\ lock = Free /\ lock' = p /\ pc' = [pc EXCEPT ![p] = "releasing"]
        /\ snap' = [held EXCEPT ![p] = held[p] \ mine[p]]
        /\ mine' = [mine EXCEPT ![p] = {}]
    BY <1>9 DEF Release, Goto, EntryAfterRelease
  <2>2. Books = held /\ Books' = snap'
    BY <1>0, <2>1 DEF Books, Writing
  <2>3. \A q \in Pid : /\ snap'[q] = IF q = p THEN held[p] \ mine[p] ELSE held[q]
                       /\ mine'[q] = IF q = p THEN {} ELSE mine[q]
    BY <2>1
  <2> HIDE DEF CoreInv, CoreTypeOK
  <2> QED BY <1>1, <2>2, <2>3 DEF Booked
<1>10. CASE Die(p)
  <2>1. /\ pc[p] \notin Writing /\ held' = held /\ mine' = [mine EXCEPT ![p] = {}]
        /\ pc' = [pc EXCEPT ![p] = "dead"]
        /\ \/ lock = p /\ lock' = Free
           \/ lock # p /\ lock' = lock /\ snap' = snap
    BY <1>10 DEF Die, Unlock
  <2>2. Books' = Books
    BY <1>0, <2>1 DEF Books
  <2>3. \A q \in Pid : mine'[q] \subseteq mine[q]
    BY <2>1
  <2> HIDE DEF CoreInv, CoreTypeOK
  <2> QED BY <1>1, <2>2, <2>3 DEF Booked
<1>11. CASE Start(p)
  <2>1. /\ pc[p] = "dead" /\ UNCHANGED <<held, lock, snap, mine>>
        /\ \E as \in {"idle", "foreign"} : pc' = [pc EXCEPT ![p] = as]
    BY <1>11 DEF Start, Alive
  <2>2. lock # p
    BY <2>1 DEF LockHolder, Inside
  <2>3. Books' = Books
    BY <2>1, <2>2 DEF Books
  <2> QED BY <1>2, <2>1, <2>3
<1> QED BY <1>p, <1>3, <1>4, <1>5, <1>6, <1>7, <1>8, <1>9, <1>10, <1>11

(* Every step keeps the invariant. *)
LEMMA CoreStepKeeps == AllocatorAssumption /\ CoreInv /\ [CoreNext]_coreVars => CoreInv'
<1> SUFFICES ASSUME AllocatorAssumption, CoreInv, [CoreNext]_coreVars PROVE CoreInv'
  OBVIOUS
<1>1. CASE CoreNext
  <2>1. CoreTypeOK'
    BY <1>1, CoreTypesKept DEF CoreInv
  <2>2. LockHolder' /\ ReadTrue' /\ UsersAlive'
    BY <1>1, DisciplineKept
  <2>3. ~tornOnce' => Booked(Books)'
    BY <1>1, BooksKept
  <2> QED BY <2>1, <2>2, <2>3 DEF CoreInv
<1>2. CASE UNCHANGED coreVars
  BY <1>2 DEF coreVars, CoreInv, CoreTypeOK, LockHolder, ReadTrue, UsersAlive, Booked,
              Books, Inside, Writing
<1> QED BY <1>1, <1>2

(* No core is given to two processes, for any host: the lock, the reaping of *)
(* dead holders and the search for a free block keep allocations disjoint   *)
(* until a process dies while it rewrites the file (core_allocator:         *)
(* acquire, release, _reap_stale, _find_contiguous).                        *)
THEOREM CoresAreExclusive == CoreSpec => []CoresExclusive
<1>1. CoreInit => CoreInv
  BY CoreInitially, AllocatorAssumption
<1>2. CoreInv /\ [CoreNext]_coreVars => CoreInv'
  BY CoreStepKeeps, AllocatorAssumption
<1>3. CoreInv => CoresExclusive
  BY DEF CoreInv, Booked, CoresExclusive
<1> QED BY <1>1, <1>2, <1>3, PTL DEF CoreSpec

(* Type correctness, for any host. *)
THEOREM CoreTypesCorrect == CoreSpec => []CoreTypeOK
<1>1. CoreInit => CoreInv
  BY CoreInitially, AllocatorAssumption
<1>2. CoreInv /\ [CoreNext]_coreVars => CoreInv'
  BY CoreStepKeeps, AllocatorAssumption
<1>3. CoreInv => CoreTypeOK
  BY DEF CoreInv
<1> QED BY <1>1, <1>2, <1>3, PTL DEF CoreSpec
------------------------------------------------------------------------------
(* The port rendezvous (PortRendezvous).                                    *)

Listening == {"listening", "published", "ready"}

(* Two servers that live at a time are in different process groups. *)
GroupsApart == \A s, t \in Server : Up(s) /\ Up(t) /\ s # t => Group[s] # Group[t]

(* Rank 0 has a port from its bind until the server ends. *)
PortWhileUp == \A s \in Server : bound[s] # NoPort <=> rank0[s] \in Listening

(* A file that never outlived a server says what its living rank 0 listens on. *)
FileOfTheLiving ==
  \A s \in Server :
    file[Path(s)] # NoPort /\ Path(s) \notin leftover =>
      \E t \in Server : /\ Path(t) = Path(s) /\ rank0[t] = "published"
                        /\ file[Path(s)] = bound[t]

(* A rank of a living server dials its own rank 0, unless a file was left to *)
(* mislead it; those of a server that is not up dial nobody.                *)
DialsOwn ==
  \A s \in Server, r \in Rank :
    /\ dialing[s][r] # NoPort => Up(s)
    /\ dialing[s][r] # NoPort /\ Path(s) \notin leftover => dialing[s][r] = bound[s]

(* The inductive invariant.  That a rank joins its own store (OwnStoreOnly)  *)
(* is only kept because what it dials is its own rank 0's port, which it is *)
(* because the file says so, which no other server can have written while   *)
(* this one lives.                                                          *)
PortInv ==
  /\ PortTypeOK /\ GroupsApart /\ PortWhileUp /\ FileOfTheLiving /\ DialsOwn
  /\ OwnStoreOnly

(* No server is up and no port is bound at first. *)
LEMMA PortInitially == RendezvousAssumption /\ PortInit => PortInv
<1> SUFFICES ASSUME RendezvousAssumption, PortInit PROVE PortInv
  OBVIOUS
<1>1. PortTypeOK
  BY DEF PortInit, PortTypeOK
<1>2. GroupsApart /\ PortWhileUp /\ FileOfTheLiving /\ DialsOwn /\ OwnStoreOnly
  BY DEF PortInit, GroupsApart, Up, PortWhileUp, Listening, FileOfTheLiving, DialsOwn,
         OwnStoreOnly
<1> QED BY <1>1, <1>2 DEF PortInv

(* The parts of the invariant, for a step of one server that leaves the     *)
(* dialled ports and the joined stores alone.                               *)
LEMMA Rank0Keeps ==
  ASSUME RendezvousAssumption, PortInv, NEW s \in Server,
         Launch(s) \/ Unlink(s) \/ Bind(s) \/ Publish(s) \/ Barrier(s)
  PROVE  PortInv'
<1> USE DEF PortInv
<1>1. CASE Launch(s)
  <2>1. PortTypeOK'
    BY <1>1 DEF Launch, Advance, PortTypeOK
  <2>2. GroupsApart'
    BY <1>1 DEF Launch, Advance, PortTypeOK, GroupsApart, Up
  <2>3. PortWhileUp' /\ DialsOwn' /\ OwnStoreOnly'
    BY <1>1 DEF Launch, Advance, PortTypeOK, Up, PortWhileUp, Listening, DialsOwn,
                OwnStoreOnly, Path
  <2>4. FileOfTheLiving'
    BY <1>1 DEF Launch, Advance, PortTypeOK, FileOfTheLiving
  <2> QED BY <2>1, <2>2, <2>3, <2>4
<1>2. CASE Unlink(s)
  <2>1. PortTypeOK'
    BY <1>2 DEF Unlink, Advance, PortTypeOK, Path
  <2>2. GroupsApart'
    BY <1>2 DEF Unlink, Advance, PortTypeOK, GroupsApart, Up
  <2>3. PortWhileUp' /\ DialsOwn' /\ OwnStoreOnly'
    BY <1>2 DEF Unlink, Advance, PortTypeOK, Up, PortWhileUp, Listening, DialsOwn,
                OwnStoreOnly, Path
  <2>4. FileOfTheLiving'
    <3>1. /\ rank0[s] = "launched" /\ rank0' = [rank0 EXCEPT ![s] = "binding"]
          /\ \A t \in Server : file'[Path(t)] = NoPort \/ file'[Path(t)] = file[Path(t)]
          /\ bound' = bound /\ leftover' = leftover
      BY <1>2 DEF Unlink, Advance, PortTypeOK
    <3> QED BY <3>1 DEF PortTypeOK, FileOfTheLiving
  <2> QED BY <2>1, <2>2, <2>3, <2>4
<1>3. CASE Bind(s)
  <2>1. PICK p \in Port \ Occupied : bound' = [bound EXCEPT ![s] = p]
    BY <1>3 DEF Bind
  <2>2. /\ rank0[s] = "binding" /\ rank0' = [rank0 EXCEPT ![s] = "listening"]
        /\ UNCHANGED <<file, dialing, joined, stolen, leftover>>
    BY <1>3 DEF Bind, Advance
  <2>3. p # NoPort /\ bound[s] = NoPort
    BY <2>2 DEF RendezvousAssumption, PortWhileUp, Listening
  <2>4. PortTypeOK'
    BY <2>1, <2>2 DEF PortTypeOK, Path, Occupied
  <2>5. GroupsApart'
    BY <2>2 DEF PortTypeOK, GroupsApart, Up
  <2>6. PortWhileUp' /\ OwnStoreOnly'
    BY <2>1, <2>2, <2>3 DEF PortTypeOK, PortWhileUp, Listening, OwnStoreOnly, Path
  <2>7. DialsOwn'
    BY <2>1, <2>2, <2>3 DEF PortTypeOK, DialsOwn, Up, Path
  <2>8. FileOfTheLiving'
    BY <2>1, <2>2 DEF PortTypeOK, FileOfTheLiving, Path
  <2> QED BY <2>4, <2>5, <2>6, <2>7, <2>8
<1>4. CASE Publish(s)
  <2>1. PortTypeOK'
    BY <1>4 DEF Publish, Advance, PortTypeOK, Path
  <2>2. GroupsApart'
    BY <1>4 DEF Publish, Advance, PortTypeOK, GroupsApart, Up
  <2>3. PortWhileUp' /\ DialsOwn' /\ OwnStoreOnly'
    BY <1>4 DEF Publish, Advance, PortTypeOK, Up, PortWhileUp, Listening, DialsOwn,
                OwnStoreOnly, Path
  <2>4. FileOfTheLiving'
    BY <1>4 DEF Publish, Advance, PortTypeOK, FileOfTheLiving, Path
  <2> QED BY <2>1, <2>2, <2>3, <2>4
<1>5. CASE Barrier(s)
  <2>1. PortTypeOK'
    BY <1>5 DEF Barrier, Advance, PortTypeOK, Path
  <2>2. GroupsApart'
    BY <1>5 DEF Barrier, Advance, PortTypeOK, GroupsApart, Up
  <2>3. PortWhileUp' /\ DialsOwn' /\ OwnStoreOnly'
    BY <1>5 DEF Barrier, Advance, PortTypeOK, Up, PortWhileUp, Listening, DialsOwn,
                OwnStoreOnly, Path
  <2>4. FileOfTheLiving'
    <3> SUFFICES ASSUME NEW t \in Server, file'[Path(t)] # NoPort, Path(t) \notin leftover
                 PROVE  \E u \in Server : /\ Path(u) = Path(t) /\ rank0'[u] = "published"
                                          /\ file'[Path(t)] = bound[u]
      BY <1>5 DEF Barrier, FileOfTheLiving, Path
    <3>1. Path(t) # Path(s) /\ file'[Path(t)] = file[Path(t)]
      BY <1>5 DEF Barrier, PortTypeOK
    <3> QED BY <1>5, <3>1 DEF Barrier, Advance, PortTypeOK, FileOfTheLiving
  <2> QED BY <2>1, <2>2, <2>3, <2>4
<1> QED BY <1>1, <1>2, <1>3, <1>4, <1>5

(* A rank reads in the file nothing but its own rank 0's port. *)
LEMMA PollKeeps ==
  ASSUME RendezvousAssumption, PortInv, NEW s \in Server, NEW r \in Rank, Poll(s, r)
  PROVE  PortInv'
<1> USE DEF PortInv
<1>1. /\ Up(s) /\ file[Path(s)] # NoPort
      /\ dialing' = [dialing EXCEPT ![s][r] = file[Path(s)]]
      /\ UNCHANGED <<rank0, bound, file, joined, stolen, leftover>>
  BY DEF Poll, Rendezvous
<1>2. PortTypeOK'
  BY <1>1 DEF PortTypeOK, Path
<1>3. GroupsApart' /\ PortWhileUp' /\ FileOfTheLiving' /\ OwnStoreOnly'
  BY <1>1 DEF GroupsApart, Up, PortWhileUp, FileOfTheLiving, OwnStoreOnly, Path
<1>4. Path(s) \notin leftover => file[Path(s)] = bound[s]
  <2> SUFFICES ASSUME Path(s) \notin leftover PROVE file[Path(s)] = bound[s]
    OBVIOUS
  <2>1. PICK t \in Server : /\ Path(t) = Path(s) /\ rank0[t] = "published"
                            /\ file[Path(s)] = bound[t]
    BY <1>1 DEF FileOfTheLiving
  <2>2. Group[t] = Group[s] /\ Up(t)
    BY <2>1 DEF Path, Up
  <2> QED BY <1>1, <2>1, <2>2 DEF GroupsApart
<1>5. DialsOwn'
  <2> SUFFICES ASSUME NEW t \in Server, NEW q \in Rank, dialing'[t][q] # NoPort
               PROVE  Up(t)' /\ (Path(t) \notin leftover => dialing'[t][q] = bound[t])
    BY <1>1 DEF DialsOwn, Path
  <2>1. Up(t)' <=> Up(t)
    BY <1>1 DEF Up
  <2>2. CASE t = s /\ q = r
    <3>1. dialing'[t][q] = file[Path(s)]
      BY <1>1, <2>2 DEF PortTypeOK
    <3> QED BY <1>1, <1>4, <2>1, <2>2, <3>1
  <2>3. CASE ~(t = s /\ q = r)
    <3>1. dialing'[t][q] = dialing[t][q]
      BY <1>1, <2>3 DEF PortTypeOK
    <3> QED BY <2>1, <3>1 DEF DialsOwn
  <2> QED BY <2>2, <2>3
<1> QED BY <1>2, <1>3, <1>5

(* The store that answers at its own rank 0's port is its own rank 0's. *)
LEMMA DialKeeps ==
  ASSUME RendezvousAssumption, PortInv, NEW s \in Server, NEW r \in Rank, Dial(s, r)
  PROVE  PortInv'
<1> USE DEF PortInv
<1> DEFINE store == IF \E t \in Server : bound[t] = dialing[s][r]
                    THEN CHOOSE t \in Server : bound[t] = dialing[s][r] ELSE NoServer
<1>1. /\ Up(s) /\ dialing[s][r] # NoPort
      /\ dialing' = [dialing EXCEPT ![s][r] = NoPort]
      /\ joined' = [joined EXCEPT ![s][r] = store]
      /\ UNCHANGED <<rank0, bound, file, stolen, leftover>>
  BY DEF Dial
<1>2. store \in Server \cup {NoServer}
  OBVIOUS
<1>3. Path(s) \notin leftover => store \in {s, NoServer}
  BY <1>1 DEF DialsOwn, PortTypeOK
<1> HIDE DEF store
<1>4. PortTypeOK'
  BY <1>1, <1>2 DEF PortTypeOK, Path
<1>5. GroupsApart' /\ PortWhileUp' /\ FileOfTheLiving'
  BY <1>1 DEF GroupsApart, Up, PortWhileUp, FileOfTheLiving, Path
<1>6. DialsOwn'
  <2> SUFFICES ASSUME NEW t \in Server, NEW q \in Rank, dialing'[t][q] # NoPort
               PROVE  Up(t)' /\ (Path(t) \notin leftover => dialing'[t][q] = bound[t])
    BY <1>1 DEF DialsOwn, Path
  <2>1. Up(t)' <=> Up(t)
    BY <1>1 DEF Up
  <2>2. dialing'[t][q] = dialing[t][q]
    BY <1>1 DEF PortTypeOK
  <2> QED BY <2>1, <2>2 DEF DialsOwn
<1>7. OwnStoreOnly'
  <2> SUFFICES ASSUME NEW t \in Server, NEW q \in Rank
               PROVE  joined'[t][q] \in {t, NoServer} \/ Path(t) \in leftover
    BY <1>1 DEF OwnStoreOnly, Path
  <2>1. CASE t = s /\ q = r
    BY <1>1, <1>3, <2>1 DEF PortTypeOK
  <2>2. CASE ~(t = s /\ q = r)
    <3>1. joined'[t][q] = joined[t][q]
      BY <1>1, <2>2 DEF PortTypeOK
    <3> QED BY <3>1 DEF OwnStoreOnly
  <2> QED BY <2>1, <2>2
<1> QED BY <1>4, <1>5, <1>6, <1>7

(* A server that ends takes its port with it and may leave its file. *)
LEMMA ShutdownKeeps ==
  ASSUME RendezvousAssumption, PortInv, NEW s \in Server, Shutdown(s)
  PROVE  PortInv'
<1> USE DEF PortInv
<1>1. PortTypeOK'
  BY DEF Shutdown, PortTypeOK, Path
<1>2. GroupsApart' /\ PortWhileUp'
  BY DEF Shutdown, PortTypeOK, GroupsApart, Up, PortWhileUp, Listening
<1>3. FileOfTheLiving'
  <2> SUFFICES ASSUME NEW t \in Server, file[Path(t)] # NoPort, Path(t) \notin leftover'
               PROVE  \E u \in Server : /\ Path(u) = Path(t) /\ rank0'[u] = "published"
                                        /\ file[Path(t)] = bound'[u]
    BY DEF Shutdown, FileOfTheLiving
  <2>1. Path(t) \notin leftover /\ Path(t) # Path(s)
    BY DEF Shutdown
  <2> QED BY <2>1 DEF Shutdown, PortTypeOK, FileOfTheLiving
<1>4. DialsOwn' /\ OwnStoreOnly'
  <2>1. \A t \in Server : /\ t # s => bound'[t] = bound[t] /\ rank0'[t] = rank0[t]
                                      /\ dialing'[t] = dialing[t] /\ joined'[t] = joined[t]
                          /\ Path(t) \in leftover => Path(t) \in leftover'
    BY DEF Shutdown, PortTypeOK
  <2>2. \A r \in Rank : dialing'[s][r] = NoPort /\ joined'[s][r] = NoServer
    BY DEF Shutdown, PortTypeOK
  <2>3. DialsOwn'
    BY <2>1, <2>2 DEF DialsOwn, Up, Path
  <2>4. OwnStoreOnly'
    BY <2>1, <2>2 DEF OwnStoreOnly, Path
  <2> QED BY <2>3, <2>4
<1> QED BY <1>1, <1>2, <1>3, <1>4

(* The Neuron runtime takes free ports only. *)
LEMMA RuntimeKeeps ==
  ASSUME PortInv, NEW p \in Port, Steal(p) \/ Return(p)
  PROVE  PortInv'
<1> USE DEF PortInv
<1>1. /\ UNCHANGED <<rank0, bound, file, dialing, joined, leftover>>
      /\ stolen' \subseteq stolen \/ (stolen' = stolen \cup {p} /\ p \in Stealable \ Occupied)
  BY DEF Steal, Return
<1>2. PortTypeOK'
  BY <1>1 DEF PortTypeOK, Path, Occupied
<1>3. GroupsApart' /\ PortWhileUp' /\ FileOfTheLiving' /\ DialsOwn' /\ OwnStoreOnly'
  BY <1>1 DEF GroupsApart, Up, PortWhileUp, FileOfTheLiving, DialsOwn, OwnStoreOnly, Path
<1> QED BY <1>2, <1>3

(* Every step keeps the invariant. *)
LEMMA PortStep == RendezvousAssumption /\ PortInv /\ [PortNext]_portVars => PortInv'
<1> SUFFICES ASSUME RendezvousAssumption, PortInv, [PortNext]_portVars PROVE PortInv'
  OBVIOUS
<1>1. CASE UNCHANGED portVars
  BY <1>1 DEF portVars, PortInv, PortTypeOK, GroupsApart, Up, PortWhileUp, Listening,
              FileOfTheLiving, DialsOwn, OwnStoreOnly, Path
<1>2. CASE \E s \in Server :
             \/ Launch(s) \/ Unlink(s) \/ Bind(s) \/ Publish(s) \/ Barrier(s) \/ Shutdown(s)
             \/ \E r \in Rank : Poll(s, r) \/ Dial(s, r)
  BY <1>2, Rank0Keeps, ShutdownKeeps, PollKeeps, DialKeeps
<1>3. CASE \E p \in Port : Steal(p) \/ Return(p)
  BY <1>3, RuntimeKeeps
<1> QED BY <1>1, <1>2, <1>3 DEF PortNext

(* A rank only ever joins its own rank 0, for any number of servers, ranks   *)
(* and ports, unless a file outlived a killed server (port_hold_patch:      *)
(* _rank0_create_store, _rankN_connect_store).                              *)
THEOREM RanksJoinTheirOwn == PortSpec => []OwnStoreOnly
<1>1. PortInit => PortInv
  BY PortInitially, RendezvousAssumption
<1>2. PortInv /\ [PortNext]_portVars => PortInv'
  BY PortStep, RendezvousAssumption
<1>3. PortInv => OwnStoreOnly
  BY DEF PortInv
<1> QED BY <1>1, <1>2, <1>3, PTL DEF PortSpec
==============================================================================
