---------------------------- MODULE DpLoadBalancer ----------------------------
(***************************************************************************)
(* Internal data-parallel load balancing                                   *)
(* (vllm_neuron/vllm/patches/dp_load_balancer_patch.py): API workers route *)
(* requests to engines by a count of requests in flight.  With several     *)
(* workers the count is an array in shared memory, incremented under its   *)
(* lock when a request is routed and decremented when the engine reports   *)
(* the request finished, aborts included.  Engines publish their queue     *)
(* lengths before and after every step; workers see them late.             *)
(*                                                                         *)
(* The engine's scheduler, the coordinator that spreads the queue lengths  *)
(* and the message queues are vLLM's: a request is admitted while fewer    *)
(* than MaxRunning run and finishes in the step after its admission, and   *)
(* every message arrives after an arbitrary delay.                         *)
(***************************************************************************)
EXTENDS Integers, FiniteSets, FiniteSetsExt

CONSTANTS
  Worker,      (* API server processes                                     *)
  ClientCount, (* client_count: how many of them serve requests            *)
  NumEngines,  (* data_parallel_size                                       *)
  Request,     (* the requests                                             *)
  Home,        (* [Request -> Worker]: the worker a client connected to    *)
  Pinned,      (* [Request -> Engine or NoEngine]: data_parallel_rank      *)
  Impatient,   (* requests whose client may go away (bounds the instance)  *)
  MaxRunning   (* requests an engine runs at once                          *)

Engine == 0 .. NumEngines - 1
NoEngine == -1
NoRequest == "no request"

ASSUME LoadBalancerAssumption ==
  /\ IsFiniteSet(Worker)
  /\ ClientCount \in 1 .. Cardinality(Worker)
  /\ IsFiniteSet(Request) /\ NoRequest \notin Request
  /\ NumEngines \in Nat \ {0}
  /\ MaxRunning \in Nat \ {0}
  /\ Home \in [Request -> Worker]
  /\ Cardinality({Home[r] : r \in Request}) <= ClientCount
  /\ Pinned \in [Request -> Engine \cup {NoEngine}]
  /\ Impatient \subseteq Request

VARIABLES
  stage,          (* where a request is, as its client and engine see it    *)
  route,          (* the engine it was sent to                              *)
  aborts,         (* abort messages on their way to the engine              *)
  stepping,       (* engines between their input queue and their step       *)
  finished,       (* requests an engine ended and has not yet reported      *)
  notices,        (* finished_requests on their way to the worker           *)
  lastCounts,     (* _dp_lb_last_counts of each engine                      *)
  lbEngines,      (* lb_engines of each worker: queue lengths it observed   *)
  startIndex,     (* eng_start_index of each worker                         *)
  reqsInFlight,   (* reqs_in_flight of each worker                          *)
  engineInflight, (* engine_inflight of each worker                         *)
  sharedInflight, (* the array in shared memory                             *)
  popped          (* the request a worker popped, its shared count still due *)

lbVars == <<stage, route, aborts, stepping, finished, notices, lastCounts, lbEngines,
            startIndex, reqsInFlight, engineInflight, sharedInflight, popped>>

(* The shared array exists when several API servers share several engines;  *)
(* a single API server has none and counts for itself.                      *)
NoArray == <<>>
Shared == sharedInflight # NoArray

NoCounts == [waiting |-> 0, running |-> 0]

LbInit ==
  /\ stage = [r \in Request |-> "new"]
  /\ route = [r \in Request |-> NoEngine]
  /\ aborts = {} /\ stepping = {} /\ finished = {}
  /\ notices = {}
  /\ lastCounts = [e \in Engine |-> NoCounts]
  /\ lbEngines = [w \in Worker |-> [e \in Engine |-> NoCounts]]
  /\ startIndex = [w \in Worker |-> 0]
  /\ reqsInFlight = [w \in Worker |-> {}]
  /\ engineInflight = [w \in Worker |-> [e \in Engine |-> 0]]
  /\ sharedInflight = IF ClientCount > 1 /\ NumEngines > 1
                      THEN [e \in Engine |-> 0] ELSE NoArray
  /\ popped = [w \in Worker |-> NoRequest]
------------------------------------------------------------------------------
(* Routing. *)

(* The queue penalty of the pinned vLLM version. *)
ObservedLoad(c) == c.waiting * 4 + c.running

LocalInflight(w, e) == ClientCount * engineInflight[w][e]

(* Mutant: queue lengths, as the unpatched client scores engines. *)
ScoreByStats(w, e) == <<ObservedLoad(lbEngines[w][e]), 0>>

(* The score of an engine, compared lexicographically. *)
Score(w, e) ==
  LET observed == ObservedLoad(lbEngines[w][e]) IN
  IF Shared THEN <<sharedInflight[e], observed>>
  ELSE <<IF LocalInflight(w, e) > observed THEN LocalInflight(w, e) ELSE observed, 0>>

Lower(s, t) == s[1] < t[1] \/ (s[1] = t[1] /\ s[2] < t[2])

(* The first engine, from eng_start_index on, with the least score. *)
Balanced(w) ==
  LET nth(k) == (startIndex[w] + k) % NumEngines IN
  nth(CHOOSE k \in Engine :
        /\ \A j \in Engine : ~Lower(Score(w, nth(j)), Score(w, nth(k)))
        /\ \A j \in 0 .. k - 1 : Lower(Score(w, nth(k)), Score(w, nth(j))))

LoadBalanced(r) == Pinned[r] = NoEngine

(* get_core_engine_for_request, under the lock of the shared array.         *)
Route(r) ==
  LET w == Home[r]
      e == IF LoadBalanced(r) THEN Balanced(w) ELSE Pinned[r]
  IN
  /\ stage[r] = "new"
  /\ popped[w] = NoRequest
  /\ stage' = [stage EXCEPT ![r] = "sent"]
  /\ route' = [route EXCEPT ![r] = e]
  /\ lbEngines' = IF LoadBalanced(r) /\ ~Shared
                  THEN [lbEngines EXCEPT ![w][e].waiting = @ + ClientCount]
                  ELSE lbEngines
  /\ startIndex' = IF LoadBalanced(r)
                   THEN [startIndex EXCEPT ![w] = (@ + 1) % NumEngines]
                   ELSE startIndex
  /\ reqsInFlight' = [reqsInFlight EXCEPT ![w] = @ \cup {r}]
  /\ engineInflight' = [engineInflight EXCEPT ![w][e] = @ + 1]
  /\ sharedInflight' = IF Shared THEN [sharedInflight EXCEPT ![e] = @ + 1]
                       ELSE sharedInflight
  /\ UNCHANGED <<aborts, stepping, finished, notices, lastCounts, popped>>

(* The client goes away: the worker tells the engine and keeps the          *)
(* reservation (external: abort_requests of the vLLM client).               *)
AbortRequest(r) ==
  /\ stage[r] \in {"sent", "waiting", "running"}
  /\ r \in Impatient \ aborts
  /\ popped[Home[r]] = NoRequest
  /\ aborts' = aborts \cup {r}
  /\ UNCHANGED <<stage, route, stepping, finished, notices, lastCounts, lbEngines,
                 startIndex, reqsInFlight, engineInflight, sharedInflight, popped>>

(* Mutant: an abort gives the reservation back before the engine's answer.  *)
PoppableOnAbort(w) == reqsInFlight[w] \cap (notices \cup aborts)

(* Finished requests reported to the worker and known to it. *)
Poppable(w) == reqsInFlight[w] \cap notices

(* process_engine_outputs pops a finished request and decrements the local  *)
(* count; an id the worker does not know is skipped.                        *)
PopFinished(w) ==
  /\ popped[w] = NoRequest
  /\ \E r \in Poppable(w) :
       /\ notices' = notices \ {r}
       /\ reqsInFlight' = [reqsInFlight EXCEPT ![w] = @ \ {r}]
       /\ engineInflight' = [engineInflight EXCEPT ![w][route[r]] = @ - 1]
       /\ popped' = [popped EXCEPT ![w] = IF Shared THEN r ELSE NoRequest]
  /\ UNCHANGED <<stage, route, aborts, stepping, finished, lastCounts, lbEngines,
                 startIndex, sharedInflight>>

(* Mutant: the worker's rotation index is taken for the engine's. *)
SharedAtStart(w) == [sharedInflight EXCEPT ![startIndex[w]] = @ - 1]

(* The array without the reservation that is released. *)
SharedAfterRelease(w) == [sharedInflight EXCEPT ![route[popped[w]]] = @ - 1]

(* Then it takes the lock of the array: other workers may route in between. *)
ReleaseShared(w) ==
  /\ popped[w] # NoRequest
  /\ sharedInflight' = SharedAfterRelease(w)
  /\ popped' = [popped EXCEPT ![w] = NoRequest]
  /\ UNCHANGED <<stage, route, aborts, stepping, finished, notices, lastCounts,
                 lbEngines, startIndex, reqsInFlight, engineInflight>>
------------------------------------------------------------------------------
(* The engine's busy loop. *)

At(e, s) == {r \in Request : route[r] = e /\ stage[r] = s}
Unreported(e) == {r \in finished : route[r] = e}
Inbox(e) == At(e, "sent") \cup {r \in aborts : route[r] = e}

(* scheduler.get_request_counts() after the step being taken. *)
CountsNext(e) ==
  [waiting |-> Cardinality({r \in Request : route[r] = e /\ stage'[r] = "waiting"}),
   running |-> Cardinality({r \in Request : route[r] = e /\ stage'[r] = "running"})]

(* _maybe_publish_request_counts: only a change is sent, and is remembered. *)
PublishCounts(e) == lastCounts' = [lastCounts EXCEPT ![e] = CountsNext(e)]

(* _process_input_queue blocks while the engine has nothing to do; then it  *)
(* drains the queue, and the counts are published.                          *)
ProcessInput(e) ==
  /\ e \notin stepping
  /\ Inbox(e) \cup At(e, "waiting") \cup At(e, "running") \cup Unreported(e) # {}
  /\ LET gone == {r \in aborts : route[r] = e}
         ended == {r \in gone : stage[r] \in {"sent", "waiting", "running"}}
     IN
     /\ aborts' = aborts \ gone
     /\ finished' = finished \cup ended
     /\ stage' = [r \in Request |-> IF r \in ended THEN "ended"
                                    ELSE IF r \in At(e, "sent") THEN "waiting"
                                    ELSE stage[r]]
  /\ stepping' = stepping \cup {e}
  /\ PublishCounts(e)
  /\ UNCHANGED <<route, notices, lbEngines, startIndex, reqsInFlight,
                 engineInflight, sharedInflight, popped>>

(* Mutant: the counts are published only before the step. *)
NoPublish(e) == UNCHANGED lastCounts

PublishAfterStep(e) == PublishCounts(e)

(* _process_engine_step: what ran finishes, waiters are admitted while there *)
(* is room, the finished ones are reported; then the counts are published.  *)
EngineStep(e) ==
  /\ e \in stepping
  /\ \E admitted \in SUBSET At(e, "waiting") :
       /\ Cardinality(admitted) <= MaxRunning
       /\ admitted = At(e, "waiting") \/ Cardinality(admitted) = MaxRunning
       /\ stage' = [r \in Request |-> IF r \in At(e, "running") THEN "ended"
                                      ELSE IF r \in admitted THEN "running"
                                      ELSE stage[r]]
  /\ notices' = notices \cup Unreported(e) \cup At(e, "running")
  /\ finished' = finished \ Unreported(e)
  /\ stepping' = stepping \ {e}
  /\ PublishAfterStep(e)
  /\ UNCHANGED <<route, aborts, lbEngines, startIndex, reqsInFlight, engineInflight,
                 sharedInflight, popped>>

(* The coordinator's next message reaches a worker (external).              *)
ObserveStats(w) ==
  /\ lbEngines[w] # lastCounts
  /\ lbEngines' = [lbEngines EXCEPT ![w] = lastCounts]
  /\ UNCHANGED <<stage, route, aborts, stepping, finished, notices, lastCounts,
                 startIndex, reqsInFlight, engineInflight, sharedInflight, popped>>

LbNext ==
  \/ \E r \in Request : Route(r) \/ AbortRequest(r)
  \/ \E w \in Worker : PopFinished(w) \/ ReleaseShared(w) \/ ObserveStats(w)
  \/ \E e \in Engine : ProcessInput(e) \/ EngineStep(e)

LbSpec == LbInit /\ [][LbNext]_lbVars

(* Every worker's event loop and every engine's busy loop keep running, and *)
(* the coordinator's messages arrive.                                       *)
LbRelease(w) == PopFinished(w) \/ ReleaseShared(w)
BusyLoop(e) == ProcessInput(e) \/ EngineStep(e)
LbFairness ==
  /\ \A w \in Worker : WF_lbVars(LbRelease(w)) /\ WF_lbVars(ObserveStats(w))
  /\ \A e \in Engine : WF_lbVars(BusyLoop(e))

LbFairSpec == LbSpec /\ LbFairness
------------------------------------------------------------------------------
Reserved(w, e) == {r \in reqsInFlight[w] : route[r] = e}
OnEngine(e) == {r \in Request : route[r] = e /\ stage[r] \in {"sent", "waiting", "running"}}

(* Types. *)
LbTypeOK ==
  /\ stage \in [Request -> {"new", "sent", "waiting", "running", "ended"}]
  /\ route \in [Request -> Engine \cup {NoEngine}]
  /\ aborts \subseteq Request /\ finished \subseteq Request /\ notices \subseteq Request
  /\ stepping \subseteq Engine
  /\ lastCounts \in [Engine -> [waiting : Nat, running : Nat]]
  /\ lbEngines \in [Worker -> [Engine -> [waiting : Nat, running : Nat]]]
  /\ startIndex \in [Worker -> Engine]
  /\ reqsInFlight \in [Worker -> SUBSET Request]
  /\ engineInflight \in [Worker -> [Engine -> Nat]]
  /\ sharedInflight \in [Engine -> Nat] \cup {NoArray}
  /\ popped \in [Worker -> Request \cup {NoRequest}]

(* Routing and releasing in several processes lose no count: the array holds *)
(* for every engine the reservations of all workers, a popped request until *)
(* its worker has taken the lock.                                           *)
ReservationsExact ==
  /\ \A w \in Worker, e \in Engine : engineInflight[w][e] = Cardinality(Reserved(w, e))
  /\ Shared => \A e \in Engine :
       sharedInflight[e] =
         Cardinality(UNION {Reserved(w, e) : w \in Worker})
           + Cardinality({w \in Worker : popped[w] # NoRequest /\ route[popped[w]] = e})

(* No worker ever takes an engine for less loaded than it is: a request, also *)
(* one whose client has gone, stays reserved until the engine is done with it. *)
LoadNeverUnderstated ==
  Shared => \A e \in Engine : Cardinality(OnEngine(e)) <= sharedInflight[e]

(* A burst over all workers is spread evenly however stale the published    *)
(* queue lengths are: until a reservation is released, two engines differ   *)
(* by one request at most.                                                  *)
Routed(e) == {r \in Request : route[r] = e}
BurstSpread ==
  /\ Shared
  /\ \A r \in Request :
       route[r] # NoEngine => LoadBalanced(r) /\ r \in reqsInFlight[Home[r]]
  => \A e, f \in Engine : Cardinality(Routed(e)) <= Cardinality(Routed(f)) + 1

(* Once clients are quiet the books come to rest on the truth.  Every        *)
(* reservation is given back, whether the request ended, was aborted on its *)
(* way, in the queue, or while it ran; and the queue lengths the workers see *)
(* are those of the engines, also when the last change happened in an       *)
(* engine's last step.                                                      *)
BooksSettle ==
  <>[](/\ \A w \in Worker : reqsInFlight[w] = {}
       /\ \A e \in DOMAIN sharedInflight : sharedInflight[e] = 0
       /\ \A w \in Worker, e \in Engine :
            lbEngines[w][e] = [waiting |-> Cardinality(At(e, "waiting")),
                               running |-> Cardinality(At(e, "running"))])
==============================================================================
