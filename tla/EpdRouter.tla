------------------------------ MODULE EpdRouter ------------------------------
(***************************************************************************)
(* The router of encoder disaggregation (disaggregated_encoder/router.py)   *)
(* with its preprocessing pool (preproc_pool.py): a request is rendered by *)
(* a pool worker, which stages its media; the distinct items go to the     *)
(* vision encoders that rendezvous hashing picks, one call per encoder;    *)
(* and the prefill/decode server is driven with the locators they return.  *)
(***************************************************************************)
EXTENDS ShmStaging, SequencesExt, Functions

CONSTANTS
  Request,     (* requests of clients                                      *)
  Messages,    (* by request: the sequences of hashes it may come with     *)
  VeOf         (* hrw_pick over the static registry                        *)

Wire == [name : {Name(s) : s \in Segment}, address : Address, id : Nat]

ASSUME RouterAssumption ==
  /\ \A r \in Request : Messages[r] \subseteq Seq(Hash)
  /\ VeOf \in [Hash -> Encoder]
  /\ Inline \notin Wire

VARIABLES
  st,        (* how far a request is                                       *)
  media,     (* pre.items, by hash                                         *)
  tasks,     (* requests waiting for a pool worker                         *)
  work,      (* by worker: the request it renders and what it has staged   *)
  post,      (* by request and encoder: the call in flight                 *)
  ready,     (* by request: hashes acknowledged with a locator             *)
  waste,     (* descriptors handed out that nobody will read               *)
  encoded    (* by request: pairs of a hash and the pixels encoded for it  *)

routerVars == <<st, media, tasks, work, post, ready, waste, encoded>>
epdVars == <<stagingVars, routerVars>>

NoWork == [req |-> {}, staged |-> <<>>]
NoPost == [st |-> "none", todo |-> <<>>]
Ended == {"answered", "failed"}

EpdInit ==
  /\ StagingInit
  /\ st = [r \in Request |-> "new"]
  /\ media = [r \in Request |-> <<>>]
  /\ tasks = <<>>
  /\ work = [w \in Worker |-> NoWork]
  /\ post = [r \in Request |-> [e \in Encoder |-> NoPost]]
  /\ ready = [r \in Request |-> {}]
  /\ waste = {Handle(s, 0, 0) : s \in {t \in Segment : ring[t].next = 1}}
  /\ encoded = [r \in Request |-> {}]
------------------------------------------------------------------------------
(* The pool. *)

(* encode_request awaits render, which queues a task (apply_async). *)
Submit(r) ==
  /\ st[r] = "new"
  /\ \E m \in Messages[r] : media' = [media EXCEPT ![r] = m]
  /\ st' = [st EXCEPT ![r] = "rendering"]
  /\ tasks' = Append(tasks, r)
  /\ UNCHANGED <<stagingVars, work, post, ready, waste, encoded>>

TakeTask(w) ==
  /\ work[w] = NoWork /\ tasks # <<>>
  /\ work' = [work EXCEPT ![w].req = {Head(tasks)}]
  /\ tasks' = Tail(tasks)
  /\ UNCHANGED <<stagingVars, st, media, post, ready, waste, encoded>>

Rendering(w, r) == work[w].req = {r}
StagedAll(w, r) == Len(work[w].staged) = Len(media[r])

(* _render_and_stage, an item at a time. *)
StageItem(w, r) ==
  /\ Rendering(w, r) /\ ~StagedAll(w, r)
  /\ LET h == media[r][Len(work[w].staged) + 1]
         put == PutItem(Current(w), h)
     IN /\ ring' = [ring EXCEPT ![Current(w)] = put.ring]
        /\ work' = [work EXCEPT ![w].staged = Append(@, [hash |-> h, wire |-> put.wire])]
  /\ UNCHANGED <<deaths, readers, st, media, tasks, post, ready, waste, encoded>>

Wires(staged) == {staged[i].wire : i \in DOMAIN staged} \ {Inline}

(* unique: where an mm_hash comes first. *)
Unique(staged) ==
  {i \in DOMAIN staged : \A j \in 1 .. i - 1 : staged[j].hash # staged[i].hash}

(* The entries of a list at some of its places, in order. *)
Picked(list, places) ==
  [k \in 1 .. Cardinality(places) |->
     list[CHOOSE i \in places : Cardinality({j \in places : j <= i}) = k]]

(* by_ve, and one POST for each encoder with items. *)
Batch(staged, e) == Picked(staged, {i \in Unique(staged) : VeOf[staged[i].hash] = e})
Calls(staged) ==
  [e \in Encoder |->
     IF Batch(staged, e) = <<>> THEN NoPost
     ELSE [st |-> "sent", todo |-> Batch(staged, e)]]

(* The wires of a request that has not been sent: repeats of a hash. *)
Repeats(staged) ==
  {staged[i].wire : i \in DOMAIN staged \ Unique(staged)} \ {Inline}

(* Mutant: a result that comes late is taken up. *)
WaitedForLate(r) == TRUE

(* The future is still waited for; setting the result of a cancelled one   *)
(* raises in the event loop, which logs it.                                *)
WaitedFor(r) == st[r] = "rendering"

(* The worker is done: the request goes on to the encoders, or straight to *)
(* the prefill/decode server when it has no media.                         *)
Rendered(w, r) ==
  /\ Rendering(w, r) /\ StagedAll(w, r)
  /\ LET staged == work[w].staged IN
     IF WaitedFor(r)
     THEN /\ st' = [st EXCEPT ![r] = IF staged = <<>> THEN "driving" ELSE "gathering"]
          /\ post' = [post EXCEPT ![r] = Calls(staged)]
          /\ waste' = waste \cup Repeats(staged)
     ELSE /\ waste' = waste \cup Wires(staged)
          /\ UNCHANGED <<st, post>>
  /\ work' = [work EXCEPT ![w] = NoWork]
  /\ UNCHANGED <<stagingVars, media, tasks, ready, encoded>>

(* The render raises: error_callback fails the future. *)
RenderFails(w, r) ==
  /\ Rendering(w, r) /\ work[w].staged = <<>>
  /\ st' = [st EXCEPT ![r] = IF WaitedFor(r) THEN "failed" ELSE @]
  /\ work' = [work EXCEPT ![w] = NoWork]
  /\ UNCHANGED <<stagingVars, media, tasks, post, ready, waste, encoded>>

(* A worker dies: the pool starts another, and its task is never answered. *)
WorkerDies(w) ==
  /\ work[w] # NoWork
  /\ Replace(w)
  /\ waste' = waste \cup Wires(work[w].staged)
  /\ work' = [work EXCEPT ![w] = NoWork]
  /\ UNCHANGED <<st, media, tasks, post, ready, encoded>>

(* Mutant: the future is awaited without a timeout. *)
NoTimeout(r) == FALSE

(* wait_for(fut, _RENDER_TIMEOUT_S) *)
MayTimeOut(r) == WaitedFor(r)

RenderTimeout(r) ==
  /\ MayTimeOut(r)
  /\ st' = [st EXCEPT ![r] = "failed"]
  /\ UNCHANGED <<stagingVars, media, tasks, work, post, ready, waste, encoded>>
------------------------------------------------------------------------------
(* The calls to the encoders. *)
WiresLeft(r, e) == Wires(post[r][e].todo)

Lose(r, e) ==
  /\ post' = [post EXCEPT ![r][e] = [st |-> "lost", todo |-> <<>>]]
  /\ waste' = waste \cup WiresLeft(r, e)

(* The encoder decodes the items of a call one after the other; one whose  *)
(* slot carries another id fails the call.                                 *)
EncoderReads(r, e) ==
  /\ post[r][e].todo # <<>>
  /\ LET it == Head(post[r][e].todo)
         Next1 == /\ post' = [post EXCEPT ![r][e].todo = Tail(@)]
                  /\ UNCHANGED waste
         Got(pixels) == encoded' = [encoded EXCEPT ![r] = @ \cup {<<it.hash, pixels>>}]
     IN IF it.wire = Inline
        THEN Next1 /\ Got(it.hash) /\ UNCHANGED stagingVars
        ELSE /\ Read(e, it.wire)
             /\ IF Readable(e, it.wire) THEN Next1 /\ Got(PixelsAt(e, it.wire))
                ELSE Lose(r, e) /\ UNCHANGED encoded
  /\ UNCHANGED <<st, media, tasks, work, ready>>

Asked(r, e) == {h \in Range(media[r]) : VeOf[h] = e}

(* Mutant: an answer is taken without looking for every locator. *)
AnyLocators(asked, located) == TRUE

(* "if not locator: raise httpx.HTTPError" *)
Complete(asked, located) == asked \subseteq located

(* The encoder answers, perhaps without the locator of some item. *)
EncoderReplies(r, e) ==
  /\ post[r][e].st = "sent" /\ post[r][e].todo = <<>>
  /\ \E missing \in {{}} \cup {{h} : h \in Asked(r, e)} :
       LET located == Asked(r, e) \ missing IN
       IF Complete(Asked(r, e), located)
       THEN /\ post' = [post EXCEPT ![r][e].st = "done"]
            /\ ready' = [ready EXCEPT ![r] = @ \cup located]
            /\ UNCHANGED waste
       ELSE Lose(r, e) /\ UNCHANGED ready
  /\ UNCHANGED <<stagingVars, st, media, tasks, work, encoded>>

(* The call fails or times out: an HTTP error, before or after some reads. *)
CallFails(r, e) ==
  /\ post[r][e].st = "sent"
  /\ Lose(r, e)
  /\ UNCHANGED <<stagingVars, st, media, tasks, work, ready, encoded>>

CallsIn(r, state) == {e \in Encoder : post[r][e].st = state}

(* asyncio.gather raises the first failure and leaves the other calls be.  *)
GatherFails(r) ==
  /\ st[r] = "gathering" /\ CallsIn(r, "lost") # {}
  /\ st' = [st EXCEPT ![r] = "failed"]
  /\ UNCHANGED <<stagingVars, media, tasks, work, post, ready, waste, encoded>>

Gathered(r) ==
  /\ st[r] = "gathering" /\ CallsIn(r, "lost") \cup CallsIn(r, "sent") = {}
  /\ st' = [st EXCEPT ![r] = "driving"]
  /\ UNCHANGED <<stagingVars, media, tasks, work, post, ready, waste, encoded>>

(* The prefill/decode server answers, or the call to it fails. *)
Answer(r) ==
  /\ st[r] = "driving"
  /\ \E end \in Ended : st' = [st EXCEPT ![r] = end]
  /\ UNCHANGED <<stagingVars, media, tasks, work, post, ready, waste, encoded>>

(* The client goes away: what the request awaits is cancelled.  Calls that *)
(* were sent may still be served.                                          *)
ClientLeaves(r) ==
  /\ st[r] \in {"rendering", "gathering", "driving"}
  /\ st' = [st EXCEPT ![r] = "failed"]
  /\ UNCHANGED <<stagingVars, media, tasks, work, post, ready, waste, encoded>>
------------------------------------------------------------------------------
PoolStep(w) ==
  \/ TakeTask(w)
  \/ \E r \in Request : StageItem(w, r) \/ Rendered(w, r)

RouterStep(r) ==
  \/ RenderTimeout(r) \/ GatherFails(r) \/ Gathered(r) \/ Answer(r)
  \/ \E e \in Encoder : EncoderReads(r, e) \/ EncoderReplies(r, e)

Fault ==
  \/ \E w \in Worker : WorkerDies(w) \/ \E r \in Request : RenderFails(w, r)
  \/ \E r \in Request : ClientLeaves(r) \/ \E e \in Encoder : CallFails(r, e)

EpdNext ==
  \/ \E r \in Request : Submit(r) \/ RouterStep(r)
  \/ \E w \in Worker : PoolStep(w)
  \/ Fault

(* Encoders and the router go on, and a render is waited for up to a timeout. *)
EpdFairness == WF_epdVars(\E r \in Request : RouterStep(r))

EpdSpec == EpdInit /\ [][EpdNext]_epdVars /\ EpdFairness
------------------------------------------------------------------------------
Staged == [hash : Hash, wire : Wire \cup {Inline}]

(* Types: a segment never holds more than its slots, a worker stages no    *)
(* more than the request it renders, and calls carry staged items.         *)
StagingTypeOK ==
  /\ \A s \in Segment :
       /\ ring[s].first \in 0 .. ring[s].next
       /\ Cardinality(Live(ring[s])) = ring[s].next - ring[s].first
       /\ ring[s].end \in Address
       /\ \A a \in Address : ring[s].cell[a].hash \in Hash \cup {WarmUp}
  /\ \A e \in Encoder : readers[e] \subseteq Segment
  /\ st \in [Request -> {"new", "rendering", "gathering", "driving"} \cup Ended]
  /\ \A w \in Worker : \A i \in DOMAIN work[w].staged : work[w].staged[i] \in Staged
  /\ \A r \in Request, e \in Encoder : Range(post[r][e].todo) \subseteq Staged
  /\ \A r \in Request : ready[r] \subseteq Range(media[r])

(* Descriptors that are still on their way to a reader. *)
Awaited ==
  UNION ({Wires(work[w].staged) : w \in Worker}
           \cup {WiresLeft(r, e) : r \in Request, e \in Encoder})

(* A slot is not given to another item while a descriptor of it is on its  *)
(* way to an encoder, however often the item was handed out and read.      *)
AwaitedStaysReadable ==
  \A d \in Awaited : \A s \in Segment :
    Name(s) = d.name => ring[s].cell[d.address].id = d.id /\ d.id >= ring[s].first

(* Slots are held only for descriptors that will be read, or that were     *)
(* given up: by the warm-up, a repeated item, a render nobody waits for or *)
(* a call that failed.                                                     *)
HeldForAReason ==
  \A s \in Segment : \A a \in Live(ring[s]) :
    Unread(ring[s].cell[a]) => Handle(s, a, ring[s].cell[a].id) \in Awaited \cup waste

(* What an encoder encodes under a hash are the pixels that were staged    *)
(* under it, also when the worker died and its successor's ring gives out  *)
(* the same ids; and the prefill/decode server is driven with a locator for *)
(* each item of the request, made from pixels that the encoder read.        *)
DrivenWithEncoded ==
  \A r \in Request :
    /\ \A pair \in encoded[r] : pair[1] = pair[2]
    /\ st[r] \in {"driving", "answered"} =>
         /\ ready[r] = Range(media[r])
         /\ \A h \in ready[r] : <<h, h>> \in encoded[r]

(* A request that ended starts nothing: a render that ends after its       *)
(* timeout makes no calls, and no request is answered twice.               *)
NoWorkForEnded ==
  [][\A r \in Request : st[r] \in Ended =>
       /\ st'[r] = st[r]
       /\ \A e \in Encoder : post[r][e].st = "none" => post'[r][e].st = "none"]_epdVars

(* Every request is answered or fails, although the task of a worker that  *)
(* died is never answered, and no call outlives it for ever.               *)
EveryRequestAnswered ==
  <>[](\A r \in Request : /\ st[r] \in {"new"} \cup Ended
                          /\ CallsIn(r, "sent") = {})

(* "buffer_bytes must hold the worker's max in-flight pixel payload"       *)
(* (shm_transport.py:58): a segment that does is enough.  So, as long as no *)
(* request failed, an item of ordinary size does not travel inline when    *)
(* nothing is in flight.  The slot of the warm-up refutes it.              *)
FallbackOnlyWhenInFlight ==
  [][\A w \in Worker :
       LET it == Last(work'[w].staged) IN
       /\ work'[w] # work[w] /\ work'[w].staged # <<>>
       /\ it.wire = Inline /\ it.hash \notin Oversized
       => Awaited # {} \/ \E r \in Request : st[r] = "failed"]_epdVars
==============================================================================
