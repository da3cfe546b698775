------------------------------ MODULE ShmStaging ------------------------------
(***************************************************************************)
(* The shared-memory transport of encoder disaggregation                   *)
(* (disaggregated_encoder/shm_transport.py, patches/epd_shm_patch.py): each *)
(* worker of the preprocessing pool writes preprocessed media into a ring   *)
(* of its own, and hands out descriptors that a vision encoder reads once. *)
(*                                                                         *)
(* The store itself (SingleWriterShmObjectStorage of vLLM) is external and *)
(* modelled by its contract: slots are allocated and freed in ring order;  *)
(* one is free when it was read as often as it was handed out.             *)
(***************************************************************************)
EXTENDS Integers, Sequences, FiniteSets, FiniteSetsExt

CONSTANTS
  Worker,      (* processes of the preprocessing pool                      *)
  Encoder,     (* vision encoders                                          *)
  Hash,        (* mm_hash of a media item                                  *)
  Oversized,   (* items above max_object_size                              *)
  Slots,       (* items a segment holds                                    *)
  MaxDeaths,   (* times a worker dies and is replaced                      *)
  Inline       (* the item as base64, in place of a descriptor             *)

ASSUME StagingAssumption ==
  /\ Oversized \subseteq Hash
  /\ Slots \in Nat \ {0} /\ MaxDeaths \in Nat

WarmUp == "warm-up"     (* the synthetic image of _warmup *)

VARIABLES
  ring,      (* by segment: the store of the worker that made it           *)
  deaths,    (* by worker: how often it was replaced                       *)
  readers    (* by encoder: the segments it has attached (_reader_stores)  *)

stagingVars == <<ring, deaths, readers>>

(* A segment is made by one process: a worker after some number of deaths. *)
Segment == Worker \X (0 .. MaxDeaths)
Current(w) == <<w, deaths[w]>>

(* Mutant: the segment is named after the worker's place in the pool.      *)
NameByWorker(s) == s[1]

(* f"epd_preproc_{os.getpid()}" *)
Name(s) == s

Address == 0 .. Slots - 1
NoCell == [id |-> -1, hash |-> WarmUp, writes |-> 0, reads |-> 0]
EmptyRing == [first |-> 0, next |-> 0, end |-> 0, cell |-> [a \in Address |-> NoCell]]

(* The worker's store after n warm-up renders: they stage their image too. *)
WarmRing(n) ==
  IF n = 0 THEN EmptyRing
  ELSE [EmptyRing EXCEPT !.next = 1, !.end = 1 % Slots,
          !.cell[0] = [id |-> 0, hash |-> WarmUp, writes |-> n, reads |-> 0]]

(* _warmup is queued once per worker: a worker may take several, or fail one. *)
StagingInit ==
  /\ \E runs \in [Worker -> 0 .. Cardinality(Worker)] :
       /\ MapThenSumSet(LAMBDA w : runs[w], Worker) <= Cardinality(Worker)
       /\ ring = [s \in Segment |-> IF s[2] = 0 THEN WarmRing(runs[s[1]]) ELSE EmptyRing]
  /\ deaths = [w \in Worker |-> 0]
  /\ readers = [e \in Encoder |-> {}]
------------------------------------------------------------------------------
(* The store, as its writer uses it. *)
Live(r) == {a \in Address : r.cell[a].id >= r.first}

(* Mutant: the store waits for every one of two encoders. *)
UnreadByTwo(c) == c.reads < c.writes * 2

(* n_readers = 1 *)
Unread(c) == c.reads < c.writes

(* free_unused: from the oldest slot on, up to one that is still to be read; *)
(* an emptied ring starts again at address 0.                              *)
Freed(r) ==
  LET first == Min({r.next} \cup {r.cell[a].id : a \in {b \in Live(r) : Unread(r.cell[b])}})
  IN [r EXCEPT !.first = first, !.end = IF first = r.next THEN 0 ELSE @]

(* Mutant: one item too many. *)
FullLate(r) == r.next - r.first > Slots

Full(r) == r.next - r.first = Slots
Room(r) == IF Full(r) THEN Freed(r) ELSE r

Written(r, h) ==
  [r EXCEPT !.next = @ + 1, !.end = (@ + 1) % Slots,
            !.cell[r.end] = [id |-> r.next, hash |-> h, writes |-> 1, reads |-> 0]]

Handle(s, a, id) == [name |-> Name(s), address |-> a, id |-> id]

(* Mutant: a cached item is handed out again without being counted. *)
HandOutUncounted(r, a) == r

(* get_cached counts one more reader to come. *)
HandOut(r, a) == [r EXCEPT !.cell[a].writes = @ + 1]

(* put_item: the ring afterwards and what goes on the wire. *)
PutItem(s, h) ==
  LET r == ring[s]
      cached == {a \in Live(r) : r.cell[a].hash = h}
      room == Room(r)
  IN IF cached # {}
     THEN LET oldest == Min(cached)
          IN [ring |-> HandOut(r, oldest),
             wire |-> Handle(s, oldest, r.cell[oldest].id)]
     ELSE IF h \in Oversized THEN [ring |-> r, wire |-> Inline]
     ELSE IF Full(room) THEN [ring |-> room, wire |-> Inline]
     ELSE [ring |-> Written(room, h), wire |-> Handle(s, room.end, room.next)]

(* The pool replaces a worker that died; its segment stays as it was.      *)
Replace(w) ==
  /\ deaths[w] < MaxDeaths
  /\ deaths' = [deaths EXCEPT ![w] = @ + 1]
  /\ UNCHANGED <<ring, readers>>

(* _get_reader_store: the store attached under that name, or the segment   *)
(* that carries the name now.                                              *)
Store(e, name) ==
  LET attached == {s \in readers[e] : Name(s) = name}
  IN IF attached # {} THEN CHOOSE s \in attached : TRUE
     ELSE CHOOSE s \in Segment :
            /\ Name(s) = name
            /\ s[2] = Max({t[2] : t \in {u \in Segment : Name(u) = name /\ u[2] <= deaths[u[1]]}})

(* SingleWriterShmObjectStorage.get: the slot must still carry that id.    *)
Readable(e, handle) ==
  ring[Store(e, handle.name)].cell[handle.address].id = handle.id

PixelsAt(e, handle) == ring[Store(e, handle.name)].cell[handle.address].hash

(* An encoder reads a descriptor: the segment is attached once, and the    *)
(* read is counted.                                                        *)
Read(e, handle) ==
  LET s == Store(e, handle.name) IN
  /\ readers' = [readers EXCEPT ![e] = @ \cup {s}]
  /\ ring' = [ring EXCEPT ![s].cell[handle.address].reads =
                @ + IF Readable(e, handle) THEN 1 ELSE 0]
  /\ UNCHANGED deaths
==============================================================================
