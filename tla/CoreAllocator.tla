----------------------------- MODULE CoreAllocator -----------------------------
(***************************************************************************)
(* The NeuronCore allocator of a host (vllm_neuron/utils/core_allocator.py): *)
(* processes take aligned blocks of cores under a file lock, and the       *)
(* allocations are kept by process id in one JSON file, where every caller *)
(* first drops the entries of dead processes.                              *)
(*                                                                         *)
(* A process may be killed between any two steps: the kernel then drops    *)
(* its lock, and a file it had truncated and not yet written stays torn.   *)
(* Its id may be given to another process, an allocator's or not.          *)
(***************************************************************************)
EXTENDS Integers, FiniteSets, FiniteSetsExt

CONSTANTS
  Pid,         (* process ids                                              *)
  NumCores,    (* num_cores                                                *)
  Wanted,      (* [Pid -> cores asked for, a power of two]                 *)
  MaxStarts    (* processes started again with the id of a dead one        *)

Core == 0 .. NumCores - 1
Free == "free"

ASSUME AllocatorAssumption ==
  /\ IsFiniteSet(Pid) /\ Free \notin Pid
  /\ NumCores \in Nat \ {0}
  /\ Wanted \in [Pid -> 1 .. NumCores]
  /\ MaxStarts \in Nat

VARIABLES
  pc,       (* what a process is doing; "foreign" is no user of the allocator *)
  held,     (* state["held"] as the file reads; a torn file reads as empty *)
  lock,     (* who has the flock, or Free                                  *)
  snap,     (* the state read and edited by the holder of the lock         *)
  mine,     (* the block a process was given, until it releases it         *)
  starts,   (* processes started so far with an id used before             *)
  tornOnce, (* some process died while it wrote the file                   *)
  reused    (* ids started again while an entry may remain in the file     *)

coreVars == <<pc, held, lock, snap, mine, starts, tornOnce, reused>>

Nothing == [p \in Pid |-> {}]

CoreInit ==
  /\ pc = [p \in Pid |-> "idle"]
  /\ held = Nothing
  /\ lock = Free
  /\ snap = Nothing
  /\ mine = [p \in Pid |-> {}]
  /\ starts = 0
  /\ tornOnce = FALSE /\ reused = {}
------------------------------------------------------------------------------
(* Steps of a process inside the lock. *)
Goto(p, from, to) == pc[p] = from /\ pc' = [pc EXCEPT ![p] = to]

(* The file is rewritten in place: opened, which truncates it, and written. *)
(* What is no JSON is read as no allocations.                               *)
Truncate == held' = Nothing
Write == held' = snap

(* What the holder of the lock had read ends with its call.                *)
Unlock == lock' = Free /\ snap' = Nothing

Alive(p) == pc[p] # "dead"

(* Mutant: no entry is ever dropped. *)
NotReaped(state) == state

(* _reap_stale drops the entries of dead processes. *)
Reaped(state) == [p \in Pid |-> IF Alive(p) THEN state[p] ELSE {}]

Block(start, n) == start .. start + n - 1
Taken(state) == UNION {state[p] : p \in Pid}

(* Mutants: a block is free when its first core is; blocks run past the end. *)
FreeFirstCore(state, n) ==
  {s \in Core : s % n = 0 /\ s + n <= NumCores /\ s \notin Taken(state)}
FreePastEnd(state, n) == {s \in Core : s % n = 0 /\ Block(s, n) \cap Taken(state) = {}}

(* The starts range(0, num_cores - n + 1, n) whose blocks are free. *)
FreeStarts(state, n) ==
  {s \in Core : /\ s % n = 0 /\ s + n <= NumCores
                /\ Block(s, n) \cap Taken(state) = {}}

(* acquire() *)
Ask(p) ==
  /\ Goto(p, "idle", "asking")
  /\ UNCHANGED <<held, lock, snap, mine, starts, tornOnce, reused>>

(* _read and, when some holder is dead, the first write of _reap_stale.     *)
Enter(p) ==
  /\ lock = Free /\ lock' = p
  /\ snap' = Reaped(held)
  /\ IF Reaped(held) # held
     THEN Goto(p, "asking", "reaping") /\ Truncate
     ELSE Goto(p, "asking", "finding") /\ UNCHANGED held
  /\ UNCHANGED <<mine, starts, tornOnce, reused>>

WriteReaped(p) ==
  /\ Goto(p, "reaping", "finding")
  /\ Write
  /\ UNCHANGED <<lock, snap, mine, starts, tornOnce, reused>>

(* _find_contiguous: the first free block, merged into the process's entry. *)
Find(p) ==
  LET starting == FreeStarts(snap, Wanted[p]) IN
  /\ starting # {}
  /\ Goto(p, "finding", "granting")
  /\ snap' = [snap EXCEPT ![p] = @ \cup Block(Min(starting), Wanted[p])]
  /\ mine' = [mine EXCEPT ![p] = Block(Min(starting), Wanted[p])]
  /\ Truncate
  /\ UNCHANGED <<lock, starts, tornOnce, reused>>

WriteGranted(p) ==
  /\ Goto(p, "granting", "using")
  /\ Write
  /\ Unlock
  /\ UNCHANGED <<mine, starts, tornOnce, reused>>

(* No block is free: the process lets the lock go and polls.                *)
Backoff(p) ==
  /\ FreeStarts(snap, Wanted[p]) = {}
  /\ Goto(p, "finding", "asking")
  /\ Unlock
  /\ UNCHANGED <<held, mine, starts, tornOnce, reused>>

(* acquire() with a timeout raises TimeoutError. *)
Timeout(p) ==
  /\ Goto(p, "asking", "idle")
  /\ UNCHANGED <<held, lock, snap, mine, starts, tornOnce, reused>>

EntryAfterRelease(p) == held[p] \ mine[p]

(* release(): the work is over; the entry is read, reduced, and written.    *)
Release(p) ==
  /\ lock = Free /\ lock' = p
  /\ Goto(p, "using", "releasing")
  /\ snap' = [held EXCEPT ![p] = EntryAfterRelease(p)]
  /\ mine' = [mine EXCEPT ![p] = {}]
  /\ Truncate
  /\ UNCHANGED <<starts, tornOnce, reused>>

WriteReleased(p) ==
  /\ Goto(p, "releasing", "idle")
  /\ Write
  /\ Unlock
  /\ UNCHANGED <<mine, starts, tornOnce, reused>>
------------------------------------------------------------------------------
(* The host. *)

Writing == {"reaping", "granting", "releasing"}

(* The process ends or is killed. *)
Die(p) ==
  /\ Alive(p)
  /\ pc' = [pc EXCEPT ![p] = "dead"]
  /\ IF lock = p THEN Unlock ELSE UNCHANGED <<lock, snap>>
  /\ mine' = [mine EXCEPT ![p] = {}]
  /\ tornOnce' = (tornOnce \/ pc[p] \in Writing)
  /\ UNCHANGED <<held, starts, reused>>

(* The id of a dead process is given out again. *)
Start(p) ==
  /\ ~Alive(p)
  /\ starts < MaxStarts
  /\ starts' = starts + 1
  /\ \E as \in {"idle", "foreign"} : pc' = [pc EXCEPT ![p] = as]
  /\ reused' = IF pc'[p] = "idle" THEN reused \cup {p} ELSE reused
  /\ UNCHANGED <<held, lock, snap, mine, tornOnce>>

CoreNext ==
  \E p \in Pid :
    \/ Ask(p) \/ Enter(p) \/ WriteReaped(p) \/ Find(p) \/ WriteGranted(p)
    \/ Backoff(p) \/ Timeout(p) \/ Release(p) \/ WriteReleased(p)
    \/ Die(p) \/ Start(p)

CoreSpec == CoreInit /\ [][CoreNext]_coreVars

(* A process that is scheduled runs on, and gets the flock when it is free. *)
CoreStep(p) ==
  \/ Enter(p) \/ WriteReaped(p) \/ Find(p) \/ WriteGranted(p)
  \/ Backoff(p) \/ Release(p) \/ WriteReleased(p)
CoreFairness == \A p \in Pid : WF_coreVars(CoreStep(p))

CoreFairSpec == CoreSpec /\ CoreFairness
------------------------------------------------------------------------------
(* Types. *)
CoreTypeOK ==
  /\ pc \in [Pid -> {"idle", "asking", "reaping", "finding", "granting", "using",
                     "releasing", "dead", "foreign"}]
  /\ held \in [Pid -> SUBSET Core]
  /\ lock \in Pid \cup {Free}
  /\ snap \in [Pid -> SUBSET Core]
  /\ mine \in [Pid -> SUBSET Core]
  /\ starts \in 0 .. MaxStarts
  /\ tornOnce \in BOOLEAN /\ reused \subseteq Pid

(* No core is given to two processes, whoever dies where and whoever gets   *)
(* its id, unless a process died while it rewrote the file: the torn file is *)
(* read as empty, and the cores of the living are given out a second time.  *)
CoresExclusive ==
  ~tornOnce => \A p, q \in Pid : p # q => mine[p] \cap mine[q] = {}

(* What the dead held, the lock and a torn file included, keeps nobody out: *)
(* a process that asks when all others are dead gets its cores.  (A process *)
(* whose own id was used before is not covered: its dead predecessor's      *)
(* entry counts as its own and is never reaped.)                            *)
Stranded(p) ==
  /\ pc[p] \in {"asking", "reaping", "finding", "granting"}
  /\ \A q \in Pid \ {p} : ~Alive(q)
  /\ p \notin reused
CrashedCoresReturn == []<>(\A p \in Pid : ~Stranded(p))
==============================================================================
