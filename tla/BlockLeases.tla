------------------------------ MODULE BlockLeases ------------------------------
(***************************************************************************)
(* What the encoder cache promises to those who read it, without its       *)
(* queues, its waiting and its tags: every block is nobody's or an item's; *)
(* an item that is cached keeps its blocks, and one that was evicted does  *)
(* until its hold time is over, unless the item itself is asked for again   *)
(* or the whole cache is reset.                                            *)
(***************************************************************************)
EXTENDS Integers, FiniteSets

CONSTANTS Item, Block, Need, HoldTime, NoItem

VARIABLES
  owner,    (* the item whose embedding a block carries, or NoItem *)
  cached,   (* the items the cache answers for                     *)
  age,      (* how long ago a block was written, up to HoldTime    *)
  asking    (* the item that is to be given blocks, or NoItem      *)

leaseVars == <<owner, cached, age, asking>>

OwnedBy(h) == {b \in Block : owner[b] = h}
Unowned == OwnedBy(NoItem)

(* No reader of an evicted item is left. *)
Over(h) == \A b \in OwnedBy(h) : age[b] = HoldTime

(* The items of X lose their blocks. *)
Vacate(X) == owner' = [b \in Block |-> IF owner[b] \in X THEN NoItem ELSE owner[b]]

LeaseInit ==
  /\ owner = [b \in Block |-> NoItem]
  /\ cached = {}
  /\ age = [b \in Block |-> HoldTime]
  /\ asking = NoItem

Lapsed == {h \in Item \ cached : Over(h)}

(* An item is asked for: what it left behind is given up, and any leases    *)
(* that are over may end.                                                   *)
Ask(h) ==
  /\ asking = NoItem /\ h \notin cached
  /\ asking' = h
  /\ \E X \in SUBSET Lapsed : Vacate(X \cup {h})
  /\ UNCHANGED <<cached, age>>

(* Leases that are over end. *)
Lapse ==
  /\ \E X \in SUBSET Lapsed : Vacate(X)
  /\ UNCHANGED <<cached, age, asking>>

(* The item gets as many blocks as it needs, all of them nobody's, *)
Grant ==
  /\ asking # NoItem /\ asking \notin cached
  /\ \E S \in SUBSET Unowned :
       /\ Cardinality(S) = Need[asking]
       /\ owner' = [b \in Block |-> IF b \in S THEN asking ELSE owner[b]]
       /\ age' = [b \in Block |-> IF b \in S THEN HoldTime ELSE age[b]]
  /\ cached' = cached \cup {asking}
  /\ asking' = NoItem

(* and is refused only when there are too few. *)
Refuse ==
  /\ asking # NoItem
  /\ Cardinality(Unowned) < Need[asking]
  /\ asking' = NoItem
  /\ UNCHANGED <<owner, cached, age>>

Write(h) ==
  /\ h \in cached
  /\ age' = [b \in Block |-> IF owner[b] = h THEN 0 ELSE age[b]]
  /\ UNCHANGED <<owner, cached, asking>>

(* An eviction ends the lease of an item nobody can be reading any more. *)
Evict(h) ==
  /\ h \in cached
  /\ cached' = cached \ {h}
  /\ IF Over(h) THEN Vacate({h}) ELSE UNCHANGED owner
  /\ UNCHANGED <<age, asking>>

Reset ==
  /\ asking = NoItem
  /\ owner' = [b \in Block |-> NoItem]
  /\ cached' = {}
  /\ age' = [b \in Block |-> HoldTime]
  /\ UNCHANGED asking

TimePasses ==
  /\ age' = [b \in Block |-> IF age[b] < HoldTime THEN age[b] + 1 ELSE age[b]]
  /\ UNCHANGED <<owner, cached, asking>>

LeaseNext ==
  \/ \E h \in Item : Ask(h) \/ Write(h) \/ Evict(h)
  \/ Lapse \/ Grant \/ Refuse \/ Reset \/ TimePasses

LeaseSpec == LeaseInit /\ [][LeaseNext]_leaseVars
==============================================================================
