------------------------------- MODULE KvPull --------------------------------
(***************************************************************************)
(* The pull of one request's KV cache from the prefill engine to the decode *)
(* engine (vllm_neuron/vllm/kv_connector/neuron_nixl_connector.py): which   *)
(* blocks each decode rank READs from which prefill rank for a given pair   *)
(* of topologies, and when a prefill rank has heard enough readers to give  *)
(* the blocks up.                                                           *)
(*                                                                         *)
(* Lengths are counted in pages, the prefill engine's block_size tokens; a  *)
(* decode block is pageR pages.  Page g of the prompt lies on prefill DCP   *)
(* rank g % pDCP at list position g \div pDCP.  Notifications, leases and   *)
(* the transport are the base connector's (external).                       *)
(***************************************************************************)
EXTENDS Integers, FiniteSets

CONSTANTS
  Topologies,  (* [heads, pTP, pDCP, dTP, dDCP, pageR] of the engine pairs    *)
  MaxPages     (* the longest prompt, in pages                                *)

Divides(a, b) == b % a = 0
CeilDiv(a, b) == (a + b - 1) \div b
AtLeastOne(n) == IF n > 1 THEN n ELSE 1

(* The KV heads a rank stores. *)
HeadsOf(heads, tp, dcp) == AtLeastOne(heads \div (tp \div dcp))

(* The pairs the two engines accept: DCP shards whole replicas of the KV     *)
(* heads, prefill TP exceeds decode TP only with DCP, the heads in a block   *)
(* of one engine divide those in the other's, and decode blocks are larger   *)
(* only where they match the prefill engine's in total and the heads agree.  *)
ValidTopology(t) ==
  /\ \A f \in {"heads", "pTP", "pDCP", "dTP", "dDCP", "pageR"} : t[f] \in Nat \ {0}
  /\ Divides(t.pDCP, t.pTP) /\ Divides(t.dDCP, t.dTP)
  /\ t.pDCP > 1 => t.pTP >= t.pDCP * t.heads
  /\ t.dDCP > 1 => t.dTP >= t.dDCP * t.heads
  /\ t.pDCP = 1 /\ t.dDCP = 1 => t.pTP <= t.dTP
  /\ Divides(t.pDCP, t.dDCP) \/ Divides(t.dDCP, t.pDCP)
  /\ LET p == HeadsOf(t.heads, t.pTP, t.pDCP)
         d == HeadsOf(t.heads, t.dTP, t.dDCP)
     IN Divides(p, d) \/ Divides(d, p)
  /\ t.pageR > 1 => t.pDCP = t.pageR * t.dDCP /\ t.dTP >= t.dDCP * t.heads

ASSUME KvPullAssumption ==
  /\ MaxPages \in Nat \ {0}
  /\ \A t \in Topologies : ValidTopology(t)

VARIABLES
  topo,    (* the pair of engines                                            *)
  pages,   (* the prompt's length                                            *)
  cached,  (* decode blocks each decode rank has from its prefix cache       *)
  empty,   (* the pull has no local blocks: only notify                      *)
  pc,      (* [decode rank -> "idle", "reading", "done"]                     *)
  posted,  (* [decode rank -> its _recving_transfers: the READs it posted,    *)
           (* each <<decode rank, prefill rank, fragment>>]                   *)
  arrived, (* READs completed                                                *)
  broken,  (* READs that failed                                              *)
  notifs,  (* notifications on their way to the prefill ranks                *)
  count,   (* [prefill rank -> notifications counted]                        *)
  lease    (* [prefill rank -> "held", "released" by readers, "expired"]     *)

inputs == <<topo, pages, cached, empty>>
kvVars == <<topo, pages, cached, empty, pc, posted, arrived, broken, notifs, count, lease>>

DRanks == 0 .. topo.dTP - 1
PRanks == 0 .. topo.pTP - 1

KvInit ==
  /\ topo \in Topologies
  /\ pages \in 1 .. MaxPages
  /\ cached \in 0 .. (pages - 1) \div (topo.pageR * topo.dDCP)
  /\ empty \in BOOLEAN
  /\ pc = [d \in DRanks |-> "idle"]
  /\ posted = [d \in DRanks |-> {}]
  /\ arrived = {} /\ broken = {} /\ notifs = {}
  /\ count = [p \in PRanks |-> 0]
  /\ lease = [p \in PRanks |-> "held"]
------------------------------------------------------------------------------
(* Ranks.  rank = kv_head_rank * (dcp * replicas) + replica * dcp + dcp_rank *)

PReplicas == AtLeastOne((topo.pTP \div topo.pDCP) \div topo.heads)
DReplicas == AtLeastOne((topo.dTP \div topo.dDCP) \div topo.heads)
PHeads == HeadsOf(topo.heads, topo.pTP, topo.pDCP)
DHeads == HeadsOf(topo.heads, topo.dTP, topo.dDCP)

DcpRank(d) == d % topo.dDCP
HeadRank(d) == d \div (topo.dDCP * DReplicas)

(* Replica 0 of prefill head rank k at DCP rank c. *)
RankId(k, c) == k * (topo.pDCP * PReplicas) + c

(* The prefill head ranks a decode rank reads: one, of whose block it may   *)
(* take a part (split), or several whose blocks make up its own (merge).    *)
HeadRanksRead(d) ==
  IF PHeads >= DHeads THEN {HeadRank(d) \div (PHeads \div DHeads)}
  ELSE LET inv == DHeads \div PHeads
       IN {HeadRank(d) * inv + j : j \in 0 .. inv - 1}
------------------------------------------------------------------------------
(* The read map: the moves <<L, r, i>> of decode rank d from prefill DCP     *)
(* rank c: its local block L, fragment r, from list position i.              *)

NumLocal == IF empty THEN 0
            ELSE CeilDiv(pages, topo.pageR * topo.dDCP) - cached
NumRemote == CeilDiv(pages, topo.pDCP)

(* Prefill DCP larger, same block size: every SeqRatio-th local block. *)
GatherMoves(d, c) ==
  LET ratio == topo.pDCP \div topo.dDCP
      k == (c - DcpRank(d)) \div topo.dDCP
  IN {<<k + i * ratio, 0, i>> :
        i \in {i \in 0 .. NumRemote - 1 : k + i * ratio < NumLocal}}

(* len(range(first, limit, step)) *)
RangeLength(first, limit, step) ==
  IF first < limit THEN CeilDiv(limit - first, step) ELSE 0

(* Mutant: a prefix-cache hit read from the front. *)
StrideFromFront(d) ==
  LET step == topo.dDCP \div topo.pDCP
      offset == DcpRank(d) \div topo.pDCP
      strided == RangeLength(offset, NumRemote, step)
      n == IF NumLocal < strided THEN NumLocal ELSE strided
  IN {<<j, 0, offset + j * step>> : j \in 0 .. n - 1}

(* Decode DCP larger or equal: the rank's stride of the remote list, of     *)
(* which the last NumLocal are missing here.                                *)
StrideMoves(d) ==
  LET step == topo.dDCP \div topo.pDCP
      offset == DcpRank(d) \div topo.pDCP
      strided == RangeLength(offset, NumRemote, step)
      n == IF NumLocal < strided THEN NumLocal ELSE strided
  IN {<<j, 0, offset + (strided - n + j) * step>> : j \in 0 .. n - 1}

(* The page that fragment r of local block L of decode rank d stands for. *)
PageOf(d, L, r) == ((cached + L) * topo.dDCP + DcpRank(d)) * topo.pageR + r

(* Larger decode blocks, assembled from pageR fragments. *)
FragmentMoves(d, c) ==
  {<<m[1], m[2], PageOf(d, m[1], m[2]) \div topo.pDCP>> :
     m \in {m \in (0 .. NumLocal - 1) \X (0 .. topo.pageR - 1) :
       LET g == PageOf(d, m[1], m[2])
       IN g < pages /\ g % topo.pDCP = c /\ g \div topo.pDCP < NumRemote}}

(* The prefill DCP ranks a decode rank is mapped to by the whole-block map. *)
WholeBlockDcp(d) ==
  IF topo.pDCP > topo.dDCP
  THEN {DcpRank(d) + k * topo.dDCP : k \in 0 .. topo.pDCP \div topo.dDCP - 1}
  ELSE {DcpRank(d) % topo.pDCP}

Moves(d, c) ==
  IF topo.pageR > 1 THEN FragmentMoves(d, c)
  ELSE IF c \notin WholeBlockDcp(d) THEN {}
  ELSE IF topo.pDCP > topo.dDCP THEN GatherMoves(d, c) ELSE StrideMoves(d)

(* One READ per prefill rank and fragment slot that has something to move. *)
Reads(d) ==
  UNION {{<<d, RankId(k, c), m[2]>> : m \in Moves(d, c)} :
           k \in HeadRanksRead(d), c \in 0 .. topo.pDCP - 1}

(* A pull without local blocks only notifies the ranks of the whole-block   *)
(* map; the fragment reader returns before it does.                         *)
BareNotifs(d) ==
  IF empty /\ topo.pageR = 1
  THEN {<<d, RankId(k, c), 0>> : k \in HeadRanksRead(d), c \in WholeBlockDcp(d)}
  ELSE {}
------------------------------------------------------------------------------
(* The number of notifications a prefill rank is told to wait for.          *)

FaninDcp(d) ==
  IF topo.pageR > 1
  THEN {DcpRank(d) * topo.pageR + r : r \in 0 .. topo.pageR - 1}
  ELSE WholeBlockDcp(d)

FaninRanks(d) ==
  {RankId(k, c) : k \in HeadRanksRead(d), c \in FaninDcp(d)}

(* Mutant: the base connector's ratio of TP sizes. *)
FaninByTp(p) == AtLeastOne(topo.dTP \div topo.pTP)

(* _producer_fanin_map: the decode ranks whose routing names p. *)
Fanin(p) == Cardinality({d \in DRanks : p \in FaninRanks(d)})
------------------------------------------------------------------------------
(* A decode rank starts the pull: it posts its READs.  A pull without local *)
(* blocks notifies and records no transfer.                                 *)
StartPull(d) ==
  /\ pc[d] = "idle"
  /\ pc' = [pc EXCEPT ![d] = IF empty THEN "done" ELSE "reading"]
  /\ posted' = [posted EXCEPT ![d] = Reads(d)]
  /\ notifs' = notifs \cup BareNotifs(d)
  /\ UNCHANGED <<inputs, arrived, broken, count, lease>>

Pending(d) == posted[d] \ (arrived \cup broken)

(* A READ completes, and its notification leaves with it (external). *)
PullReadLands(d) ==
  \E read \in Pending(d) :
    /\ arrived' = arrived \cup {read}
    /\ notifs' = notifs \cup {read}
    /\ UNCHANGED <<inputs, pc, posted, broken, count, lease>>

(* A READ fails: the base drops the transfer and notifies nobody (external). *)
PullReadFails(d) ==
  \E read \in Pending(d) :
    /\ broken' = broken \cup {read}
    /\ UNCHANGED <<inputs, pc, posted, arrived, notifs, count, lease>>

(* Mutant: without the empty entry, a rank that posted no READ has no key   *)
(* that get_finished could report.                                          *)
ReportedIfRead(d) == posted[d] # {} /\ Pending(d) = {}

(* The rank has an entry in _recving_transfers, empty if it posted no READ, *)
(* and none of it is outstanding.                                           *)
Reported(d) == Pending(d) = {}

(* get_finished() of the base reports the request for this rank. *)
FinishPull(d) ==
  /\ pc[d] = "reading"
  /\ Reported(d)
  /\ pc' = [pc EXCEPT ![d] = "done"]
  /\ UNCHANGED <<inputs, posted, arrived, broken, notifs, count, lease>>

(* A prefill rank counts a notification against the fan-in it carries and   *)
(* gives the blocks up at the last (external).                              *)
TakeNotif(p) ==
  \E notif \in notifs :
    /\ notif[2] = p
    /\ notifs' = notifs \ {notif}
    /\ count' = [count EXCEPT ![p] = IF lease[p] = "held" THEN @ + 1 ELSE @]
    /\ lease' = [lease EXCEPT ![p] =
         IF @ = "held" /\ count[p] + 1 = Fanin(p) THEN "released" ELSE @]
    /\ UNCHANGED <<inputs, pc, posted, arrived, broken>>

(* The lease runs out once the decode engine sends no more heartbeats for   *)
(* the request and what it sent has arrived (external).                     *)
LeaseExpires(p) ==
  /\ lease[p] = "held"
  /\ notifs = {}
  /\ \A d \in DRanks : pc[d] = "done"
  /\ lease' = [lease EXCEPT ![p] = "expired"]
  /\ UNCHANGED <<inputs, pc, posted, arrived, broken, notifs, count>>

KvNext ==
  \/ \E d \in DRanks : StartPull(d) \/ PullReadLands(d) \/ PullReadFails(d) \/ FinishPull(d)
  \/ \E p \in PRanks : TakeNotif(p) \/ LeaseExpires(p)

KvSpec == KvInit /\ [][KvNext]_kvVars

(* Both engines keep polling, a READ ends one way or the other, leases end. *)
FairKvSpec == KvSpec /\ WF_kvVars(KvNext)
------------------------------------------------------------------------------
(* Types: READs and notifications name ranks of the two engines. *)
KvTypeOK ==
  /\ topo \in Topologies /\ pages \in 1 .. MaxPages /\ cached \in 0 .. MaxPages
  /\ empty \in BOOLEAN
  /\ pc \in [DRanks -> {"idle", "reading", "done"}]
  /\ posted \in [DRanks -> SUBSET (DRanks \X PRanks \X (0 .. topo.pageR - 1))]
  /\ arrived \cup broken \cup notifs \subseteq DRanks \X PRanks \X (0 .. topo.pageR - 1)
  /\ count \in [PRanks -> 0 .. topo.dTP]
  /\ lease \in [PRanks -> {"held", "released", "expired"}]

(* What the READs of decode rank d write at head slot s of fragment r of     *)
(* local block L: pairs of the page and the head the prefill rank stores.    *)
Written(d, L, r, s) ==
  LET whole == PHeads >= DHeads
      k == IF whole THEN HeadRank(d) \div (PHeads \div DHeads)
           ELSE HeadRank(d) * (DHeads \div PHeads) + s \div PHeads
      head == IF whole
              THEN k * PHeads + (HeadRank(d) % (PHeads \div DHeads)) * DHeads + s
              ELSE k * PHeads + (s % PHeads)
  IN UNION {{<<m[3] * topo.pDCP + c, head>> :
               m \in {m \in Moves(d, c) : m[1] = L /\ m[2] = r
                                          /\ <<d, RankId(k, c), r>> \in arrived}} :
              c \in 0 .. topo.pDCP - 1}

(* The prefix-cache hit that the source leaves to do (a larger prefill DCP   *)
(* with equal block sizes reads from the front).                            *)
KnownFrontAligned == topo.pDCP > topo.dDCP /\ topo.pageR = 1 /\ cached > 0

(* Decode rank d has in every local block the tokens and heads it stands for. *)
HasPrompt(d) ==
  \A L \in 0 .. NumLocal - 1, r \in 0 .. topo.pageR - 1, s \in 0 .. DHeads - 1 :
    PageOf(d, L, r) < pages =>
      Written(d, L, r, s) = {<<PageOf(d, L, r), HeadRank(d) * DHeads + s>>}
Succeeded(d) ==
  pc[d] = "done" /\ ~empty /\ posted[d] \cap broken = {} /\ ~KnownFrontAligned

(* A pull that reports success has put into every local block exactly the   *)
(* tokens and the heads it stands for, whatever the two topologies, the     *)
(* prompt's length and the prefix already cached.                           *)
PulledRight == \A d \in DRanks : Succeeded(d) => HasPrompt(d)

(* The same, but for a decode rank whose last local block lies past the     *)
(* prompt's end after a prefix-cache hit: its stride is one page short.     *)
TailShort(d) ==
  /\ topo.dDCP > topo.pDCP /\ cached > 0
  /\ PageOf(d, NumLocal - 1, 0) >= pages
PulledRightButForTail ==
  \A d \in DRanks : Succeeded(d) /\ ~TailShort(d) => HasPrompt(d)

(* A rank that cannot count on its fan-in: no decode rank is routed to it,  *)
(* or one that is had nothing to read.                                      *)
Silent(p) ==
  \/ \A d \in DRanks : p \notin FaninRanks(d)
  \/ \E d \in DRanks : /\ p \in FaninRanks(d)
                       /\ \A read \in Reads(d) \cup BareNotifs(d) : read[2] # p

(* A prefill rank gives its blocks up neither early nor late: released by    *)
(* notifications it has no reader left, every READ of every decode rank from *)
(* it has completed; and only a lost READ or a silent rank leaves it to the  *)
(* lease.                                                                   *)
GivenUpInTime ==
  \A p \in PRanks :
    /\ lease[p] = "released" =>
         \A d \in DRanks : {read \in Reads(d) : read[2] = p} \subseteq arrived
    /\ lease[p] = "expired" => broken # {} \/ Silent(p)

(* The fan-in equals the number of readers: without a failed READ no        *)
(* prefill rank has to wait for its lease.                                  *)
FaninMatchesReads ==
  \A p \in PRanks : lease[p] = "expired" => broken # {}

(* Once a decode rank has begun, every decode rank reports the pull, one    *)
(* that posted no READ included, and every prefill rank gives the blocks up. *)
Begun == \E d \in DRanks : pc[d] # "idle"
PullEnds ==
  Begun ~> /\ \A d \in DRanks : pc[d] = "done"
           /\ \A p \in PRanks : lease[p] # "held"
==============================================================================
