--------------------------- MODULE MCHostProcesses ---------------------------
(* Small instances, for TLC, of three protocols between processes of a host: *)
(* the load balancer with two API servers and with one, the core allocator, *)
(* and the port rendezvous.  They share no state, so each behaviour         *)
(* exercises one of them and leaves the others in their initial state.      *)
EXTENDS DpLoadBalancer, CoreAllocator, PortRendezvous, TLC

CONSTANTS w1, w2, a, b, c, p1, p2, p3, s1, s2, s3, q1, q2, q3, q4, k

VARIABLE part   (* which of the four this behaviour is about *)

hostVars == <<lbVars, coreVars, portVars, part>>

(* Load balancer: one request for the first worker, two for the second; or  *)
(* one worker, and a request with a data_parallel_rank.                     *)
MCWorkers == {w1, w2}
MCRequests == {a, b, c}
MCHome == [r \in Request |-> IF r = a THEN w1 ELSE w2]
MCNoPins == [r \in Request |-> NoEngine]

Solo == INSTANCE DpLoadBalancer WITH
  ClientCount <- 1, Impatient <- {}, Home <- [r \in Request |-> w1],
  Pinned <- [r \in Request |-> IF r = c THEN 1 ELSE NoEngine]

(* Allocator: a pair of cores and two single ones out of three. *)
MCPids == {p1, p2, p3}
MCWanted == [p \in Pid |-> IF p = p1 THEN 2 ELSE 1]

(* Rendezvous: three servers on one port, the second with the process group *)
(* of the first, which must have ended.                                     *)
MCServers == {s1, s2, s3}
MCPorts == {q1, q2, q3, q4}
MCInitPort == [s \in Server |-> q1]
MCGroup == [s \in Server |-> IF s = s3 THEN "g2" ELSE "g1"]

HostInit ==
  /\ part \in {"workers", "worker", "cores", "ports"}
  /\ IF part = "worker" THEN Solo!LbInit ELSE LbInit
  /\ CoreInit
  /\ PortInit

(* b and c are interchangeable with two workers: b may come first. *)
HostNext ==
  /\ \/ /\ part = "workers" /\ LbNext /\ UNCHANGED <<coreVars, portVars>>
        /\ stage'[b] = "new" => stage'[c] = "new"
     \/ part = "worker" /\ Solo!LbNext /\ UNCHANGED <<coreVars, portVars>>
     \/ part = "cores" /\ CoreNext /\ UNCHANGED <<lbVars, portVars>>
     \/ part = "ports" /\ PortNext /\ UNCHANGED <<lbVars, coreVars>>
  /\ UNCHANGED part

(* The fairness of the part at hand, process by process.  A behaviour is    *)
(* about one part, so one condition serves a process of each.               *)
OnPart(lb, cores, ports) ==
  /\ \/ part \in {"workers", "worker"} /\ lb /\ UNCHANGED <<coreVars, portVars>>
     \/ part = "cores" /\ cores /\ UNCHANGED <<lbVars, portVars>>
     \/ part = "ports" /\ ports /\ UNCHANGED <<lbVars, coreVars>>
  /\ UNCHANGED part
RankStep(s) == Poll(s, k) \/ Dial(s, k)
HostFairness ==
  /\ WF_hostVars(OnPart(LbRelease(w1), CoreStep(p1), Rank0Step(s1)))
  /\ WF_hostVars(OnPart(LbRelease(w2), CoreStep(p2), Rank0Step(s2)))
  /\ WF_hostVars(OnPart(ObserveStats(w1), CoreStep(p3), Rank0Step(s3)))
  /\ WF_hostVars(OnPart(ObserveStats(w2), FALSE, RankStep(s1)))
  /\ WF_hostVars(OnPart(BusyLoop(0), FALSE, RankStep(s2)))
  /\ WF_hostVars(OnPart(BusyLoop(1), FALSE, RankStep(s3)))

HostSpec == HostInit /\ [][HostNext]_hostVars /\ HostFairness
------------------------------------------------------------------------------
(* Type correctness of the three parts. *)
HostTypeOK == LbTypeOK /\ CoreTypeOK /\ PortTypeOK

(* The cores of a crashed process come back to the pool, and every server   *)
(* that is not killed assembles its ranks.                                  *)
HostGoesOn == CrashedCoresReturn /\ EveryServerAssembles
==============================================================================
