---------------------------- MODULE PortRendezvous ----------------------------
(***************************************************************************)
(* How the ranks of a server find each other                               *)
(* (vllm_neuron/vllm/patches/port_hold_patch.py): rank 0 binds the port it *)
(* was told, or a fresh one if that is taken, and writes the port to a file *)
(* named after the port and the server's process group; the other ranks    *)
(* poll the file and dial what it says until a TCPStore answers.           *)
(*                                                                         *)
(* Servers share the host's ports and /tmp with each other and with the    *)
(* Neuron runtime, which may take a port and listen on it without speaking *)
(* TCPStore.  A server may be killed at any moment; its file stays, and a  *)
(* later server may get its process group id.                              *)
(***************************************************************************)
EXTENDS Integers, FiniteSets

CONSTANTS
  Server,       (* servers launched on the host                            *)
  Rank,         (* the ranks of a server other than rank 0                 *)
  Port,         (* ports of the host                                       *)
  Stealable,    (* ports the Neuron runtime may take                       *)
  InitPort,     (* [Server -> port in its init_method]                     *)
  Group         (* [Server -> its process group id]                        *)

NoPort == "no port"
NoServer == "no server"

ASSUME RendezvousAssumption ==
  /\ Stealable \subseteq Port /\ NoPort \notin Port
  /\ NoServer \notin Server
  /\ InitPort \in [Server -> Port]
  /\ DOMAIN Group = Server
  /\ Cardinality(Server) <= Cardinality(Port \ Stealable)

VARIABLES
  rank0,     (* how far rank 0 of a server is                              *)
  bound,     (* the port rank 0 listens on                                 *)
  file,      (* content of the rendezvous files, by path                   *)
  dialing,   (* the port a rank has read and is connecting to              *)
  joined,    (* the server whose store a rank is connected to              *)
  stolen,    (* ports the Neuron runtime listens on                        *)
  leftover   (* paths whose file outlived its server at some time          *)

portVars == <<rank0, bound, file, dialing, joined, stolen, leftover>>

(* Mutant: the file is named after the port alone. *)
PathByPort(s) == <<InitPort[s]>>

(* _rendezvous_path and _group_key. *)
Path(s) == <<InitPort[s], Group[s]>>

PortInit ==
  /\ rank0 = [s \in Server |-> "off"]
  /\ bound = [s \in Server |-> NoPort]
  /\ file = [f \in {Path(s) : s \in Server} |-> NoPort]
  /\ dialing = [s \in Server |-> [r \in Rank |-> NoPort]]
  /\ joined = [s \in Server |-> [r \in Rank |-> NoServer]]
  /\ stolen = {}
  /\ leftover = {}
------------------------------------------------------------------------------
Up(s) == rank0[s] \notin {"off", "dead"}
Advance(s, from, to) == rank0[s] = from /\ rank0' = [rank0 EXCEPT ![s] = to]

Occupied == stolen \cup {bound[s] : s \in Server}

(* Two servers alive at a time are in different process groups. *)
Launch(s) ==
  /\ \A t \in Server : Up(t) => Group[t] # Group[s]
  /\ Advance(s, "off", "launched")
  /\ UNCHANGED <<bound, file, dialing, joined, stolen, leftover>>

(* _rank0_create_store: the stale file goes first, *)
Unlink(s) ==
  /\ Advance(s, "launched", "binding")
  /\ file' = [file EXCEPT ![Path(s)] = NoPort]
  /\ UNCHANGED <<bound, dialing, joined, stolen, leftover>>

(* then the port is bound, an ephemeral one on EADDRINUSE,                  *)
Bind(s) ==
  /\ Advance(s, "binding", "listening")
  /\ \E p \in Port \ Occupied :
       /\ InitPort[s] \notin Occupied => p = InitPort[s]
       /\ bound' = [bound EXCEPT ![s] = p]
  /\ UNCHANGED <<file, dialing, joined, stolen, leftover>>

(* and the file is written aside and renamed into place.                    *)
Publish(s) ==
  /\ Advance(s, "listening", "published")
  /\ file' = [file EXCEPT ![Path(s)] = bound[s]]
  /\ UNCHANGED <<bound, dialing, joined, stolen, leftover>>

(* Mutant: ranks probe the port of the init_method. *)
ProbedPort(s) == InitPort[s]

(* What the rendezvous file tells the ranks of s to dial. *)
Rendezvous(s) == file[Path(s)]

(* _rankN_connect_store: read the file, *)
Poll(s, r) ==
  /\ Up(s)
  /\ dialing[s][r] = NoPort /\ joined[s][r] = NoServer
  /\ Rendezvous(s) # NoPort
  /\ dialing' = [dialing EXCEPT ![s][r] = Rendezvous(s)]
  /\ UNCHANGED <<rank0, bound, file, joined, stolen, leftover>>

(* and connect: whichever store listens there answers; a port nobody listens *)
(* on refuses, the Neuron runtime's times out, and the rank polls again.    *)
Dial(s, r) ==
  /\ Up(s)
  /\ dialing[s][r] # NoPort
  /\ dialing' = [dialing EXCEPT ![s][r] = NoPort]
  /\ joined' = [joined EXCEPT ![s][r] =
                  IF \E t \in Server : bound[t] = dialing[s][r]
                  THEN CHOOSE t \in Server : bound[t] = dialing[s][r] ELSE NoServer]
  /\ UNCHANGED <<rank0, bound, file, stolen, leftover>>

(* init_process_group is a barrier over the store of rank 0; after it the   *)
(* file is removed.                                                         *)
Barrier(s) ==
  /\ Advance(s, "published", "ready")
  /\ \A r \in Rank : joined[s][r] = s
  /\ file' = [file EXCEPT ![Path(s)] = NoPort]
  /\ UNCHANGED <<bound, dialing, joined, stolen, leftover>>

(* The server ends: it is killed, or a rank reaches its deadline and raises. *)
Shutdown(s) ==
  /\ Up(s)
  /\ rank0' = [rank0 EXCEPT ![s] = "dead"]
  /\ bound' = [bound EXCEPT ![s] = NoPort]
  /\ dialing' = [dialing EXCEPT ![s] = [r \in Rank |-> NoPort]]
  /\ joined' = [joined EXCEPT ![s] = [r \in Rank |-> NoServer]]
  /\ leftover' = leftover \cup (IF file[Path(s)] # NoPort THEN {Path(s)} ELSE {})
  /\ UNCHANGED <<file, stolen>>

(* The Neuron runtime of some process takes or leaves a port (external). *)
Steal(p) ==
  /\ p \in Stealable \ Occupied
  /\ stolen' = stolen \cup {p}
  /\ UNCHANGED <<rank0, bound, file, dialing, joined, leftover>>

Return(p) ==
  /\ p \in stolen
  /\ stolen' = stolen \ {p}
  /\ UNCHANGED <<rank0, bound, file, dialing, joined, leftover>>

PortNext ==
  \/ \E s \in Server :
       \/ Launch(s) \/ Unlink(s) \/ Bind(s) \/ Publish(s) \/ Barrier(s) \/ Shutdown(s)
       \/ \E r \in Rank : Poll(s, r) \/ Dial(s, r)
  \/ \E p \in Port : Steal(p) \/ Return(p)

PortSpec == PortInit /\ [][PortNext]_portVars

(* Every rank of a server that lives keeps running. *)
Rank0Step(s) == Unlink(s) \/ Bind(s) \/ Publish(s) \/ Barrier(s)
PortFairness ==
  \A s \in Server :
    /\ WF_portVars(Rank0Step(s))
    /\ \A r \in Rank : WF_portVars(Poll(s, r) \/ Dial(s, r))

PortFairSpec == PortSpec /\ PortFairness
------------------------------------------------------------------------------
(* Types; and a port has one listener. *)
PortTypeOK ==
  /\ rank0 \in [Server -> {"off", "launched", "binding", "listening", "published",
                           "ready", "dead"}]
  /\ bound \in [Server -> Port \cup {NoPort}]
  /\ file \in [{Path(s) : s \in Server} -> Port \cup {NoPort}]
  /\ dialing \in [Server -> [Rank -> Port \cup {NoPort}]]
  /\ joined \in [Server -> [Rank -> Server \cup {NoServer}]]
  /\ stolen \subseteq Stealable /\ stolen \cap {bound[s] : s \in Server} = {}
  /\ leftover \subseteq {Path(s) : s \in Server}
  /\ \A s, t \in Server : bound[s] = bound[t] => s = t \/ bound[s] = NoPort

(* A rank only ever joins its own rank 0, however ports change hands and    *)
(* whatever servers start at once on one port.  Only a file that outlived a *)
(* killed server can lead it elsewhere: read before the next rank 0 of that *)
(* path unlinks it, when its port has meanwhile gone to another store.      *)
OwnStoreOnly ==
  \A s \in Server, r \in Rank :
    joined[s][r] \in {s, NoServer} \/ Path(s) \in leftover

(* A server that is not killed assembles: no stolen port, refused           *)
(* connection or stale file stops it, unless a stale file led a rank astray. *)
EveryServerAssembles ==
  <>[](\A s \in Server :
         Up(s) => rank0[s] = "ready" \/ \E r \in Rank : joined[s][r] \notin {s, NoServer})
==============================================================================
