---------------------------- MODULE MCNeuronFleet ----------------------------
(* Three engines side by side for TLC: the colocated one the configuration  *)
(* describes, and the two of a disaggregated pair.  Each behaviour is the   *)
(* behaviour of one of them.                                                *)
EXTENDS MCNeuronScheduler

VARIABLE engine   (* which of the three this behaviour is about *)

fleetVars == <<vars, engine>>

Producer == INSTANCE NeuronScheduler WITH
  Role <- "producer", KvPool <- 8, PromptChunks <- MCLongPrompt,
  MaxTokens <- MCOneSent, StructuredOutput <- {}, RemoteDecode <- {r1}
Consumer == INSTANCE NeuronScheduler WITH
  Role <- "consumer", StructuredOutput <- {r3}, RemotePrefill <- Request

FleetInit ==
  \/ engine = "colocated" /\ Init
  \/ engine = "producer" /\ Producer!Init
  \/ engine = "consumer" /\ Consumer!Init

FleetNext ==
  /\ \/ engine = "colocated" /\ Next
     \/ engine = "producer" /\ Producer!Next
     \/ engine = "consumer" /\ Consumer!Next
  /\ UNCHANGED engine

(* A step of the engine at hand, given what the step is on each of the three. *)
OnEngine(colocated, producer, consumer) ==
  /\ \/ engine = "colocated" /\ colocated
     \/ engine = "producer" /\ producer
     \/ engine = "consumer" /\ consumer
  /\ UNCHANGED engine

(* The fairness of FairSpec, for the engine at hand. *)
FleetFairness ==
  /\ WF_fleetVars(OnEngine(Schedule, Producer!Schedule, Consumer!Schedule))
  /\ WF_fleetVars(OnEngine(UpdateFromOutput, Producer!UpdateFromOutput,
                           Consumer!UpdateFromOutput))
  /\ \A r \in Request :
       /\ WF_fleetVars(OnEngine(CompileGrammar(r), Producer!CompileGrammar(r),
                                Consumer!CompileGrammar(r)))
       /\ WF_fleetVars(OnEngine(TransferDone(r), Producer!TransferDone(r),
                                Consumer!TransferDone(r)))

FleetSpec == FleetInit /\ [][FleetNext]_fleetVars /\ FleetFairness
------------------------------------------------------------------------------
(* What each side of a disaggregated pair relies on: the producer preempts no *)
(* running request, and no step of the consumer holds a runnable decode back *)
(* to admit a pull.                                                         *)
RolesKept ==
  [][/\ engine = "producer" => Producer!PreemptsNone
     /\ engine = "consumer" => Consumer!HoldsNoDecodeBack]_fleetVars
==============================================================================
