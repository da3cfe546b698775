------------------------------ MODULE MCKvPull -------------------------------
(* Small instances of KvPull for TLC: pairs of topologies. *)
EXTENDS KvPull

Pair(heads, pTP, pDCP, dTP, dDCP, pageR) ==
  [heads |-> heads, pTP |-> pTP, pDCP |-> pDCP, dTP |-> dTP, dDCP |-> dDCP,
   pageR |-> pageR]

(* In turn: decode ranks that replicate the heads; a head split; a head      *)
(* merge over prefill DCP; equal DCP; more prefill DCP; fragments; more      *)
(* decode DCP; prefill ranks that replicate the heads.                       *)
MCTopologies ==
  {Pair(2, 2, 1, 4, 1, 1), Pair(2, 1, 1, 2, 1, 1), Pair(2, 4, 2, 1, 1, 1),
   Pair(1, 2, 2, 2, 2, 1), Pair(1, 2, 2, 2, 1, 1), Pair(1, 4, 4, 2, 2, 2),
   Pair(1, 1, 1, 2, 2, 1), Pair(1, 2, 1, 2, 1, 1), Pair(2, 1, 1, 4, 2, 1)}

(* More decode DCP only. *)
MCDecodeDcp == {Pair(1, 1, 1, 2, 2, 1)}
==============================================================================
