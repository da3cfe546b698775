----------------------------- MODULE MCEcTransfer -----------------------------
(* Small instances of EcTransfer for TLC. *)
EXTENDS EcTransfer

CONSTANTS a, b

MCItems == {a, b}

(* b is a large image. *)
MCNeed == [h \in Item |-> IF h = b THEN 2 ELSE 1]
==============================================================================
