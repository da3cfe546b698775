------------------------ MODULE MCEncoderCacheBlocks ------------------------
(* Small instances of EncoderCacheBlocks for TLC. *)
EXTENDS EncoderCacheBlocks

CONSTANTS a, b, c

MCItems == {a, b, c}

(* c is a large image; together the items do not fit. *)
MCNeed == [h \in Item |-> IF h = c THEN 2 ELSE 1]
==============================================================================
