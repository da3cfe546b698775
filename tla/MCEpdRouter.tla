----------------------------- MODULE MCEpdRouter -----------------------------
(* A small instance of EpdRouter for TLC: a worker that dies once, a segment *)
(* of two items, and two encoders.                                          *)
EXTENDS EpdRouter, TLC

CONSTANTS v1, v2, a, b, c, d, r1, r2, r3

(* One to three items, a repeated one, an oversized one, and none. *)
MCMessages == (r1 :> {<<>>, <<a, a>>}) @@ (r2 :> {<<b, a>>}) @@ (r3 :> {<<c, d>>})
MCDistinct == (r1 :> {<<a>>}) @@ (r2 :> {<<b>>}) @@ (r3 :> {<<d>>})
MCVeOf == [h \in Hash |-> IF h = c THEN v2 ELSE v1]
==============================================================================
