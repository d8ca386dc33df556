---------------------------- MODULE MCCompressor ----------------------------
(* A caller with inputs of five blocks and one with inputs of two or of a  *)
(* single fast one; the queue, both limits and every channel fill up.      *)
EXTENDS Compressor, TLC

CONSTANTS c1, c2, t1, t2, f1

MCLengths == (c1 :> {50}) @@ (c2 :> {8, 20})
=============================================================================
