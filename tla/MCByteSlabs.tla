---------------------------- MODULE MCByteSlabs ----------------------------
(* Two chunks of three slabs of three bytes, and two requests.             *)
EXTENDS ByteSlabs

CONSTANTS r1, r2
=============================================================================
