------------------------------ MODULE MCPipe ------------------------------
(* Small instances of Pipe for TLC: two writers and two readers, so that     *)
(* concurrent calls meet on both wait queues, on a buffer of two bytes.      *)
EXTENDS Pipe

CONSTANTS w1, w2, r1, r2, p1
============================================================================
