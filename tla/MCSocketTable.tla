--------------------------- MODULE MCSocketTable ---------------------------
(* A small instance of SocketTable for TLC.                                 *)
EXTENDS SocketTable

CONSTANTS c1, c2, p1, p2, lo, any, unix

\* A process for each caller, and a socket of each to start with
MCProc == (c1 :> p1) @@ (c2 :> p2)
MCOwners == <<p1, p2>>

\* Behaviours are followed up to the first call that goes astray.
UpToAstray == ~astray

\* The same, for a table that has not been disposed of.
InUse == ~astray /\ live # {}
============================================================================
