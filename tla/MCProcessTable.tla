-------------------------- MODULE MCProcessTable --------------------------
(* A parent and a child, with the signals that take different paths.       *)
EXTENDS ProcessTable

\* SIGTERM is blocked and unblocked; SIGKILL is filtered out.
TermMasks == {{}, {SIGTERM, SIGKILL}}
=============================================================================
