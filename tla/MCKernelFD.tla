----------------------------- MODULE MCKernelFD -----------------------------
(* Two processes over a handful of descriptions.                           *)
EXTENDS KernelFD, TLC

\* Pids are only compared.
Symmetry == Permutations(Pids)

\* A state with a lock or a blocked call has no close-on-exec marks, which locks
\* do not look at, and few descriptors: enough for a holder, a caller that waits
\* and a description two processes share.  Behaviours are followed up to the
\* first lock granted too late.
LocksApart ==
    /\ locked # {} \/ waiting # {} =>
          /\ cloexec = {}
          /\ Cardinality({e \in Pids \X FdNo : table[e[1]][e[2]] # NoDesc}) <= 3
    /\ late = {}
=============================================================================
