---------------------------- MODULE MCV8Session ----------------------------
EXTENDS V8Session

CONSTANTS s1, s2

MCSessions == {s1, s2}

Load(o, l, d, x, c, e) ==
    [opens |-> o, limit |-> l, early |-> d, execs |-> x, calls |-> c, events |-> e]

(* Interleaved sync and async calls under a time limit; stream events      *)
(* during sync calls; a session used twice; two sessions for one slot.     *)
MCWorkloads == {Load({s1}, TRUE, TRUE, 1, 2, 0), Load({s1}, TRUE, TRUE, 1, 0, 1),
                Load({s1}, FALSE, FALSE, 1, 2, 2), Load({s1}, TRUE, FALSE, 2, 1, 0),
                Load({s1, s2}, TRUE, TRUE, 1, 0, 0), Load({s1, s2}, FALSE, TRUE, 1, 1, 0)}

OneSession == {Load({s1}, TRUE, FALSE, 1, 1, 0)}
=============================================================================
