----------------------------- MODULE MCTerminal -----------------------------
(* A shell with one child: cooked, or without line editing, with and without *)
(* echo, or raw.                                                             *)
EXTENDS Terminal

MCModes ==
    {Cooked, [icanon |-> FALSE, echo |-> FALSE, isig |-> FALSE]}
        \cup [icanon : {FALSE}, echo : BOOLEAN, isig : {TRUE}]
=============================================================================
