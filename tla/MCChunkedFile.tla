--------------------------- MODULE MCChunkedFile ----------------------------
(* Every way to store a file, with chunks of two bytes.  Without versions,   *)
(* nobody else can see a block that is changed in place.                     *)
EXTENDS ChunkedFile

MCConfigs ==
    {c \in [buffering : BOOLEAN, versioning : BOOLEAN, aliasing : BOOLEAN] :
        c.aliasing => c.versioning}

\* With versions there is no open with O_TRUNC.
Versioned == {c \in MCConfigs : c.versioning /\ ~c.buffering}

\* The file system that has it, and a file that is not created by writeFile.
Plain == {[buffering |-> FALSE, versioning |-> FALSE, aliasing |-> FALSE]}
Created == ~creating
=============================================================================
