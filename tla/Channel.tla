------------------------------ MODULE Channel ------------------------------
(***************************************************************************)
(* What a kernel pipe promises, whatever its buffer and its wait queues    *)
(* do: the bytes the writers get in form one stream, readers receive a     *)
(* growing prefix of that stream, nothing enters once an end is closed,    *)
(* and end-of-file is reported only when the whole stream has been         *)
(* received and no more can follow.  Pipe is shown to implement it.        *)
(***************************************************************************)
EXTENDS Naturals, Sequences

CONSTANTS Writers, MaxLen   \* MaxLen bounds a single send

VARIABLES sent,        \* the stream: <<w, k>> is the k-th byte of writer w
          received,    \* the prefix of it that readers got
          count,       \* bytes of each writer in the stream
          readOpen, writeOpen,
          eof          \* end-of-file has been reported

cvars == <<sent, received, count, readOpen, writeOpen, eof>>

Init ==
    /\ sent = <<>> /\ received = <<>> /\ count = [w \in Writers |-> 0]
    /\ readOpen = TRUE /\ writeOpen = TRUE /\ eof = FALSE

\* The next n bytes of writer w join the stream.
Extend(w, n) ==
    /\ readOpen /\ writeOpen
    /\ sent' = sent \o [i \in 1 .. n |-> <<w, count[w] + i>>]
    /\ count' = [count EXCEPT ![w] = @ + n]
    /\ UNCHANGED <<readOpen, writeOpen, eof>>

Send(w, n) == Extend(w, n) /\ UNCHANGED received

\* A reader that has everything so far receives the bytes as they are sent.
HandOver(w, n) == Extend(w, n) /\ received = sent /\ received' = sent'

Receive(n) ==
    /\ readOpen
    /\ received' = SubSeq(sent, 1, Len(received) + n)
    /\ UNCHANGED <<sent, count, readOpen, writeOpen, eof>>

EndOfStream ==
    /\ readOpen /\ ~writeOpen /\ received = sent
    /\ eof' = TRUE
    /\ UNCHANGED <<sent, received, count, readOpen, writeOpen>>

CloseRead ==
    /\ readOpen /\ readOpen' = FALSE
    /\ UNCHANGED <<sent, received, count, writeOpen, eof>>

\* Readers that wait with the whole stream received learn of the end at once.
CloseWrite ==
    /\ writeOpen /\ writeOpen' = FALSE
    /\ \/ eof' = eof
       \/ received = sent /\ eof' = TRUE
    /\ UNCHANGED <<sent, received, count, readOpen>>

Next ==
    \/ \E w \in Writers, n \in 1 .. MaxLen : Send(w, n) \/ HandOver(w, n)
    \/ \E n \in 0 .. Len(sent) - Len(received) : Receive(n)
    \/ EndOfStream \/ CloseRead \/ CloseWrite

Spec == Init /\ [][Next]_cvars
============================================================================
