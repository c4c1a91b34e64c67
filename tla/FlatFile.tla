------------------------------- MODULE FlatFile -------------------------------
(***************************************************************************)
(* What 3/userfs.h promises of one file: a sequence of bytes, and for each *)
(* open descriptor a position of its own and the right to read, to write,  *)
(* or both.  Nothing is said of blocks.                                    *)
(***************************************************************************)
EXTENDS Integers, Sequences

CONSTANTS
    Fds, Bytes,
    MaxFileSize,
    MaxCall,        \* bound: the longest buffer given to one call
    None

VARIABLES
    content,
    pos,
    mode,           \* the rights of a descriptor; None while it is not open
    got             \* what the last call put into the buffer of its reader

flatVars == <<content, pos, mode, got>>

Rights == {"READ_ONLY", "WRITE_ONLY", "READ_WRITE"}
Buffers == UNION {[1 .. n -> Bytes] : n \in 0 .. MaxCall}
Least(a, b) == IF a < b THEN a ELSE b

Init ==
    /\ content = <<>>
    /\ pos = [d \in Fds |-> 0]
    /\ mode = [d \in Fds |-> None]
    /\ got = <<>>

Open(d) ==
    /\ mode[d] = None
    /\ \E right \in Rights : mode' = [mode EXCEPT ![d] = right]
    /\ pos' = [pos EXCEPT ![d] = 0]
    /\ got' = <<>>
    /\ UNCHANGED content

Close(d) ==
    /\ mode[d] # None
    /\ mode' = [mode EXCEPT ![d] = None]
    /\ pos' = [pos EXCEPT ![d] = 0]
    /\ got' = <<>>
    /\ UNCHANGED content

\* The bytes replace those from the position on, and lengthen the file.
Overwritten(buf, at) ==
    [i \in 1 .. (IF at + Len(buf) > Len(content) THEN at + Len(buf) ELSE Len(content)) |->
        IF i \in (at + 1) .. (at + Len(buf)) THEN buf[i - at] ELSE content[i]]

Write(d) == \E buf \in Buffers :
    /\ mode[d] \in {"WRITE_ONLY", "READ_WRITE"}
    /\ pos[d] + Len(buf) <= MaxFileSize
    /\ content' = Overwritten(buf, pos[d])
    /\ pos' = [pos EXCEPT ![d] = @ + Len(buf)]
    /\ got' = <<>>
    /\ UNCHANGED mode

\* As many bytes as asked for, or as there are up to the end of the file.
Read(d) == \E size \in 0 .. MaxCall :
    LET n == Least(size, Len(content) - pos[d]) IN
    /\ mode[d] \in {"READ_ONLY", "READ_WRITE"}
    /\ got' = SubSeq(content, pos[d] + 1, pos[d] + n)
    /\ pos' = [pos EXCEPT ![d] = @ + n]
    /\ UNCHANGED <<content, mode>>

Next == \E d \in Fds : Open(d) \/ Close(d) \/ Write(d) \/ Read(d)

Spec == Init /\ [][Next]_flatVars
=============================================================================
