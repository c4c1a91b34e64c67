------------------------------ MODULE UserFSData ------------------------------
(***************************************************************************)
(* The data of one file of 3/userfs.c: its list of blocks, written by an   *)
(* index computed from the position and read by counting occupied bytes,   *)
(* and the position and rights of each descriptor.  Files do not share     *)
(* blocks, and a file has the same blocks from its creation until it is    *)
(* freed (module UserFS), so one file stands for all.                      *)
(*                                                                         *)
(* A step is one call that changes something.  Block k of the list is      *)
(* blocks[k + 1]; prev and last_block, which nothing reads, are left out.  *)
(* A malloc that fails in file_write is not handled and not modelled.      *)
(***************************************************************************)
EXTENDS Integers, Sequences, SequencesExt

CONSTANTS
    Fds,            \* descriptors the file can have at a time
    Bytes,
    BlockSize,      \* BLOCK_SIZE
    MaxFileSize,    \* MAX_FILE_SIZE
    MaxCall,        \* bound: the longest buffer given to one call
    Junk,           \* what malloc leaves in block->memory
    None

ASSUME UserFSDataAssumption ==
    /\ BlockSize \in Nat \ {0} /\ MaxFileSize \in Nat /\ MaxCall \in Nat
    /\ Junk \notin Bytes

VARIABLES
    blocks,         \* the list from block_list: occupied and memory of each
    pos,
    mode,           \* filedesc->flags; None while the descriptor is not open
    got             \* what the last call put into the buffer of its reader

vars == <<blocks, pos, mode, got>>

OpenFlags == {"READ_ONLY", "WRITE_ONLY", "READ_WRITE"}
Buffers == UNION {[1 .. n -> Bytes] : n \in 0 .. MaxCall}
Least(a, b) == IF a < b THEN a ELSE b
Most(a, b) == IF a > b THEN a ELSE b

Init ==
    /\ blocks = <<>>
    /\ pos = [d \in Fds |-> 0]
    /\ mode = [d \in Fds |-> None]
    /\ got = <<>>

-----------------------------------------------------------------------------
(* ufs_open and ufs_close, as far as the descriptor goes *)

\* Lines 171-177: the first right named counts, and none means both.
ModeOf(flags) ==
    IF "READ_ONLY" \in flags THEN "READ_ONLY"
    ELSE IF "WRITE_ONLY" \in flags THEN "WRITE_ONLY" ELSE "READ_WRITE"

Open(d) ==
    /\ mode[d] = None
    /\ \E flags \in SUBSET OpenFlags : mode' = [mode EXCEPT ![d] = ModeOf(flags)]
    /\ pos' = [pos EXCEPT ![d] = 0]
    /\ got' = <<>>
    /\ UNCHANGED blocks

Close(d) ==
    /\ mode[d] # None
    /\ mode' = [mode EXCEPT ![d] = None]
    /\ pos' = [pos EXCEPT ![d] = 0]
    /\ got' = <<>>
    /\ UNCHANGED blocks

-----------------------------------------------------------------------------
(* ufs_write *)

Fresh == [occupied |-> 0, memory |-> [i \in 1 .. BlockSize |-> Junk]]

\* Lines 199-205 and 228: writing starts inside the block the position is in
\* and goes on at the beginning of each block behind it.
OffsetKept(at, k) == at % BlockSize
Offset(at, k) == IF k = at \div BlockSize THEN at % BlockSize ELSE 0

\* How much of the buffer went into the blocks before block k.
CopiedNothing(at, k) == 0
Copied(at, k) ==
    IF k = at \div BlockSize THEN 0 ELSE BlockSize * k - at

\* Line 221.
ToCopy(at, k, size) == Least(BlockSize - Offset(at, k), size - Copied(at, k))

\* Line 223.
Occupied(block, end) == Most(end, block.occupied)

\* Lines 207-229 for block k: its memory and occupied, or a block appended.
Filled(at, k, buf) ==
    LET old == IF k < Len(blocks) THEN blocks[k + 1] ELSE Fresh
        offset == Offset(at, k)
        end == offset + ToCopy(at, k, Len(buf))
    IN  [occupied |-> Occupied(old, end),
         memory |-> [i \in 1 .. BlockSize |->
             IF i \in (offset + 1) .. end
             THEN buf[Copied(at, k) + i - offset] ELSE old.memory[i]]]

\* The blocks a write of this size at this position goes through.
Touched(at, size) ==
    IF size = 0 THEN {}
    ELSE (at \div BlockSize) .. ((at + size - 1) \div BlockSize)

file_write(buf, at) ==
    LET touched == Touched(at, Len(buf))
        length == IF touched = {} THEN Len(blocks)
                  ELSE Most(Len(blocks), (at + Len(buf) - 1) \div BlockSize + 1)
    IN  blocks' = [k \in 1 .. length |->
                     IF k - 1 \in touched THEN Filled(at, k - 1, buf) ELSE blocks[k]]

\* Line 246.
Fits(at, size) == at + size <= MaxFileSize

Write(d) == \E buf \in Buffers :
    /\ mode[d] \in {"WRITE_ONLY", "READ_WRITE"}
    /\ Fits(pos[d], Len(buf))
    /\ file_write(buf, pos[d])
    /\ pos' = [pos EXCEPT ![d] = @ + Len(buf)]
    /\ got' = <<>>
    /\ UNCHANGED mode

-----------------------------------------------------------------------------
(* ufs_read, lines 294-316: skip pos occupied bytes, then copy occupied bytes *)
(* block after block until the buffer is full or the blocks end.              *)

Stored == FlattenSeq([k \in DOMAIN blocks |->
                        SubSeq(blocks[k].memory, 1, blocks[k].occupied)])

Read(d) == \E size \in 0 .. MaxCall :
    LET n == Most(0, Least(size, Len(Stored) - pos[d])) IN
    /\ mode[d] \in {"READ_ONLY", "READ_WRITE"}
    /\ got' = SubSeq(Stored, pos[d] + 1, pos[d] + n)
    /\ pos' = [pos EXCEPT ![d] = @ + n]
    /\ UNCHANGED <<blocks, mode>>

-----------------------------------------------------------------------------
Next == \E d \in Fds : Open(d) \/ Close(d) \/ Write(d) \/ Read(d)

Spec == Init /\ [][Next]_vars
=============================================================================
