------------------------- MODULE UserFSDataProperties -------------------------
(***************************************************************************)
(* What must hold of the data of a file, module UserFSData.                *)
(***************************************************************************)
EXTENDS UserFSData

Size == IF blocks = <<>> THEN 0 ELSE BlockSize * (Len(blocks) - 1) + Last(blocks).occupied

Blocks == [occupied : 0 .. BlockSize, memory : [1 .. BlockSize -> Bytes \cup {Junk}]]

\* The types of the variables, and MAX_FILE_SIZE (line 246).  No descriptor stands
\* behind the end of the file, whoever wrote it: the walk of lines 199-203 follows
\* next as often as there are blocks for it.
TypeOK ==
    /\ blocks \in Seq(Blocks)
    /\ Size <= MaxFileSize
    /\ pos \in [Fds -> 0 .. Size]
    /\ mode \in [Fds -> OpenFlags \cup {None}]
    /\ got \in Seq(Bytes)

\* Every block but the last is full, so the block number line 199 computes from
\* a position is the block lines 299-302 find by counting; no occupied byte is one
\* that was never written; and no position is behind the last block (TypeOK).
BlocksArePacked == TypeOK /\
    \A k \in DOMAIN blocks :
        /\ k < Len(blocks) => blocks[k].occupied = BlockSize
        /\ blocks[k].occupied > 0
        /\ \A i \in 1 .. blocks[k].occupied : blocks[k].memory[i] # Junk

\* The file as an array of bytes, by the addressing of file_write.
Content == [i \in 1 .. Size |->
              blocks[(i - 1) \div BlockSize + 1].memory[((i - 1) % BlockSize) + 1]]

Flat == INSTANCE FlatFile WITH content <- Content

\* Blocks are invisible: each call does what it does to a plain sequence of
\* bytes with a position per descriptor, and a read returns what is there.
ImplementsFlatFile == Flat!Spec
=============================================================================
