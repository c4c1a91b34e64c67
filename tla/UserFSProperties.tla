--------------------------- MODULE UserFSProperties ---------------------------
(***************************************************************************)
(* What must hold of the files and descriptors of module UserFS.           *)
(***************************************************************************)
EXTENDS UserFS

Descriptors == {fd \in DOMAIN file_descriptors : file_descriptors[fd] # Null}
DescriptorsOf(f) == {fd \in DOMAIN file_descriptors : file_descriptors[fd] = f}

FileRecords == [name : Names, next : Files \cup {Null}, prev : Files \cup {Null},
                refs : Nat, is_del : BOOLEAN]

\* The types of the variables; the array of descriptors has the length the code
\* keeps for it, and every open descriptor is counted, so that a place is free
\* after line 90 and the loop of lines 92-97 finds one.
TypeOK ==
    /\ Allocated \subseteq Files
    /\ file \in [Allocated -> FileRecords]
    /\ file_list \in Allocated \cup {Null}
    /\ file_descriptor_capacity \in Nat
    /\ file_descriptor_count \in 0 .. file_descriptor_capacity
    /\ file_descriptors \in [0 .. file_descriptor_capacity - 1 -> Allocated \cup {Null}]
    /\ Cardinality(Descriptors) <= file_descriptor_count \/ life = "destroyed"
    /\ cursor \in Allocated \cup {Null}
    /\ life \in {"up", "destroying", "destroyed"}

\* next and prev are each other's inverse on the allocated files, file_list is
\* the only file without a next, and no link leads out of the list (lines
\* 127-137 and 332-342).
LinksMatch ==
    /\ \A f \in Allocated :
         /\ file[f].next = Null <=> f = file_list
         /\ file[f].next # Null =>
              file[f].next \in Allocated /\ file[file[f].next].prev = f
         /\ file[f].prev # Null =>
              file[f].prev \in Allocated /\ file[file[f].prev].next = f
    /\ file_list = Null => Allocated = {}

\* The walk of file_find and ufs_destroy comes to every file there is.
AllReached == Reached({}) = Allocated

\* The list holds every allocated file exactly once, whatever is created and
\* deleted in between.
ListHoldsFiles == TypeOK /\ LinksMatch /\ AllReached

\* refs is the number of descriptors on the file: it decides when a deleted
\* file is freed (lines 169, 355, 320), so no descriptor is left on freed memory.
RefsExact ==
    life # "destroyed" =>
        /\ \A fd \in Descriptors : file_descriptors[fd] \in Allocated
        /\ \A f \in Allocated : file[f].refs = Cardinality(DescriptorsOf(f))

\* A deleted file lives until its last descriptor is closed and not longer
\* (userfs.h:128-130), and ufs_destroy, which unlinks files as it walks, leaves
\* nothing but files that had a descriptor.
GhostsAreOpen ==
    \A f \in Allocated : file[f].is_del \/ life = "destroyed" => file[f].refs > 0

\* The reference count, moved by every open, failed open and close, decides rightly
\* when a file that was deleted goes.
RefsDecideLife == RefsExact /\ GhostsAreOpen

\* Whatever is opened, closed, deleted or created under the same name, an open
\* descriptor keeps its file, and the file its name, until it is closed
\* (userfs.h:130-133).
DescriptorsKeepFiles ==
    [][\A fd \in Descriptors :
         \/ fd \in DOMAIN file_descriptors' /\ file_descriptors'[fd] = Null
         \/ /\ file_descriptors'[fd] = file_descriptors[fd]
            /\ file'[file_descriptors[fd]].name = file[file_descriptors[fd]].name]_vars

Live(n) == {f \in Named(n) : ~file[f].is_del}

\* "A file has an unique file name" (userfs.h:7-8): at most one file that is
\* not deleted bears it.
OneFilePerName == \A n \in Names : Cardinality(Live(n)) <= 1

DeletedFirst == file_list # Null /\ file[file_list].is_del

\* Names stay unique as long as the first file of the list is never one that
\* was deleted while open: only such a file hides the one created after it.
UniqueUnlessDeletedFirst == []~DeletedFirst => []OneFilePerName
=============================================================================
