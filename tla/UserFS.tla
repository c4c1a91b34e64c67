-------------------------------- MODULE UserFS --------------------------------
(***************************************************************************)
(* The files and descriptors of the in-memory file system 3/userfs.c: the  *)
(* doubly linked file_list, the reference counts, deletion of open files   *)
(* and the growing array of descriptors.  What a file contains is in       *)
(* module UserFSData.                                                      *)
(*                                                                         *)
(* The program has one thread: a step is one call, and a step of the loop  *)
(* of ufs_destroy.  Calls that return an error and change nothing are left *)
(* out, and so are a failing realloc and a descriptor equal to the         *)
(* capacity, after which the code reads memory that is not its own.        *)
(***************************************************************************)
EXTENDS Integers, FiniteSets

CONSTANTS
    Files,          \* the addresses malloc can return for a struct file
    Names,          \* file names
    MaxCapacity,    \* bound: the array of descriptors is not grown beyond it
    Null

ASSUME UserFSAssumption == Null \notin Files /\ MaxCapacity \in Nat

VARIABLES
    file,           \* file[f]: the struct at f, for every f allocated
    file_list,
    file_descriptors,               \* [0 .. capacity - 1 -> file of the descriptor]
    file_descriptor_count,
    file_descriptor_capacity,
    cursor,         \* ufs_destroy: the file its loop looks at next
    life            \* "up", "destroying" or "destroyed"

listVars == <<file, file_list>>
fdVars == <<file_descriptors, file_descriptor_count, file_descriptor_capacity>>
destroyVars == <<cursor, life>>
vars == <<listVars, fdVars, destroyVars>>

Allocated == DOMAIN file
Named(n) == {f \in Allocated : file[f].name = n}

Init ==
    /\ file = [f \in {} |-> Null]
    /\ file_list = Null
    /\ file_descriptors = [i \in {} |-> Null]
    /\ file_descriptor_count = 0
    /\ file_descriptor_capacity = 0
    /\ cursor = Null
    /\ life = "up"

-----------------------------------------------------------------------------
(* The list *)

\* The files a walk from file_list along prev comes to, if it does not go on
\* from a file of Stop: the least set with the first file that is closed.
Reached(Stop) ==
    LET Closed(S) ==
          /\ file_list # Null => file_list \in S
          /\ \A f \in S \ Stop : file[f].prev # Null => file[f].prev \in S
    IN  {f \in Allocated : \A S \in SUBSET Allocated : Closed(S) => f \in S}

\* The first file of that name on the walk, deleted or not.
file_find(n) ==
    LET Found == Reached(Named(n)) \cap Named(n)
    IN  IF Found = {} THEN Null ELSE CHOOSE f \in Found : TRUE

\* file_create, lines 119-139: the new file f goes right behind the first one.
Created(f, n) ==
    LET second == IF file_list = Null THEN Null ELSE file[file_list].prev
    IN  [g \in Allocated \cup {f} |->
          IF g = f
          THEN [name |-> n, next |-> file_list, prev |-> second,
                refs |-> 0, is_del |-> FALSE]
          ELSE [file[g] EXCEPT !.prev = IF g = file_list THEN f ELSE @,
                               !.next = IF g = second THEN f ELSE @]]

\* file_delete, lines 332-345, on the files fs: f leaves the list and is freed.
Unlinked(fs, f) ==
    [g \in DOMAIN fs \ {f} |->
        [fs[g] EXCEPT !.prev = IF fs[f].next = g THEN fs[f].prev ELSE @,
                      !.next = IF fs[f].prev = g THEN fs[f].next ELSE @]]

FirstNotMoved(fs, f) == file_list
FirstAfter(fs, f) == IF fs[f].next = Null THEN fs[f].prev ELSE file_list

\* file_delete, with the test of line 320: a file with descriptors stays.
FileDelete(fs, f) ==
    IF fs[f].refs > 0
    THEN file' = fs /\ UNCHANGED file_list
    ELSE file' = Unlinked(fs, f) /\ file_list' = FirstAfter(fs, f)

-----------------------------------------------------------------------------
(* ufs_open *)

\* get_free_fd_adress, lines 76-90: the array doubles when every place counts
\* as taken.
GrownCapacity ==
    IF file_descriptor_capacity = 0 THEN 1
    ELSE IF file_descriptor_count = file_descriptor_capacity
         THEN 2 * file_descriptor_capacity
         ELSE file_descriptor_capacity

Grown == [i \in 0 .. GrownCapacity - 1 |->
            IF i < file_descriptor_capacity THEN file_descriptors[i] ELSE Null]

\* Lines 92-97: the first place that is free.
LowestPlace(fd) == fd = 0
FirstFree(fd) == Grown[fd] = Null /\ \A i \in 0 .. fd - 1 : Grown[i] # Null

\* Line 94 counts the descriptor before it is there (line 162).
CountPlace ==
    /\ life = "up" /\ GrownCapacity <= MaxCapacity
    /\ file_descriptor_capacity' = GrownCapacity
    /\ file_descriptor_count' = file_descriptor_count + 1

\* Lines 153-158 and 163-166 without a new file: no such file and no
\* UFS_CREATE, or malloc failed.  The place stays counted.
OpenFails ==
    /\ \E fd \in DOMAIN Grown : FirstFree(fd)
    /\ CountPlace
    /\ file_descriptors' = Grown
    /\ UNCHANGED <<listVars, destroyVars>>

\* Lines 149 and 162-181.
OpenFound(n) ==
    LET f == file_find(n) IN
    /\ f # Null /\ ~file[f].is_del
    /\ CountPlace
    /\ \E fd \in DOMAIN Grown :
         FirstFree(fd) /\ file_descriptors' = [Grown EXCEPT ![fd] = f]
    /\ file' = [file EXCEPT ![f].refs = @ + 1]
    /\ UNCHANGED <<file_list, destroyVars>>

\* Line 150, with UFS_CREATE: nothing was found, or what cannot be opened.
CreatesAnyway(n) == TRUE
OpenCreates(n) == file_find(n) # Null => file[file_find(n)].is_del

NewFile(f, n) ==
    /\ OpenCreates(n)
    /\ f \notin Allocated
    /\ file_list' = IF file_list = Null THEN f ELSE file_list

\* Lines 150-155 and 162-181.
OpenNew(n, f) ==
    /\ NewFile(f, n)
    /\ CountPlace
    /\ \E fd \in DOMAIN Grown :
         FirstFree(fd) /\ file_descriptors' = [Grown EXCEPT ![fd] = f]
    /\ file' = [Created(f, n) EXCEPT ![f].refs = 1]
    /\ UNCHANGED destroyVars

\* Lines 150-155 and 163-166: the file is there, its descriptor is not.
OpenNewFails(n, f) ==
    /\ NewFile(f, n)
    /\ \E fd \in DOMAIN Grown : FirstFree(fd)
    /\ CountPlace
    /\ file_descriptors' = Grown
    /\ file' = Created(f, n)
    /\ UNCHANGED destroyVars

-----------------------------------------------------------------------------
(* ufs_close and ufs_delete *)

Closed(f) == [file EXCEPT ![f].refs = @ - 1]

\* Line 356: the last descriptor of a deleted file is closed.
FreedByDeleteOnly(fs, f) == FALSE
LastClosed(fs, f) == fs[f].refs = 0 /\ fs[f].is_del

Close(fd) ==
    LET f == file_descriptors[fd]
        fs == Closed(f)
    IN  /\ life = "up"
        /\ f # Null
        /\ IF LastClosed(fs, f)
           THEN FileDelete(fs, f)
           ELSE file' = fs /\ UNCHANGED file_list
        /\ file_descriptors' = [file_descriptors EXCEPT ![fd] = Null]
        /\ file_descriptor_count' = file_descriptor_count - 1
        /\ UNCHANGED <<file_descriptor_capacity, destroyVars>>

Delete(n) ==
    LET f == file_find(n) IN
    /\ life = "up"
    /\ f # Null
    /\ FileDelete([file EXCEPT ![f].is_del = TRUE], f)
    /\ UNCHANGED <<fdVars, destroyVars>>

-----------------------------------------------------------------------------
(* ufs_destroy, after which no function may be called *)

\* Line 379.
DestroyCall ==
    /\ life = "up"
    /\ life' = "destroying"
    /\ cursor' = file_list
    /\ UNCHANGED <<listVars, fdVars>>

\* Lines 380-384.
CursorAfter == file[cursor].prev

DestroyFile ==
    /\ life = "destroying" /\ cursor # Null
    /\ cursor' = CursorAfter
    /\ FileDelete(file, cursor)
    /\ UNCHANGED <<fdVars, life>>

\* Lines 386-391.
DestroyDescriptors ==
    /\ life = "destroying" /\ cursor = Null
    /\ life' = "destroyed"
    /\ file_descriptors' = [i \in DOMAIN file_descriptors |-> Null]
    /\ UNCHANGED <<listVars, file_descriptor_count, file_descriptor_capacity, cursor>>

-----------------------------------------------------------------------------
Open ==
    \/ OpenFails
    \/ \E n \in Names : OpenFound(n)
    \/ \E n \in Names, f \in Files : OpenNew(n, f) \/ OpenNewFails(n, f)

Next ==
    \/ Open
    \/ \E fd \in 0 .. file_descriptor_capacity - 1 : Close(fd)
    \/ \E n \in Names : Delete(n)
    \/ DestroyCall \/ DestroyFile \/ DestroyDescriptors

Spec == Init /\ [][Next]_vars
=============================================================================
