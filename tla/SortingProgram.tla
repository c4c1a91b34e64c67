---------------------------- MODULE SortingProgram ----------------------------
(***************************************************************************)
(* 1/solution.c: each file is read and sorted by a coroutine of its own,   *)
(* then main merges the sorted arrays and writes them to one file.  The    *)
(* coroutine of file i is the number i; main creates them in this order.   *)
(*                                                                         *)
(* mergesort calls itself and gives up control between the calls, so each  *)
(* coroutine has a stack of frames, the innermost call last.  A frame is   *)
(* the part of the array it was called for and how far it has come.        *)
(* Memory is not shared by coroutines: they meet in the array of results,  *)
(* which main reads when coro_sched_wait has returned NULL.                *)
(***************************************************************************)
EXTENDS Coro, Sequences, SequencesExt

CONSTANTS
    Inputs,             \* the contents of the files, a sequence for each one
    IntMin, IntMax,     \* the range of int
    Unset               \* a variable that nobody has set

ASSUME SortingAssumption ==
    /\ IsFiniteSet(Coros) /\ Coros = 1 .. Cardinality(Coros)
    /\ Inputs \subseteq [Coros -> Seq(IntMin .. IntMax)]
    /\ IntMin \in Int /\ IntMax \in Int /\ Unset \notin Seq(Int)

VARIABLES
    files,          \* what is in the files
    numbers,        \* integers[i]: its numbers, and with them its size
    at,             \* where a coroutine is: "read", "yield", "sort" or "end"
    stack,          \* its calls of mergesort
    result,         \* result_array, Unset once it is anything
    merged,         \* i of main's loop
    written,        \* "no", "yes", or "failed"
    starved         \* history: a malloc of mergesort failed

sortVars == <<numbers, at, stack, starved>>
mainVars == <<result, merged, written>>
vars == <<coroVars, files, sortVars, mainVars>>

Init ==
    /\ CoroInit
    /\ files \in Inputs
    /\ numbers = [c \in Coros |-> Unset]
    /\ at = [c \in Coros |-> "read"]
    /\ stack = [c \in Coros |-> <<>>]
    /\ result = <<>> /\ merged = 0 /\ written = "no" /\ starved = FALSE

-----------------------------------------------------------------------------
(* merge *)

\* int_gt_comparator(a, b) <= 0.  The subtraction may overflow; what the
\* comparator then returns is undefined.
Overflows(a, b) == a - b \notin IntMin .. IntMax
NotGreater(a, b) == IF Overflows(a, b) THEN BOOLEAN ELSE {a <= b}

\* Lines 88-100: one of the sides is used up, the other one is copied.
Rest(left, i, right, j) == SubSeq(left, i, Len(left)) \o SubSeq(right, j, Len(right))

\* What merge may make of two sequences.
Merges(left, right) ==
    LET From[p \in (1 .. Len(left) + 1) \X (1 .. Len(right) + 1)] ==
          LET i == p[1]
              j == p[2]
          IN  IF i > Len(left) \/ j > Len(right)
              THEN {Rest(left, i, right, j)}
              ELSE UNION {IF le THEN {<<left[i]>> \o s : s \in From[<<i + 1, j>>]}
                                ELSE {<<right[j]>> \o s : s \in From[<<i, j + 1>>]}
                          : le \in NotGreater(left[i], right[j])}
    IN  From[<<1, 1>>]

-----------------------------------------------------------------------------
(* mergesort *)

Frame(first, size) == [first |-> first, size |-> size, at |-> "start"]
Top(c) == Last(stack[c])
Middle(f) == f.size \div 2
LeftHalf(f) == Frame(f.first, Middle(f))
RightHalf(f) == Frame(f.first + Middle(f), f.size - Middle(f))

InSort(c, where) ==
    /\ coro_this_ptr = c
    /\ at[c] = "sort" /\ stack[c] # <<>> /\ Top(c).at \in where

\* The innermost call goes on to where, and makes the calls inner.
TopAt(c, where, inner) ==
    stack' = [stack EXCEPT ![c] = Front(@) \o <<[Top(c) EXCEPT !.at = where]>> \o inner]

\* Lines 177-187: up to the call for the left half, or back at once.
SortCalls(c) ==
    /\ InSort(c, {"start"})
    /\ IF Top(c).size <= 1
       THEN TopAt(c, "returns 0", <<>>)
       ELSE TopAt(c, "left", <<LeftHalf(Top(c))>>)
    /\ UNCHANGED <<coroVars, files, numbers, at, starved, mainVars>>

\* A call returns to the one around it.  That one tests the result for the left
\* half; after the right half it tests the result for the left half again.
After(caller, returned) ==
    CASE caller.at = "left" /\ returned = "returns -1" -> "returns -1"
      [] caller.at = "left" /\ returned = "returns 0" -> "yield after left"
      [] caller.at = "right" -> "yield after right"

SortReturns(c) ==
    /\ InSort(c, {"returns 0", "returns -1"})
    /\ LET callers == Front(stack[c])
       IN  IF callers = <<>>
           THEN /\ stack' = [stack EXCEPT ![c] = <<>>]
                /\ at' = [at EXCEPT ![c] = "end"]
           ELSE /\ stack' = [stack EXCEPT ![c] =
                               Front(callers) \o
                               <<[Last(callers) EXCEPT !.at = After(Last(callers), Top(c).at)]>>]
                /\ UNCHANGED at
    /\ UNCHANGED <<coroVars, files, numbers, starved, mainVars>>

SortYields(c) ==
    /\ InSort(c, {"yield after left", "yield after right"})
    /\ PeriodEnd(c)
    /\ IF Top(c).at = "yield after left"
       THEN TopAt(c, "right", <<RightHalf(Top(c))>>)
       ELSE TopAt(c, "merge", <<>>)
    /\ UNCHANGED <<files, numbers, at, starved, mainVars>>

\* Lines 201-210: the halves are merged to temp and copied back.
Part(c, f) == SubSeq(numbers[c], f.first, f.first + f.size - 1)
PutAtFront(c, f, s) == s \o SubSeq(numbers[c], f.size + 1, Len(numbers[c]))
Put(c, f, s) ==
    SubSeq(numbers[c], 1, f.first - 1) \o s \o
        SubSeq(numbers[c], f.first + f.size, Len(numbers[c]))

SortMerges(c) ==
    /\ InSort(c, {"merge"})
    /\ LET f == Top(c)
       IN  \E s \in Merges(Part(c, LeftHalf(f)), Part(c, RightHalf(f))) :
             numbers' = [numbers EXCEPT ![c] = Put(c, f, s)]
    /\ TopAt(c, "returns 0", <<>>)
    /\ UNCHANGED <<coroVars, files, at, starved, mainVars>>

SortMallocFails(c) ==
    /\ InSort(c, {"merge"})
    /\ TopAt(c, "returns -1", <<>>)
    /\ starved' = TRUE
    /\ UNCHANGED <<coroVars, files, numbers, at, mainVars>>

-----------------------------------------------------------------------------
(* coroutine_func_f *)

\* read_file: the array is set when everything has been read.
Read(c) ==
    /\ coro_this_ptr = c /\ at[c] = "read"
    /\ numbers' = [numbers EXCEPT ![c] = files[c]]
    /\ at' = [at EXCEPT ![c] = "yield"]
    /\ UNCHANGED <<coroVars, files, stack, starved, mainVars>>

\* The file cannot be opened or read, or there is no memory.
ReadFails(c) ==
    /\ coro_this_ptr = c /\ at[c] = "read"
    /\ at' = [at EXCEPT ![c] = "end"]
    /\ UNCHANGED <<coroVars, files, numbers, stack, starved, mainVars>>

Sort(c) ==
    /\ coro_this_ptr = c /\ at[c] = "yield"
    /\ PeriodEnd(c)
    /\ at' = [at EXCEPT ![c] = "sort"]
    /\ stack' = [stack EXCEPT ![c] = <<Frame(1, Len(numbers[c]))>>]
    /\ UNCHANGED <<files, numbers, starved, mainVars>>

\* What mergesort returned is not looked at (line 230).
End(c) ==
    /\ at[c] = "end"
    /\ Return(c)
    /\ UNCHANGED <<files, sortVars, mainVars>>

Coroutine(c) ==
    \/ Read(c) \/ ReadFails(c) \/ Sort(c) \/ End(c)
    \/ SortCalls(c) \/ SortReturns(c) \/ SortYields(c) \/ SortMerges(c) \/ SortMallocFails(c)

-----------------------------------------------------------------------------
(* main *)

Created == \A c \in Coros : phase[c] # "absent"

MainCreates(c) ==
    /\ coro_this_ptr = Sched
    /\ \A b \in Coros : b < c => phase[b] # "absent"
    /\ New(c)
    /\ UNCHANGED <<files, sortVars, mainVars>>

MainWaits ==
    /\ Created
    /\ SchedWaits \/ \E c \in Coros : SchedReturns(c)
    /\ UNCHANGED <<files, sortVars, mainVars>>

\* coro_sched_wait has returned NULL.
OneReturned == Created /\ \E c \in Coros : phase[c] = "returned"
NoneIsLeft == Created /\ coro_list = Null

\* One round of main's loop.  If a file was not read, numbers and size are what was
\* in memory; a malloc that fails is not noticed.
MainMerges ==
    /\ coro_this_ptr = Sched /\ NoneIsLeft
    /\ merged < Cardinality(Coros) /\ result # Unset
    /\ LET n == numbers[merged + 1]
       IN  result' \in {Unset} \cup (IF n = Unset THEN {} ELSE Merges(result, n))
    /\ merged' = merged + 1
    /\ UNCHANGED <<coroVars, files, sortVars, written>>

\* write_file.
MainWrites ==
    /\ merged = Cardinality(Coros) /\ result # Unset
    /\ written = "no"
    /\ written' \in {"yes", "failed"}
    /\ UNCHANGED <<coroVars, files, sortVars, result, merged>>

-----------------------------------------------------------------------------
Run ==
    \/ MainWaits \/ MainMerges \/ MainWrites
    \/ \E c \in Coros : MainCreates(c) \/ Coroutine(c)

Next ==
    \/ Run
    \/ \E c \in Coros : Tick(c) /\ UNCHANGED <<files, sortVars, mainVars>>

Spec == Init /\ [][Next]_vars

\* Whoever has control goes on; no time has to pass.
FairSpec == Spec /\ WF_vars(Run)
=============================================================================
