--------------------------- MODULE SortingProperties ---------------------------
(***************************************************************************)
(* What must hold of the program of module SortingProgram.                 *)
(***************************************************************************)
EXTENDS SortingProgram

\* The types of the variables, the links of the coroutines apart.
TypeOK ==
    /\ files \in Inputs
    /\ \A c \in Coros : numbers[c] = Unset \/ numbers[c] \in Seq(IntMin .. IntMax)
    /\ at \in [Coros -> {"read", "yield", "sort", "end"}]
    /\ \A c \in Coros : \A i \in DOMAIN stack[c] :
         stack[c][i].first \in Nat /\ stack[c][i].size \in Nat
    /\ result = Unset \/ result \in Seq(IntMin .. IntMax)
    /\ merged \in 0 .. Cardinality(Coros)
    /\ written \in {"no", "yes", "failed"}
    /\ starved \in BOOLEAN

AllNumbers == FlattenSeq(files)
Comparable ==
    \A i, j \in DOMAIN AllNumbers : ~Overflows(AllNumbers[i], AllNumbers[j])

\* What is written is in ascending order (1/checker.py, 1/task_eng.txt), however
\* the coroutines interleave.  Two premises are needed: the difference of any two
\* numbers is an int, because the comparator subtracts (line 50); and no malloc of
\* mergesort failed, because nobody looks at its result (line 230).
OutputIsSorted ==
    written = "yes" /\ Comparable /\ ~starved => IsSorted(result, <=)

\* What is written is what the files hold, each number as often as there, whatever
\* the comparator answers and whichever malloc of mergesort fails: a part that
\* was not sorted, or only half, is still merged with the rest (lines 187-208).
OutputIsAllInput ==
    /\ TypeOK
    /\ written = "yes" => ToBag(result) = ToBag(AllNumbers)

\* The program comes to its end, with a result or without: every coroutine is
\* given control again until it has sorted its file or failed to, and main does
\* not wait for ever.
ProgramEnds == <>(written # "no" \/ result = Unset)
=============================================================================
