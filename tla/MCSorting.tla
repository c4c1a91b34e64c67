------------------------------ MODULE MCSorting ------------------------------
EXTENDS SortingProperties
\* Of these three numbers of three bits only the difference of the first and the
\* last overflows.
Values == {-4, -1, 2}
\* A file of four numbers or three, and a short one or an empty one.
FileCases ==
    {<<f, <<2, -4>>>> : f \in [1 .. 4 -> Values]}
        \cup {<<f, g>> : f \in [1 .. 3 -> Values], g \in {<<>>, <<-1>>}}
Least == -4
=============================================================================
