\* Every input of up to five bytes, fed and popped in any order.
CONSTANTS
    Alphabet <- AllBytes
    MaxFed = 5
SPECIFICATION Spec
INVARIANTS
    ChunksDoNotMatter
    LinesAlternate
PROPERTY PopTakesOneLine
\* Nothing is fed after the bound, and a failed assertion ends the program.
CHECK_DEADLOCK FALSE
