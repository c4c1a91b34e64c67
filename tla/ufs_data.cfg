\* Two descriptors on a file of up to three blocks of two bytes; calls of up
\* to four bytes start and end inside a block, at its edge and two blocks on.
CONSTANTS
    Fds = {d0, d1}
    Bytes = {a, b}
    BlockSize = 2
    MaxFileSize = 5
    MaxCall = 4
    Junk = Junk
    None = None
SPECIFICATION Spec
SYMMETRY Interchangeable
INVARIANTS
    BlocksArePacked
PROPERTY ImplementsFlatFile
