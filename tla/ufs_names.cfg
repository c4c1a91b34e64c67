\* Three files at a time under two names, up to four descriptors.
CONSTANTS
    Files = {a1, a2, a3}
    Names = {"x", "y"}
    MaxCapacity = 4
    Null = Null
SPECIFICATION Spec
INVARIANTS
    ListHoldsFiles
    RefsDecideLife
PROPERTIES
    DescriptorsKeepFiles
    UniqueUnlessDeletedFirst
\* No function may be called after ufs_destroy.
CHECK_DEADLOCK FALSE
