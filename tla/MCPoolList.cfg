CONSTANTS
    n1 = n1
    n2 = n2
    n3 = n3
    n4 = n4
    L1 = L1
    L2 = L2
    NULL = NULL
    Nodes <- MCNodes
    Lists <- MCLists
SPECIFICATION Spec
INVARIANT TypeOK
INVARIANT DoublyLinked
INVARIANT ListsPartitionNodes
PROPERTY AbsSpec
