SPECIFICATION Spec
CONSTANTS
    Nodes = {n1, n2, n3, n4}
    Elems = {e1, e2}
    NoElem = none
    NULL = null
    MaxCount = 5
CHECK_DEADLOCK FALSE
INVARIANT HeapIsList
PROPERTY FifoSpec
