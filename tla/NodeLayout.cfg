SPECIFICATION Spec
CONSTANTS
    Four = 2
    Sixteen = 3
    FortyEight = 5
    Half = 4
INVARIANTS LayoutInv ChildrenInOrder
PROPERTY ImplementsMap
CHECK_DEADLOCK FALSE
