SPECIFICATION Spec
CONSTANTS
    t1 = t1  t2 = t2
    o1 = o1  o2 = o2
    p1 = p1  p2 = p2  p3 = p3  p4 = p4
    b1 = b1  b2 = b2  b3 = b3
    Threads <- TwoThreads
    Objects <- TwoObjects
    Pointers <- FourPointers
    Blocks <- ThreeBlocks
    Lengths <- SomeLengths
    Classes <- TwoClasses
    Largest = 4
    Null = Null
    NoPointer = NoPointer
    NoBlock = NoBlock
    NoLength = NoLength
SYMMETRY Symmetry
INVARIANTS
    CountIsHolders NoDangling NoLeak
    BlockInOnePlace PageFits
CHECK_DEADLOCK FALSE
