------------------------------- MODULE MCPages --------------------------------
(* Two threads and two pages, three blocks; classes of 2 and 4 bytes. *)
EXTENDS Pages, TLC

CONSTANTS t1, t2, o1, o2, p1, p2, p3, p4, b1, b2, b3

TwoThreads == {t1, t2}
TwoObjects == {o1, o2}
FourPointers == {p1, p2, p3, p4}
ThreeBlocks == {b1, b2, b3}

TwoClasses == {2, 4}

\* On both sides of the border of each class; 5 is above the largest.
SomeLengths == {2, 3, 5}

Symmetry == Permutations(TwoThreads) \cup Permutations(TwoObjects)
            \cup Permutations(FourPointers) \cup Permutations(ThreeBlocks)
===============================================================================
