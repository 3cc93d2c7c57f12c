\* The system may stop: nobody has to ask again
SPECIFICATION Spec
CONSTANTS
  c1 = c1
  c2 = c2
  c3 = c3
  Conn <- Three
  Node = {1, 2}
  Src <- Pair
  Dst <- PairDst
  MaxVNI = 3
  MaxLost = 1
  MaxFaults = 1
SYMMETRY Twins
INVARIANTS TypeOK NeverTaken Remembered SameVni
CHECK_DEADLOCK FALSE
