CONSTANTS
  Keys = {k1, k2, k3}
  Values = {v1, v2}
  Nodes = {n1, n2, n3, n4}
  Sizes = {0, 1, 2, 3}
  Miss = Miss
SPECIFICATION Spec
INVARIANTS
  TypeOK
  MapMatchesList
PROPERTY
  Implements
SYMMETRY Symmetry
