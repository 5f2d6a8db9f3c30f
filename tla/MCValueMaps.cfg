SPECIFICATION Spec
CONSTANTS
  m1 = m1
  m2 = m2
  m3 = m3
  l1 = l1
  l2 = l2
  l3 = l3
  v1 = v1
  v2 = v2
  Maps <- MCMaps
  Layers <- MCLayers
  Values <- MCValues
  Long = {v1}
  Slots = {s1}
  Names = {n1, n2}
  NoLayer = NoLayer
  Absent = Absent
  Empty = Empty
  Dangling = Dangling
SYMMETRY MCSymmetry
INVARIANTS
  TypeOK
  ContentOwnedOnce
PROPERTIES
  ImplementsFixedMaps
