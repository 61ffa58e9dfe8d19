SPECIFICATION Spec
CONSTANTS
  p1 = p1
  p2 = p2
  q1 = q1
  q2 = q2
  k1 = k1
  k2 = k2
  k3 = k3
  j1 = j1
  j2 = j2
  Absent = Absent
SYMMETRY Symmetric
 
PROPERTIES ImplementsKeyMap TraverseEnds
