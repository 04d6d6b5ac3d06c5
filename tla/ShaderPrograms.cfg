SPECIFICATION Spec
CONSTANTS
  Shaders = {s1, s2}
  Programs = {p1, p2}
  Types = {"vertex", "fragment", "compute"}
  GLNames = {n1, n2, n3, n4, n5}
  None = None
  MaxRefs = 2
SYMMETRY Symmetry
INVARIANTS TypeOK ProgramsKnowTheirShaders NothingIsOrphaned
PROPERTY LinkedStays
