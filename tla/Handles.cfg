CONSTANTS
  Clients = {c1, c2}
  Buffers = {b1, b2}
  VertexArrays = {v1, v2}
  Drawables = {d1, d2}
  GLNames = {1, 2}
  Null = Null
SYMMETRY Symmetry
SPECIFICATION Spec
INVARIANTS NamesAreOwnedOnce NothingHeldNothingLeft CountsAreExact HeldObjectsAreUsable
PROPERTIES ImplementsLifetime
