SPECIFICATION MaterialsSpec
CONSTANTS
  Width = 8
  Capacities = {2}
  Requests = {1}
  MaxFills = 2
  MaterialIds = {m1, m2}
  t1 = t1
  t2 = t2
  Textures = {t1, t2}
  NoTexture = NoTexture
  Units = {0, 1}
  TextureLists <- Lists
  DataSizes = {1, 2}
  MaxRefs = 2
SYMMETRY MaterialSymmetry
INVARIANTS MaterialsTypeOK CountsAreExact HeldMaterialIsComplete
