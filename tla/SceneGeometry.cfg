SPECIFICATION SceneSpec
CONSTANTS
  Width = 512
  Capacities = {1, 3, 4}
  Requests = {1, 2}
  MaxFills = 3
  Drawn <- DemoDrawn
  Arrays <- DemoArrays
  ArrayOf <- DemoArrayOf
  AttribNames <- DemoNames
  AttribLists <- DemoLists
  MeshSizes <- DemoMeshes
  Optional = {"teapot"}
  IndexRange <- DemoRange
INVARIANTS SceneTypeOK DrawablesReadTheirOwnData SceneFitsExactly DataIsKept
PROPERTY ImplementsBlockStore
CHECK_DEADLOCK FALSE
