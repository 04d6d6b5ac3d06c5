--------------------------- MODULE MCSceneGeometry ---------------------------
(* Instance of SceneGeometry: the demo's drawables and vertex arrays, with   *)
(* meshes of one or two vertices, attributes of one or two elements, and     *)
(* index widths that hold 8 and 16 values.                                  *)
EXTENDS SceneGeometry

DemoDrawn == <<"grid", "pointlight", "axes", "skybox", "unitquad",
               "plane", "sphere", "cylinder", "torus", "teapot">>
DemoArrays == {"pos", "pos+col", "pos+tex", "tangentBasis"}
DemoArrayOf == [d \in {DemoDrawn[i] : i \in 1 .. 10} |->
  CASE d \in {"grid", "pointlight"}  -> "pos"
    [] d = "axes"                    -> "pos+col"
    [] d \in {"skybox", "unitquad"}  -> "pos+tex"
    [] OTHER                         -> "tangentBasis"]

\* Attributes 0 position, 2 normal, 3 color, 8 texture coordinate.
DemoNames == {0, 2, 3, 8}
Attrib(n, e) == [name |-> n, elements |-> e]
DemoLists ==
  [a \in DemoArrays |->
     CASE a = "pos"     -> <<Attrib(2, 0), Attrib(0, 1)>>
       [] a = "pos+col" -> <<Attrib(3, 2), Attrib(0, 1), Attrib(3, 1)>>
       [] a = "pos+tex" -> <<Attrib(0, 1), Attrib(8, 1)>>
       [] OTHER         -> <<Attrib(0, 1), Attrib(8, 1), Attrib(2, 2)>>]

DemoMeshes == {<<1, 0>>, <<2, 3>>}
DemoRange == [b \in {1, 2, 4} |-> CASE b = 1 -> 8 [] b = 2 -> 16 [] OTHER -> 64]
==============================================================================
