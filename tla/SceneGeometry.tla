---------------------------- MODULE SceneGeometry ----------------------------
(***************************************************************************)
(* a3demo_loadGeometry: the meshes of the scene are put behind each other  *)
(* into one split buffer, vertices in section 0, indices in section 1.     *)
(* Drawables with the same vertex format share a vertex array, which knows *)
(* where its first vertex is by a running sum and numbers its vertices     *)
(* itself: every stored index has the number of the mesh's first vertex    *)
(* added to it, in the width of the scene's common index format.           *)
(*                                                                         *)
(* While no scene is loaded the buffer has other users (StorageNext).      *)
(***************************************************************************)
EXTENDS BufferStorage, FiniteSetsExt, Functions, Sequences

CONSTANTS
  Drawn,        \* the drawables, in the order they are loaded
  Arrays,       \* the vertex arrays, one for each vertex format
  ArrayOf,      \* the vertex array of each drawable
  AttribNames,  \* attribute names, 0 .. a3attrib_nameMax - 1
  AttribLists,  \* per array: sequence of [name, elements], 0 elements if disabled
  MeshSizes,    \* <<vertices, indices>> a mesh can have
  Optional,     \* drawables whose mesh comes from a file that may be missing
  IndexRange    \* number of values an index of 1, 2 or 4 bytes has

\* Each is loaded once.  The stand-in for drawing points is not loaded.
ASSUME SceneConstants ==
  /\ Drawn \in Seq(STRING \ {"dummy"}) /\ Len(Drawn) > 0 /\ IsInjective(Drawn)
  /\ ArrayOf \in [Range(Drawn) -> Arrays]
  /\ AttribNames \subseteq Nat /\ IsFiniteSet(AttribNames)
  /\ AttribLists \in [Arrays -> Seq([name : AttribNames, elements : Nat])]
  /\ MeshSizes \subseteq (Nat \ {0}) \X Nat
  /\ IndexRange \in [{1, 2, 4} -> Nat \ {0}]

\* What the order of loading gives: those that share a vertex array come one
\* after another, and the mesh that may be missing comes last.
ASSUME SceneOrder ==
  /\ \A i, j, k \in DOMAIN Drawn : i < j /\ j < k /\ ArrayOf[Drawn[i]] = ArrayOf[Drawn[k]]
                                   => ArrayOf[Drawn[j]] = ArrayOf[Drawn[k]]
  /\ Optional \subseteq {Drawn[Len(Drawn)]}

VARIABLES
  pc,           \* where the loading is: idle, array, vertices, indices, loaded
  at,           \* the drawable it is at
  mesh,         \* the sizes of each drawable's mesh, <<0, 0>> if it is missing
  offset,       \* sharedVertexStorage, counted again while loading
  indexSize,    \* bytes of an index in the common format
  arrays,       \* vertex array descriptors
  drawables     \* vertex drawables

sceneVars == <<pc, at, mesh, offset, indexSize, arrays, drawables>>

Names    == Range(Drawn)
NoMesh   == <<0, 0>>
Verts(d) == mesh[d][1]
Inds(d)  == mesh[d][2]

NoArray    == [live |-> FALSE, offset |-> 0, count |-> 0]
NoDrawable == [live |-> FALSE, indexed |-> FALSE, first |-> 0, count |-> 0,
               base |-> 0, verts |-> 0, id |-> 0]
DrawableDesc == [live : BOOLEAN, indexed : BOOLEAN, first : Nat, count : Nat,
                 base : Nat, verts : Nat, id : Nat]

SceneTypeOK ==
  /\ StorageTypeOK
  /\ pc \in {"idle", "array", "vertices", "indices", "loaded"}
  /\ at \in 0 .. Len(Drawn) + 1
  /\ mesh \in [Names -> MeshSizes \union {NoMesh}]
  /\ offset \in Cells
  /\ indexSize \in {0, 1, 2, 4}
  /\ arrays \in [Arrays -> [live : BOOLEAN, offset : Nat, count : Nat]]
  /\ drawables \in [Names \union {"dummy"} -> DrawableDesc]

SceneInit ==
  /\ StorageInit
  /\ pc = "idle" /\ at = 0
  /\ mesh = [d \in Names |-> NoMesh]
  /\ offset = 0 /\ indexSize = 0
  /\ arrays = [a \in Arrays |-> NoArray]
  /\ drawables = [d \in Names \union {"dummy"} |-> NoDrawable]

------------------------------------------------------------------------------
(* Formats.                                                                 *)

Total(f, S) == MapThenSumSet(LAMBDA x : f[x], S)

Pad4(n) == n + ((4 - (n % 4)) % 4)

\* a3vertexCreateFormatDescriptor: enabled attributes, the first of each name,
\* in the order of their names, each right behind the ones before it.
AttribSize(a, n) ==
  LET list  == AttribLists[a]
      given == {i \in DOMAIN list : list[i].name = n /\ list[i].elements > 0}
  IN IF given = {} THEN 0 ELSE 4 * list[Min(given)].elements

AttribSizes(a) == [n \in AttribNames |-> AttribSize(a, n)]

AttribOffset(a, n) == Total(AttribSizes(a), {m \in AttribNames : m < n})

VertexSize(a) == Total(AttribSizes(a), AttribNames)

\* What a3vertexBufferStore puts into each byte of a block: it steps through the
\* vertices once for every attribute.
Interleaved(a, byte) ==
  LET inVertex == byte % VertexSize(a)
      n == CHOOSE n \in AttribNames : /\ AttribOffset(a, n) <= inVertex
                                      /\ inVertex < AttribOffset(a, n) + AttribSize(a, n)
  IN <<n, byte \div VertexSize(a)>>

VertexStorage(a, count) == Pad4(VertexSize(a) * count)
IndexStorage(bytes, count) == Pad4(bytes * count)

\* The vertices and bytes of each mesh.
VertexCounts(meshes) == [d \in Names |-> meshes[d][1]]
VertexBytes(meshes)  == [d \in Names |-> VertexStorage(ArrayOf[d], meshes[d][1])]
IndexBytes(meshes, bytes) == [d \in Names |-> IndexStorage(bytes, meshes[d][2])]

\* Slip: wide enough for the largest mesh.
IndexFormatOfLargest(meshes) ==
  Min({b \in {1, 2, 4} : IndexRange[b] >= Max({meshes[d][1] : d \in Names}) \/ b = 4})

\* a3geometryCreateIndexFormat: the narrowest index that can number them all.
IndexFormat(meshes) ==
  Min({b \in {1, 2, 4} :
         IndexRange[b] >= Total(VertexCounts(meshes), Names) \/ b = 4})

\* The meshes that are made or read, but for those whose file is missing.
Meshes == {[d \in Names |-> IF d \in missing THEN NoMesh ELSE sizes[d]] :
             sizes \in [Names -> MeshSizes], missing \in SUBSET Optional}

\* Sizes are added and vertices numbered without a test: the scene is far
\* smaller than what 32 bits count.
ASSUME SceneBounds ==
  \A meshes \in Meshes :
    /\ Total(VertexCounts(meshes), Names) <= IndexRange[4]
    /\ Total(VertexBytes(meshes), Names)
       + Total(IndexBytes(meshes, IndexFormat(meshes)), Names) < Width

------------------------------------------------------------------------------
(* Loading.                                                                 *)

VertexTotal(meshes) == Total(VertexBytes(meshes), Names) % Width

\* Slip: the indices are sized as if they were one mesh.
IndexTotalOfOne(meshes, bytes) ==
  IndexStorage(bytes, Total([d \in Names |-> meshes[d][2]], Names)) % Width

IndexTotal(meshes, bytes) == Total(IndexBytes(meshes, bytes), Names) % Width

\* The meshes are made or read, their sizes summed, and the buffer is created.
MakeSceneBuffer(meshes) ==
  LET bytes == IndexFormat(meshes)
  IN /\ pc = "idle" /\ CreateSplit(VertexTotal(meshes), IndexTotal(meshes, bytes))
     /\ mesh' = meshes /\ indexSize' = bytes
     /\ pc' = "array" /\ at' = 1 /\ offset' = 0
     /\ UNCHANGED <<arrays, drawables>>

\* A vertex array is made before the first drawable that uses it.
FirstOfArray(a) == \A i \in 1 .. (at - 1) : ArrayOf[Drawn[i]] # a

\* a3geometryGenerateVertexArray, a3vertexArrayCreateDescriptor: attribute n is
\* found at the array's offset plus AttribOffset, every VertexSize bytes.
GenerateVertexArray ==
  LET a == ArrayOf[Drawn[at]]
  IN /\ pc = "array"
     /\ arrays' = IF FirstOfArray(a) /\ Verts(Drawn[at]) > 0
                  THEN [arrays EXCEPT ![a] = [live |-> TRUE, offset |-> offset, count |-> 0]]
                  ELSE arrays
     /\ pc' = "vertices"
     /\ UNCHANGED <<storageVars, at, mesh, offset, indexSize, drawables>>

Advance ==
  /\ at' = at + 1
  /\ pc' = IF at = Len(Drawn) THEN "loaded" ELSE "array"

\* After the last drawable, whatever became of it: the stand-in for drawing
\* points is a copy of the grid's drawable with a count of 1.
WithDummy(ds) ==
  IF at = Len(Drawn) THEN [ds EXCEPT !["dummy"] = [ds[Drawn[1]] EXCEPT !.count = 1]] ELSE ds

\* The mesh of drawable d is there, its vertex array too, and room for it.
CanStoreVertices(d) ==
  /\ Verts(d) > 0 /\ arrays[ArrayOf[d]].live
  /\ Fits(0, used[0], VertexStorage(ArrayOf[d], Verts(d)))

\* Otherwise a3geometryGenerateDrawable returns -1, and that is added to the
\* running sum like any other size.
GenerateNothing ==
  /\ pc = "vertices"
  /\ ~CanStoreVertices(Drawn[at])
  /\ offset' = (offset + Width - 1) % Width
  /\ drawables' = WithDummy(drawables)
  /\ Advance
  /\ UNCHANGED <<storageVars, mesh, indexSize, arrays>>

\* Its vertices: a3vertexArrayStore.
StoreVertices ==
  LET d == Drawn[at]  a == ArrayOf[d]
  IN /\ pc = "vertices" /\ CanStoreVertices(d)
     /\ Fill(0, VertexStorage(a, Verts(d)))
     /\ drawables' = [drawables EXCEPT ![d] =
          [NoDrawable EXCEPT !.base = arrays[a].count, !.verts = Verts(d), !.id = fills + 1]]
     /\ arrays' = [arrays EXCEPT ![a].count = @ + Verts(d)]
     /\ offset' = Add(offset, VertexStorage(a, Verts(d)))
     /\ pc' = "indices"
     /\ UNCHANGED <<at, mesh, indexSize>>

\* a3indexBufferStore: what becomes of index v of a mesh.
StoredIndex(d, v) == (v + drawables[d].base) % IndexRange[indexSize]

\* Its indices, if it has any and they fit, and the drawable itself.
StoreIndices ==
  LET d     == Drawn[at]
      bytes == IndexStorage(indexSize, Inds(d))
      made(indexed, first, count) ==
        drawables' = WithDummy([drawables EXCEPT ![d].live = TRUE, ![d].indexed = indexed,
                                                 ![d].first = first, ![d].count = count])
  IN /\ pc = "indices"
     /\ CASE Inds(d) = 0 -> /\ made(FALSE, drawables[d].base, Verts(d))
                            /\ UNCHANGED storageVars
          [] Inds(d) > 0 /\ Fits(1, used[1], bytes) -> /\ made(TRUE, used[1], Inds(d))
                                                      /\ Fill(1, bytes)
          [] OTHER       -> drawables' = WithDummy(drawables) /\ UNCHANGED storageVars
     /\ Advance
     /\ UNCHANGED <<mesh, offset, indexSize, arrays>>

OtherUse == pc = "idle" /\ StorageNext /\ UNCHANGED sceneVars

SceneNext ==
  \/ \E meshes \in Meshes : MakeSceneBuffer(meshes)
  \/ GenerateVertexArray
  \/ GenerateNothing
  \/ StoreVertices
  \/ StoreIndices
  \/ OtherUse

SceneSpec == SceneInit /\ [][SceneNext]_<<storageVars, sceneVars>>

------------------------------------------------------------------------------
(* Properties.                                                              *)

\* The numbers of the vertices that drawing d goes through: glDrawElements with
\* the stored indices, which name every vertex of the mesh, or glDrawArrays.
VerticesRead(d) ==
  IF drawables[d].indexed THEN {StoredIndex(d, v) : v \in 0 .. (drawables[d].verts - 1)}
  ELSE drawables[d].first .. (drawables[d].first + drawables[d].count - 1)

VerticesAreOwn ==
  \A d \in {n \in Names : drawables[n].live} :
    LET a     == ArrayOf[d]
        own   == CHOOSE b \in blocks : b.id = drawables[d].id
        vertexAt(x) == arrays[a].offset + x * VertexSize(a) - own.start
    IN /\ Cardinality(VerticesRead(d)) = Verts(d)
       /\ \A x \in VerticesRead(d) : \A n \in AttribNames : AttribSize(a, n) > 0 =>
            LET first == vertexAt(x) + AttribOffset(a, n)
            IN /\ first >= 0
               /\ own.start + first + AttribSize(a, n) <= own.end
               /\ \A byte \in first .. (first + AttribSize(a, n) - 1) :
                    Interleaved(a, byte) = <<n, x - drawables[d].base>>

IndicesAreOwn ==
  \A d \in {n \in DOMAIN drawables : drawables[n].live /\ drawables[n].indexed} :
    \E b \in blocks : /\ b.section = 1 /\ b.id = drawables[d].id + 1
                     /\ Base(1) <= b.start /\ b.start = drawables[d].first
                     /\ drawables[d].first + indexSize * drawables[d].count <= b.end

\* Drawing reads the drawable's own mesh, however many vertices of other meshes
\* lie before it in the buffer, in the array and in the index range: every
\* vertex it comes to is one of its own, found whole in its own data, with each
\* attribute where the vertex array looks for it, and no vertex is left out.
\* The indices it reads are those that were stored for it, and the grid's stand-in
\* reads the first of the grid's.
DrawablesReadTheirOwnData == VerticesAreOwn /\ IndicesAreOwn

\* The sizing pass and the storing pass agree to the byte, padding and missing
\* model included: every mesh that exists is stored and no storage is left over.
SceneFitsExactly ==
  pc = "loaded" => /\ used = split
                   /\ \A d \in Names : drawables[d].live <=> Verts(d) > 0

==============================================================================
