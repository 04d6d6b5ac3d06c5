------------------------------ MODULE Materials ------------------------------
(***************************************************************************)
(* Materials: a uniform buffer and textures that are drawn with together.  *)
(* Several materials share one buffer, each counting as one user of it and *)
(* of its own textures.  The module adds to BufferStorage who holds the    *)
(* buffer, and the driver's bindings that an activation makes.             *)
(***************************************************************************)
EXTENDS BufferStorage, FiniteSetsExt, Sequences

CONSTANTS
  MaterialIds,    \* storage for a3_Material
  Textures,       \* storage for a3_Texture
  NoTexture,      \* the null texture
  Units,          \* texture units
  TextureLists,   \* sequences of [texture, unit] that materials are made from
  DataSizes,      \* dataSize of materials and uploads
  MaxRefs         \* bound on the references of one material

ASSUME MaterialConstants ==
  /\ NoTexture \notin Textures \union MaterialIds /\ IsFiniteSet(MaterialIds)
  /\ Units \subseteq Nat /\ IsFiniteSet(Units) /\ MaxRefs \in Nat \ {0}
  /\ DataSizes \subseteq Nat
  /\ TextureLists \subseteq Seq([texture : Textures \union {NoTexture}, unit : Units])

VARIABLES
  bufferCount,    \* the buffer's references
  ownsBuffer,     \* the application's own reference to it
  textureCount, ownsTexture,
  uniformBuffer,  \* per material: it points to the buffer
  textureList,    \* per material: the texture of each unit it uses
  dataSize, data, \* per material: the size of its data, and whether there is any
  refs,           \* references that the users of a material hold
  boundTextures,  \* driver: the texture of each unit
  active          \* the material activated last

bufferUse    == <<bufferCount, ownsBuffer>>
textureUse   == <<textureCount, ownsTexture>>
materialDesc == <<uniformBuffer, textureList, dataSize, data, refs>>
bindings     == <<boundTextures, active>>
materialVars == <<bufferUse, textureUse, materialDesc, bindings>>

\* How many units of a texture list have texture t.
Uses(list, t) == Cardinality({u \in DOMAIN list : list[u] = t})
Own(t)        == [u \in {0} |-> t]
NoTextures    == [u \in {} |-> NoTexture]
NoMaterial    == NoTexture

ListsByUnit == UNION {[us -> Textures] : us \in SUBSET Units}

MaterialsTypeOK ==
  /\ StorageTypeOK
  /\ bufferCount \in Nat /\ ownsBuffer \in BOOLEAN
  /\ textureCount \in [Textures -> Nat] /\ ownsTexture \subseteq Textures
  /\ uniformBuffer \in [MaterialIds -> BOOLEAN]
  /\ textureList \in [MaterialIds -> ListsByUnit]
  /\ dataSize \in [MaterialIds -> DataSizes \union {0}]
  /\ data \in [MaterialIds -> BOOLEAN]
  /\ refs \in [MaterialIds -> 0 .. MaxRefs]
  /\ boundTextures \in [Units -> Textures \union {NoTexture}]
  /\ active \in MaterialIds \union {NoMaterial}

MaterialsInit ==
  /\ StorageInit
  /\ bufferCount = 0 /\ ownsBuffer = FALSE
  /\ textureCount = [t \in Textures |-> 0] /\ ownsTexture = {}
  /\ uniformBuffer = [m \in MaterialIds |-> FALSE]
  /\ textureList = [m \in MaterialIds |-> NoTextures]
  /\ dataSize = [m \in MaterialIds |-> 0]
  /\ data = [m \in MaterialIds |-> FALSE]
  /\ refs = [m \in MaterialIds |-> 0]
  /\ boundTextures = [u \in Units |-> NoTexture]
  /\ active = NoMaterial

------------------------------------------------------------------------------
(* The buffer and the textures, in the hands of the application.            *)

MakeUniformBuffer(c, filled) ==
  /\ Create(c, filled, 0)
  /\ bufferCount' = 1 /\ ownsBuffer' = TRUE
  /\ UNCHANGED <<textureUse, materialDesc, bindings>>

\* One reference to the buffer goes; the last one empties it.
BufferReleased ==
  /\ bufferCount' = bufferCount - 1
  /\ IF bufferCount = 1 THEN Emptied ELSE UNCHANGED storageVars

LetGoOfBuffer ==
  /\ ownsBuffer /\ BufferReleased
  /\ ownsBuffer' = FALSE
  /\ UNCHANGED <<textureUse, materialDesc, bindings>>

MakeTexture(t) ==
  /\ textureCount[t] = 0
  /\ textureCount' = [textureCount EXCEPT ![t] = 1]
  /\ ownsTexture' = ownsTexture \union {t}
  /\ UNCHANGED <<storageVars, bufferUse, materialDesc, bindings>>

\* A reference to each texture of the list goes, one for every unit; the driver
\* unbinds what is deleted.  A texture that is gone ignores what is left of them.
TexturesReleased(list) ==
  LET left(t) == Max({0, textureCount[t] - Uses(list, t)})
  IN /\ textureCount' = [t \in Textures |-> left(t)]
     /\ boundTextures' = [u \in Units |-> LET t == boundTextures[u]
                                         IN IF t # NoTexture /\ left(t) = 0 THEN NoTexture ELSE t]

LetGoOfTexture(t) ==
  /\ t \in ownsTexture /\ TexturesReleased(Own(t))
  /\ ownsTexture' = ownsTexture \ {t}
  /\ UNCHANGED <<storageVars, bufferUse, materialDesc, active>>

------------------------------------------------------------------------------
(* The life of a material.                                                  *)

\* Entries of the list that are stored: the textures that are initialised, and
\* of several for one unit the first.
Stored(list) ==
  LET usable == {i \in DOMAIN list : /\ list[i].texture # NoTexture
                                     /\ textureCount[list[i].texture] > 0}
      first(u) == Min({i \in usable : list[i].unit = u})
  IN [u \in {list[i].unit : i \in usable} |-> list[first(u)].texture]

\* Slip: the textures are copied and never counted.
ReferencedBufferOnly(list) == bufferCount' = bufferCount + 1 /\ UNCHANGED textureCount

\* a3materialReference: the buffer, and every unit's texture that is alive.
Referenced(list) ==
  /\ bufferCount' = bufferCount + 1
  /\ textureCount' = [t \in Textures |-> IF textureCount[t] > 0 THEN textureCount[t] + Uses(list, t)
                                                               ELSE 0]

MaterialCreate(m, n, given, list) ==
  /\ handle /\ ~uniformBuffer[m] /\ n > 0
  /\ uniformBuffer' = [uniformBuffer EXCEPT ![m] = TRUE]
  /\ textureList' = [textureList EXCEPT ![m] = Stored(list)]
  /\ dataSize' = [dataSize EXCEPT ![m] = n]
  /\ data' = [data EXCEPT ![m] = given]
  /\ Referenced(Stored(list))
  /\ refs' = [refs EXCEPT ![m] = 1]
  /\ UNCHANGED <<storageVars, ownsBuffer, ownsTexture, bindings>>

MaterialReference(m) ==
  /\ refs[m] \in 1 .. (MaxRefs - 1)
  /\ Referenced(textureList[m])
  /\ refs' = [refs EXCEPT ![m] = @ + 1]
  /\ UNCHANGED <<storageVars, ownsBuffer, ownsTexture, uniformBuffer, textureList,
                 dataSize, data, bindings>>

\* The buffer is released first, then the textures; the pointers go only with
\* the buffer's last reference, whoever holds it.
MaterialRelease(m) ==
  /\ refs[m] > 0
  /\ BufferReleased
  /\ TexturesReleased(textureList[m])
  /\ IF bufferCount = 1
     THEN /\ uniformBuffer' = [uniformBuffer EXCEPT ![m] = FALSE]
          /\ textureList' = [textureList EXCEPT ![m] = NoTextures]
     ELSE UNCHANGED <<uniformBuffer, textureList>>
  /\ refs' = [refs EXCEPT ![m] = @ - 1]
  /\ active' = IF active = m /\ refs[m] = 1 THEN NoMaterial ELSE active
  /\ UNCHANGED <<ownsBuffer, ownsTexture, dataSize, data>>

------------------------------------------------------------------------------
(* Its data, and drawing with it.                                           *)

unchangedUse == UNCHANGED <<bufferUse, textureUse>>

MaterialUpload(m) ==
  /\ refs[m] > 0 /\ FillOffset(0, 0, dataSize[m], data[m])
  /\ unchangedUse /\ UNCHANGED <<materialDesc, bindings>>

\* The offset that start stands for is counted from the tail of the buffer.
MaterialUploadSection(m, start, n) ==
  /\ refs[m] > 0 /\ FillOffset(0, start, n, data[m])
  /\ unchangedUse /\ UNCHANGED <<materialDesc, bindings>>

\* The new data is remembered only if there was room for it.
MaterialUploadNew(m, given, n) ==
  /\ refs[m] > 0 /\ FillOffset(0, 0, n, given)
  /\ dataSize' = [dataSize EXCEPT ![m] = n]
  /\ data' = [data EXCEPT ![m] = given]
  /\ unchangedUse /\ UNCHANGED <<uniformBuffer, textureList, refs, bindings>>

\* Slip: only the texture of the first unit is bound.
ActivatedFirstUnit(m) ==
  /\ boundTextures' = [u \in Units |-> IF u \in DOMAIN textureList[m] /\ u = Min(Units)
                                       THEN textureList[m][u] ELSE boundTextures[u]]
  /\ active' = m

\* a3materialInternalActivate: units that the material does not use keep what
\* they have.
Activated(m) ==
  /\ boundTextures' = [u \in Units |-> IF u \in DOMAIN textureList[m]
                                       THEN textureList[m][u] ELSE boundTextures[u]]
  /\ active' = m

MaterialActivate(m) ==
  /\ refs[m] > 0 /\ Activated(m)
  /\ unchangedUse /\ UNCHANGED <<storageVars, materialDesc>>

\* The new data goes to the start of the buffer, past the accounting: what was
\* there is given up, and the tail stays.
MaterialActivateUploadNew(m, given, n) ==
  /\ refs[m] > 0 /\ Activated(m)
  /\ IF n <= size
     THEN /\ content' = Written(0, n, 0)
          /\ blocks' = {b \in blocks : b.start >= n}
          /\ dataSize' = [dataSize EXCEPT ![m] = n]
          /\ data' = [data EXCEPT ![m] = given]
          /\ UNCHANGED <<accountVars, fills>>
     ELSE UNCHANGED <<storageVars, dataSize, data>>
  /\ unchangedUse /\ UNCHANGED <<uniformBuffer, textureList, refs>>

BufferReset ==
  /\ ResetUsed
  /\ unchangedUse /\ UNCHANGED <<materialDesc, bindings>>

MaterialsNext ==
  \/ \E c \in Capacities, filled \in BOOLEAN : MakeUniformBuffer(c, filled)
  \/ LetGoOfBuffer
  \/ \E t \in Textures : MakeTexture(t) \/ LetGoOfTexture(t)
  \/ \E m \in MaterialIds :
       \/ \E n \in DataSizes, given \in BOOLEAN, list \in TextureLists :
            MaterialCreate(m, n, given, list)
       \/ MaterialReference(m)
       \/ MaterialRelease(m)
       \/ fills < MaxFills /\ MaterialUpload(m)
       \/ \E start, n \in Requests : fills < MaxFills /\ MaterialUploadSection(m, start, n)
       \/ \E n \in DataSizes, given \in BOOLEAN :
            \/ fills < MaxFills /\ MaterialUploadNew(m, given, n)
            \/ MaterialActivateUploadNew(m, given, n)
       \/ MaterialActivate(m)
  \/ BufferReset

MaterialsSpec == MaterialsInit /\ [][MaterialsNext]_<<storageVars, materialVars>>

------------------------------------------------------------------------------
(* Properties.                                                              *)

\* One number of each material, in all.
Summed(f) == MapThenSumSet(LAMBDA m : f[m], MaterialIds)

\* What the users of materials hold of texture t: each reference all uses of it.
HeldOf(t) == [m \in MaterialIds |-> refs[m] * Uses(textureList[m], t)]

\* The buffer and the textures count exactly those who use them, through
\* creations with unusable or repeated entries, references and releases in any
\* order: nothing is deleted under a material, and nothing is left over.
CountsAreExact ==
  /\ bufferCount = Summed(refs) + (IF ownsBuffer THEN 1 ELSE 0)
  /\ handle <=> bufferCount > 0
  /\ \A t \in Textures : textureCount[t] = Summed(HeldOf(t)) + (IF t \in ownsTexture THEN 1 ELSE 0)

\* While somebody holds a material, it has its buffer and all of its textures,
\* and if it was activated last the driver still has every one of them in its unit.
HeldMaterialIsComplete ==
  \A m \in MaterialIds : refs[m] > 0 =>
    /\ uniformBuffer[m] /\ handle
    /\ \A u \in DOMAIN textureList[m] : textureCount[textureList[m][u]] > 0
    /\ active = m => \A u \in DOMAIN textureList[m] : boundTextures[u] = textureList[m][u]

==============================================================================
