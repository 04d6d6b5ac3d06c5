------------------------- MODULE GraphicsHandles_proofs -------------------------
(* What holds of the counted handles for any number of clients and any      *)
(* finite storage, by invariants of Spec.                                   *)
EXTENDS GraphicsHandles, FiniteSetTheorems, TLAPS

------------------------------------------------------------------------------
(* Helpers: what referencing and releasing does to types.                   *)

\* A drawable's buffers are buffers.
LEMMA UsesType ==
  ASSUME NEW b, NEW vb, NEW ib
  PROVE  Uses(b, vb, ib) \in Nat
  BY DEF Uses

\* A count that is decremented stays a natural number.
LEMMA DecrementType ==
  ASSUME NEW m \in Nat, NEW n \in Nat
  PROVE  Decrement(m, n) \in Nat
  BY DEF Decrement

\* References to buffers leave handles and names alone.
LEMMA ReferenceBuffersType ==
  ASSUME TypeOK, NEW vb, NEW ib, ReferenceBuffers(vb, ib)
  PROVE  /\ bufHandle' \in [Buffers -> GLNames \cup {0}]
         /\ bufRefs' \in [Buffers -> Nat]
         /\ glBuffers' \subseteq GLNames
  BY UsesType DEF TypeOK, ReferenceBuffers

\* Releases of buffers keep counts natural numbers, and handles names.
LEMMA ReleaseBuffersType ==
  ASSUME TypeOK, NEW vb, NEW ib, ReleaseBuffers(vb, ib)
  PROVE  /\ bufHandle' \in [Buffers -> GLNames \cup {0}]
         /\ bufRefs' \in [Buffers -> Nat]
         /\ glBuffers' \subseteq GLNames
<1>1. ASSUME NEW b \in Buffers
      PROVE  Decrement(bufRefs[b], Uses(b, vb, ib)) \in Nat
  <2>1. bufRefs[b] \in Nat
    BY DEF TypeOK
  <2>2. Uses(b, vb, ib) \in Nat
    BY UsesType
  <2> QED
    BY <2>1, <2>2, DecrementType
<1> QED
  BY <1>1 DEF TypeOK, ReleaseBuffers

\* So does the release of a vertex array.
LEMMA ReleaseArrayType ==
  ASSUME TypeOK, NEW v \in VertexArrays, ReleaseArray(v)
  PROVE  /\ vaoHandle' \in [VertexArrays -> GLNames \cup {0}]
         /\ vaoRefs' \in [VertexArrays -> Nat]
         /\ vaoBuffer' \in [VertexArrays -> Buffers \cup {Null}]
         /\ glArrays' \subseteq GLNames
<1>1. Decrement(vaoRefs[v], 1) \in Nat
  BY DecrementType DEF TypeOK
<1> QED
  BY <1>1 DEF TypeOK, ReleaseArray

\* A drawable takes references and nothing else.
LEMMA ReferenceDrawablePartsType ==
  ASSUME TypeOK, NEW v \in VertexArrays, NEW ib, ReferenceDrawableParts(v, ib)
  PROVE  /\ bufHandle' \in [Buffers -> GLNames \cup {0}]
         /\ bufRefs' \in [Buffers -> Nat]
         /\ glBuffers' \subseteq GLNames
         /\ vaoRefs' \in [VertexArrays -> Nat]
         /\ UNCHANGED <<bufHeld, vaoHandle, vaoBuffer, vaoHeld, glArrays>>
<1>1. ReferenceBuffers(vaoBuffer[v], ib)
  BY DEF ReferenceDrawableParts
<1> QED
  BY <1>1, ReferenceBuffersType DEF ReferenceDrawableParts, TypeOK

------------------------------------------------------------------------------
\* Counts stay natural numbers, pointers stay in the storage and the driver
\* only ever has names it can give.
THEOREM TypeCorrect == Spec => []TypeOK
<1>1. Init => TypeOK
  BY HandleConstants DEF Init, TypeOK
<1>2. TypeOK /\ [Next]_vars => TypeOK'
  <2> SUFFICES ASSUME TypeOK, [Next]_vars PROVE TypeOK'
    OBVIOUS
  <2> USE DEF bufVars, vaoVars, drwVars
  <2>1. CASE UNCHANGED vars
    BY <2>1 DEF TypeOK, vars
  <2>2. ASSUME NEW c \in Clients, NEW b \in Buffers, CreateBuffer(c, b) PROVE TypeOK'
    BY <2>2 DEF TypeOK, CreateBuffer
  <2>3. ASSUME NEW c \in Clients, NEW b \in Buffers, ReferenceBuffer(c, b) PROVE TypeOK'
    BY <2>3, ReferenceBuffersType DEF TypeOK, ReferenceBuffer
  <2>4. ASSUME NEW c \in Clients, NEW b \in Buffers, ReleaseBuffer(c, b) PROVE TypeOK'
    BY <2>4, ReleaseBuffersType DEF TypeOK, ReleaseBuffer
  <2>5. ASSUME NEW c \in Clients, NEW v \in VertexArrays, NEW b \in Buffers,
               CreateVertexArray(c, v, b)
        PROVE  TypeOK'
    BY <2>5, ReferenceBuffersType DEF TypeOK, CreateVertexArray
  <2>6. ASSUME NEW c \in Clients, NEW v \in VertexArrays, ReferenceVertexArray(c, v)
        PROVE  TypeOK'
    BY <2>6, ReferenceBuffersType DEF TypeOK, ReferenceVertexArray
  <2>7. ASSUME NEW c \in Clients, NEW v \in VertexArrays, ReleaseVertexArray(c, v)
        PROVE  TypeOK'
    BY <2>7, ReleaseBuffersType, ReleaseArrayType DEF TypeOK, ReleaseVertexArray
  <2>8. ASSUME NEW c \in Clients, NEW d \in Drawables, NEW v \in VertexArrays,
               NEW ib \in Buffers \cup {Null}, CreateDrawable(c, d, v, ib)
        PROVE  TypeOK'
    BY <2>8, ReferenceDrawablePartsType DEF TypeOK, CreateDrawable
  <2>9. ASSUME NEW c \in Clients, NEW d \in Drawables, ReferenceDrawable(c, d)
        PROVE  TypeOK'
    <3>1. drwArray[d] \in VertexArrays
      BY <2>9 DEF TypeOK, ReferenceDrawable
    <3> QED
      BY <2>9, <3>1, ReferenceDrawablePartsType DEF TypeOK, ReferenceDrawable
  <2>10. ASSUME NEW c \in Clients, NEW d \in Drawables, ReleaseDrawable(c, d)
         PROVE  TypeOK'
    <3>1. drwArray[d] \in VertexArrays
      BY <2>10 DEF TypeOK, ReleaseDrawable
    <3> QED
      BY <2>10, <3>1, ReleaseBuffersType, ReleaseArrayType DEF TypeOK, ReleaseDrawable
  <2> QED
    BY <2>1, <2>2, <2>3, <2>4, <2>5, <2>6, <2>7, <2>8, <2>9, <2>10
    DEF Next, BufferStep, VertexArrayStep, DrawableStep
<1> QED
  BY <1>1, <1>2, PTL DEF Spec

------------------------------------------------------------------------------
(* Driver names.  The two halves of NamesAreOwnedOnce, one per name space.   *)

BufferNames ==
  /\ glBuffers = {bufHandle[b] : b \in Buffers} \ {0}
  /\ \A a, b \in Buffers : a # b /\ bufHandle[a] = bufHandle[b] => bufHandle[a] = 0

ArrayNames ==
  /\ glArrays = {vaoHandle[v] : v \in VertexArrays} \ {0}
  /\ \A a, b \in VertexArrays : a # b /\ vaoHandle[a] = vaoHandle[b] => vaoHandle[a] = 0

\* A new buffer gets a name that no other has.
LEMMA NewBufferName ==
  ASSUME TypeOK, BufferNames, NEW c \in Clients, NEW b \in Buffers, CreateBuffer(c, b)
  PROVE  BufferNames'
<1> PICK name \in GLNames \ glBuffers :
      /\ bufHandle' = [bufHandle EXCEPT ![b] = name]
      /\ glBuffers' = glBuffers \cup {name}
  BY DEF CreateBuffer
<1>1. bufHandle[b] = 0 /\ name # 0
  BY HandleConstants DEF CreateBuffer
<1>2. \A x \in Buffers : bufHandle'[x] = IF x = b THEN name ELSE bufHandle[x]
  BY DEF TypeOK
<1>3. \A x \in Buffers : bufHandle[x] # name
  BY <1>1 DEF BufferNames
<1> QED
  BY <1>1, <1>2, <1>3 DEF BufferNames

\* The names of buffers that die go from the driver, and no others.
LEMMA ReleasedBufferNames ==
  ASSUME TypeOK, BufferNames, NEW vb, NEW ib, ReleaseBuffers(vb, ib)
  PROVE  BufferNames'
<1> DEFINE dying == {x \in Buffers : BufferDies(x, vb, ib)}
<1>1. \A x \in Buffers : bufHandle'[x] = IF x \in dying THEN 0 ELSE bufHandle[x]
  BY DEF ReleaseBuffers
<1>2. glBuffers' = glBuffers \ {bufHandle[x] : x \in dying}
  BY DEF ReleaseBuffers
<1>3. \A x \in dying : x \in Buffers /\ bufHandle[x] # 0
  BY DEF BufferDies
<1> HIDE DEF dying
<1> QED
  BY <1>1, <1>2, <1>3 DEF BufferNames

\* A new vertex array gets a name that no other has.
LEMMA NewArrayName ==
  ASSUME TypeOK, ArrayNames, NEW c \in Clients, NEW v \in VertexArrays, NEW b \in Buffers,
         CreateVertexArray(c, v, b)
  PROVE  ArrayNames'
<1> PICK name \in GLNames \ glArrays :
      /\ vaoHandle' = [vaoHandle EXCEPT ![v] = name]
      /\ glArrays' = glArrays \cup {name}
  BY DEF CreateVertexArray
<1>1. vaoHandle[v] = 0 /\ name # 0
  BY HandleConstants DEF CreateVertexArray
<1>2. \A x \in VertexArrays : vaoHandle'[x] = IF x = v THEN name ELSE vaoHandle[x]
  BY DEF TypeOK
<1>3. \A x \in VertexArrays : vaoHandle[x] # name
  BY <1>1 DEF ArrayNames
<1> QED
  BY <1>1, <1>2, <1>3 DEF ArrayNames

\* The name of a vertex array that dies goes from the driver.
LEMMA ReleasedArrayName ==
  ASSUME TypeOK, ArrayNames, NEW v \in VertexArrays, ReleaseArray(v)
  PROVE  ArrayNames'
<1> DEFINE vaoDies == vaoHandle[v] # 0 /\ vaoRefs[v] <= 1
<1>1. \A x \in VertexArrays :
        vaoHandle'[x] = IF x = v /\ vaoDies THEN 0 ELSE vaoHandle[x]
  BY DEF ReleaseArray, TypeOK
<1>2. glArrays' = IF vaoDies THEN glArrays \ {vaoHandle[v]} ELSE glArrays
  BY DEF ReleaseArray
<1> QED
  BY <1>1, <1>2 DEF ArrayNames

\* No name is leaked or shared: a create takes a name that nobody has, and a
\* death gives back exactly the names whose handles are zeroed.
THEOREM NamesOwned == Spec => []NamesAreOwnedOnce
<1>1. Init => BufferNames /\ ArrayNames
  BY DEF Init, BufferNames, ArrayNames
<1>2. TypeOK /\ BufferNames /\ ArrayNames /\ [Next]_vars => BufferNames' /\ ArrayNames'
  <2> SUFFICES ASSUME TypeOK, BufferNames, ArrayNames, [Next]_vars
               PROVE  BufferNames' /\ ArrayNames'
    OBVIOUS
  <2> DEFINE BuffersKept == UNCHANGED <<bufHandle, glBuffers>>
             ArraysKept  == UNCHANGED <<vaoHandle, glArrays>>
  <2>1. BuffersKept => BufferNames'
    BY DEF BufferNames
  <2>2. ArraysKept => ArrayNames'
    BY DEF ArrayNames
  <2>3. CASE UNCHANGED vars
    BY <2>1, <2>2, <2>3 DEF vars, bufVars, vaoVars
  <2>4. ASSUME NEW c \in Clients, NEW b \in Buffers, BufferStep(c, b)
        PROVE  BufferNames' /\ ArrayNames'
    <3>1. CASE CreateBuffer(c, b)
      BY <2>2, <3>1, NewBufferName DEF CreateBuffer, vaoVars
    <3>2. CASE ReferenceBuffer(c, b)
      BY <2>1, <2>2, <3>2 DEF ReferenceBuffer, ReferenceBuffers, vaoVars
    <3>3. CASE ReleaseBuffer(c, b)
      BY <2>2, <3>3, ReleasedBufferNames DEF ReleaseBuffer, vaoVars
    <3> QED
      BY <2>4, <3>1, <3>2, <3>3 DEF BufferStep
  <2>5. ASSUME NEW c \in Clients, NEW v \in VertexArrays, VertexArrayStep(c, v)
        PROVE  BufferNames' /\ ArrayNames'
    <3>1. ASSUME NEW b \in Buffers, CreateVertexArray(c, v, b)
          PROVE  BufferNames' /\ ArrayNames'
      BY <2>1, <3>1, NewArrayName DEF CreateVertexArray, ReferenceBuffers
    <3>2. CASE ReferenceVertexArray(c, v)
      BY <2>1, <2>2, <3>2 DEF ReferenceVertexArray, ReferenceBuffers
    <3>3. CASE ReleaseVertexArray(c, v)
      BY <3>3, ReleasedBufferNames, ReleasedArrayName DEF ReleaseVertexArray
    <3> QED
      BY <2>5, <3>1, <3>2, <3>3 DEF VertexArrayStep
  <2>6. ASSUME NEW c \in Clients, NEW d \in Drawables, DrawableStep(c, d)
        PROVE  BufferNames' /\ ArrayNames'
    <3>1. ASSUME NEW v \in VertexArrays, NEW ib \in Buffers \cup {Null},
                 CreateDrawable(c, d, v, ib)
          PROVE  BufferNames' /\ ArrayNames'
      BY <2>1, <2>2, <3>1 DEF CreateDrawable, ReferenceDrawableParts, ReferenceBuffers
    <3>2. CASE ReferenceDrawable(c, d)
      BY <2>1, <2>2, <3>2 DEF ReferenceDrawable, ReferenceDrawableParts, ReferenceBuffers
    <3>3. CASE ReleaseDrawable(c, d)
      <4>1. drwArray[d] \in VertexArrays
        BY <3>3 DEF TypeOK, ReleaseDrawable
      <4> QED
        BY <3>3, <4>1, ReleasedBufferNames, ReleasedArrayName DEF ReleaseDrawable
    <3> QED
      BY <2>6, <3>1, <3>2, <3>3 DEF DrawableStep
  <2> QED
    BY <2>3, <2>4, <2>5, <2>6 DEF Next
<1>3. BufferNames /\ ArrayNames => NamesAreOwnedOnce
  BY DEF BufferNames, ArrayNames, NamesAreOwnedOnce
<1> QED
  BY TypeCorrect, <1>1, <1>2, <1>3, PTL DEF Spec

------------------------------------------------------------------------------
(* Counting.  CountsAreExact is not inductive alone: a released VAO passes   *)
(* its references on through vaoBuffer, so that pointer has to be there as   *)
(* long as the VAO is, and a held drawable has to have its VAO.              *)

Linked ==
  /\ \A v \in VertexArrays : vaoHandle[v] = 0 <=> vaoBuffer[v] = Null
  /\ \A d \in Drawables : drwHeld[d] # {} => drwArray[d] # Null

\* The sets that the counts stand for are finite.
LEMMA UseSetsFinite ==
  ASSUME TypeOK
  PROVE  /\ \A v \in VertexArrays : IsFiniteSet(vaoHeld[v]) /\ IsFiniteSet(DrawableUses(v))
         /\ \A b \in Buffers : /\ IsFiniteSet(bufHeld[b]) /\ IsFiniteSet(ArrayUses(b))
                               /\ IsFiniteSet(DrawableArrayUses(b)) /\ IsFiniteSet(IndexUses(b))
<1>1. IsFiniteSet(Clients \X VertexArrays) /\ IsFiniteSet(Clients \X Drawables)
  BY FS_Product, HandleConstants
<1>2. \A v \in VertexArrays : vaoHeld[v] \in SUBSET Clients
  BY DEF TypeOK
<1>3. \A b \in Buffers : bufHeld[b] \in SUBSET Clients
  BY DEF TypeOK
<1>4. \A v : DrawableUses(v) \in SUBSET (Clients \X Drawables)
  BY DEF DrawableUses
<1>5. \A b : /\ ArrayUses(b) \in SUBSET (Clients \X VertexArrays)
             /\ DrawableArrayUses(b) \in SUBSET (Clients \X Drawables)
             /\ IndexUses(b) \in SUBSET (Clients \X Drawables)
  BY DEF ArrayUses, DrawableArrayUses, IndexUses
<1>6. ASSUME NEW S, IsFiniteSet(S), NEW T \in SUBSET S PROVE IsFiniteSet(T)
  BY <1>6, FS_Subset
<1>7. \A v \in VertexArrays : IsFiniteSet(vaoHeld[v]) /\ IsFiniteSet(DrawableUses(v))
  BY <1>1, <1>2, <1>4, <1>6, HandleConstants
<1>8. \A b \in Buffers : /\ IsFiniteSet(bufHeld[b]) /\ IsFiniteSet(ArrayUses(b))
                         /\ IsFiniteSet(DrawableArrayUses(b)) /\ IsFiniteSet(IndexUses(b))
  BY <1>1, <1>3, <1>5, <1>6, HandleConstants
<1> QED
  BY <1>7, <1>8

\* So each of them has a natural number as its size.
LEMMA UseSetsCounted ==
  ASSUME TypeOK
  PROVE  /\ \A v \in VertexArrays : /\ Cardinality(vaoHeld[v]) \in Nat
                                    /\ Cardinality(DrawableUses(v)) \in Nat
         /\ \A b \in Buffers : /\ Cardinality(bufHeld[b]) \in Nat
                               /\ Cardinality(ArrayUses(b)) \in Nat
                               /\ Cardinality(DrawableArrayUses(b)) \in Nat
                               /\ Cardinality(IndexUses(b)) \in Nat
  BY UseSetsFinite, FS_CardinalityType

\* An object nobody refers to is not in use anywhere.
LEMMA UnreferencedArray ==
  ASSUME TypeOK, NEW v \in VertexArrays, ArrayReferences(v) = 0
  PROVE  vaoHeld[v] = {} /\ DrawableUses(v) = {}
  BY UseSetsFinite, UseSetsCounted, FS_EmptySet DEF ArrayReferences

\* A buffer without references is used by nobody.
LEMMA UnreferencedBuffer ==
  ASSUME TypeOK, NEW b \in Buffers, BufferReferences(b) = 0
  PROVE  /\ bufHeld[b] = {} /\ ArrayUses(b) = {}
         /\ DrawableArrayUses(b) = {} /\ IndexUses(b) = {}
<1>1. /\ Cardinality(bufHeld[b]) = 0 /\ Cardinality(ArrayUses(b)) = 0
      /\ Cardinality(DrawableArrayUses(b)) = 0 /\ Cardinality(IndexUses(b)) = 0
  <2>1. /\ Cardinality(bufHeld[b]) \in Nat /\ Cardinality(ArrayUses(b)) \in Nat
        /\ Cardinality(DrawableArrayUses(b)) \in Nat /\ Cardinality(IndexUses(b)) \in Nat
    BY UseSetsCounted
  <2> QED
    BY <2>1 DEF BufferReferences
<1>2. ASSUME NEW S, IsFiniteSet(S), Cardinality(S) = 0 PROVE S = {}
  BY <1>2, FS_EmptySet
<1> QED
  BY <1>1, <1>2, UseSetsFinite

\* Every reference to a VAO is one to the buffer it reads.
LEMMA ArrayCountBound ==
  ASSUME TypeOK, CountsAreExact, NEW v \in VertexArrays, vaoBuffer[v] \in Buffers
  PROVE  vaoRefs[v] <= bufRefs[vaoBuffer[v]]
<1> DEFINE b == vaoBuffer[v]
<1>1. Cardinality(vaoHeld[v]) <= Cardinality(ArrayUses(b))
  <2> DEFINE f == [c \in vaoHeld[v] |-> <<c, v>>]
  <2>1. f \in Injection(vaoHeld[v], ArrayUses(b))
    <3>1. f \in [vaoHeld[v] -> ArrayUses(b)]
      BY DEF TypeOK, ArrayUses
    <3> QED
      BY <3>1 DEF Injection, IsInjective
  <2> QED
    BY <2>1, FS_Injection, UseSetsFinite
<1>2. Cardinality(DrawableUses(v)) <= Cardinality(DrawableArrayUses(b))
  <2>1. DrawableUses(v) \in SUBSET DrawableArrayUses(b)
    BY HandleConstants DEF DrawableUses, DrawableArrayUses
  <2> QED
    BY <2>1, FS_Subset, UseSetsFinite
<1>3. vaoRefs[v] = Cardinality(vaoHeld[v]) + Cardinality(DrawableUses(v))
  BY DEF CountsAreExact, ArrayReferences
<1>4. bufRefs[b] = Cardinality(bufHeld[b]) + Cardinality(ArrayUses(b))
                     + Cardinality(DrawableArrayUses(b)) + Cardinality(IndexUses(b))
  BY DEF CountsAreExact, BufferReferences
<1> QED
  BY <1>1, <1>2, <1>3, <1>4, UseSetsCounted

BufferCounted(b) ==
  bufRefs[b] = BufferReferences(b) /\ (bufHandle[b] = 0 <=> bufRefs[b] = 0)

ArrayCounted(v) ==
  vaoRefs[v] = ArrayReferences(v) /\ (vaoHandle[v] = 0 <=> vaoRefs[v] = 0)

\* References are counted by natural numbers.
LEMMA ReferencesType ==
  ASSUME TypeOK
  PROVE  /\ \A v \in VertexArrays : ArrayReferences(v) \in Nat
         /\ \A b \in Buffers : BufferReferences(b) \in Nat
<1>1. ASSUME NEW v \in VertexArrays PROVE ArrayReferences(v) \in Nat
  BY UseSetsCounted DEF ArrayReferences
<1>2. ASSUME NEW b \in Buffers PROVE BufferReferences(b) \in Nat
  <2>1. /\ Cardinality(bufHeld[b]) \in Nat /\ Cardinality(ArrayUses(b)) \in Nat
        /\ Cardinality(DrawableArrayUses(b)) \in Nat /\ Cardinality(IndexUses(b)) \in Nat
    BY UseSetsCounted
  <2> QED
    BY <2>1 DEF BufferReferences
<1> QED
  BY <1>1, <1>2

\* The count follows the references when they are added ...
LEMMA ReferencedBufferCounted ==
  ASSUME TypeOK, NEW vb, NEW ib, ReferenceBuffers(vb, ib),
         NEW b \in Buffers, BufferCounted(b),
         Uses(b, vb, ib) # 0 => bufHandle[b] # 0,
         BufferReferences(b)' = BufferReferences(b) + Uses(b, vb, ib)
  PROVE  BufferCounted(b)'
<1>1. Uses(b, vb, ib) \in Nat /\ BufferReferences(b) \in Nat
  BY UsesType, ReferencesType
<1>2. bufRefs'[b] = IF bufHandle[b] # 0 THEN bufRefs[b] + Uses(b, vb, ib) ELSE bufRefs[b]
  BY DEF ReferenceBuffers
<1>3. bufHandle'[b] = bufHandle[b]
  BY DEF ReferenceBuffers
<1> QED
  BY <1>1, <1>2, <1>3 DEF BufferCounted

\* ... and when they are taken away, and the handle dies with the last one.
LEMMA ReleasedBufferCounted ==
  ASSUME TypeOK, NEW vb, NEW ib, ReleaseBuffers(vb, ib),
         NEW b \in Buffers, BufferCounted(b),
         Uses(b, vb, ib) <= BufferReferences(b),
         BufferReferences(b)' = BufferReferences(b) - Uses(b, vb, ib)
  PROVE  BufferCounted(b)'
<1>1. Uses(b, vb, ib) \in Nat /\ BufferReferences(b) \in Nat
  BY UsesType, ReferencesType
<1>2. bufRefs'[b] = Decrement(bufRefs[b], Uses(b, vb, ib))
  BY DEF ReleaseBuffers
<1>3. bufHandle'[b] = IF BufferDies(b, vb, ib) THEN 0 ELSE bufHandle[b]
  BY DEF ReleaseBuffers
<1>4. bufRefs'[b] = BufferReferences(b) - Uses(b, vb, ib)
  BY <1>1, <1>2 DEF Decrement, BufferCounted
<1>5. BufferDies(b, vb, ib) <=> bufHandle[b] # 0 /\ bufRefs'[b] = 0
  BY <1>1, <1>4 DEF BufferDies, BufferCounted
<1> QED
  BY <1>1, <1>3, <1>4, <1>5 DEF BufferCounted

\* The count of a vertex array follows when one reference goes.
LEMMA ReleasedArrayCounted ==
  ASSUME TypeOK, NEW v \in VertexArrays, ReleaseArray(v), NEW x \in VertexArrays, ArrayCounted(x),
         ArrayReferences(x)' = IF x = v THEN ArrayReferences(x) - 1 ELSE ArrayReferences(x),
         ArrayReferences(v) # 0
  PROVE  ArrayCounted(x)'
<1>1. ArrayReferences(x) \in Nat
  BY ReferencesType
<1>2. CASE x # v
  BY <1>2 DEF ReleaseArray, ArrayCounted, TypeOK
<1>3. CASE x = v
  <2>1. vaoRefs'[v] = Decrement(vaoRefs[v], 1)
    BY DEF ReleaseArray, TypeOK
  <2>2. vaoHandle'[v] = IF vaoHandle[v] # 0 /\ vaoRefs[v] <= 1 THEN 0 ELSE vaoHandle[v]
    BY DEF ReleaseArray, TypeOK
  <2> QED
    BY <1>1, <1>3, <2>1, <2>2 DEF ArrayCounted, Decrement
<1> QED
  BY <1>2, <1>3

\* A VAO that is referred to is there, and so is its buffer.
LEMMA ReferredArrayIsLive ==
  ASSUME TypeOK, CountsAreExact, Linked, NEW v \in VertexArrays, ArrayReferences(v) # 0
  PROVE  /\ vaoHandle[v] # 0
         /\ vaoBuffer[v] \in Buffers
         /\ bufHandle[vaoBuffer[v]] # 0
<1>1. vaoHandle[v] # 0 /\ vaoRefs[v] > 0
  BY DEF CountsAreExact, TypeOK
<1>2. vaoBuffer[v] \in Buffers
  BY <1>1 DEF Linked, TypeOK
<1>3. vaoRefs[v] <= bufRefs[vaoBuffer[v]]
  BY <1>2, ArrayCountBound
<1> QED
  BY <1>1, <1>2, <1>3 DEF CountsAreExact, TypeOK

\* Its buffer does not die in the VAO's release unless the VAO does: the other
\* references to the VAO are references to the buffer too.
LEMMA ReleasedArrayLinks ==
  ASSUME TypeOK, CountsAreExact, Linked, NEW v \in VertexArrays, ReleaseArray(v),
         ArrayReferences(v) # 0
  PROVE  /\ vaoBuffer' = [vaoBuffer EXCEPT ![v] = IF vaoRefs[v] = 1 THEN Null ELSE @]
         /\ vaoHandle' = [vaoHandle EXCEPT ![v] = IF vaoRefs[v] = 1 THEN 0 ELSE @]
<1>1. vaoHandle[v] # 0 /\ vaoRefs[v] \in Nat \ {0}
  BY DEF CountsAreExact, TypeOK
<1>2. vaoRefs[v] <= bufRefs[vaoBuffer[v]]
  BY ReferredArrayIsLive, ArrayCountBound
<1>3. BufferDies(vaoBuffer[v], vaoBuffer[v], Null) => bufRefs[vaoBuffer[v]] <= 1
  BY ReferredArrayIsLive, HandleConstants DEF BufferDies, Uses
<1>4. bufRefs[vaoBuffer[v]] \in Nat
  BY ReferredArrayIsLive DEF TypeOK
<1>5. vaoBuffer[v] # Null
  BY ReferredArrayIsLive, HandleConstants
<1>6. vaoRefs[v] <= 1 <=> vaoRefs[v] = 1
  BY <1>1
<1>7. BufferDies(vaoBuffer[v], vaoBuffer[v], Null) => vaoRefs[v] = 1
  BY <1>1, <1>2, <1>3, <1>4
<1> QED
  BY <1>1, <1>5, <1>6, <1>7 DEF ReleaseArray

------------------------------------------------------------------------------
(* Each group of steps keeps the counts exact and the links in place.        *)

\* Calls on buffers keep the counts exact.
LEMMA BufferStepCounts ==
  ASSUME TypeOK, CountsAreExact, Linked, NEW c \in Clients, NEW b \in Buffers, BufferStep(c, b)
  PROVE  CountsAreExact' /\ Linked'
<1>1. UNCHANGED <<vaoVars, drwVars>>
  BY DEF BufferStep, CreateBuffer, ReferenceBuffer, ReleaseBuffer
<1>2. Linked'
  BY <1>1 DEF Linked, vaoVars, drwVars
<1>3. \A v \in VertexArrays : ArrayCounted(v)'
  BY <1>1 DEF CountsAreExact, ArrayCounted, ArrayReferences, DrawableUses, vaoVars, drwVars
<1>4. \A x \in Buffers : /\ ArrayUses(x)' = ArrayUses(x)
                         /\ DrawableArrayUses(x)' = DrawableArrayUses(x)
                         /\ IndexUses(x)' = IndexUses(x)
  BY <1>1 DEF ArrayUses, DrawableArrayUses, IndexUses, vaoVars, drwVars
<1>5. ASSUME NEW x \in Buffers PROVE BufferCounted(x)'
  <2>1. BufferCounted(x)
    BY DEF CountsAreExact, BufferCounted
  <2>2. Uses(x, b, Null) = IF x = b THEN 1 ELSE 0
    BY HandleConstants DEF Uses
  <2>3. /\ Cardinality(bufHeld[x]) \in Nat /\ Cardinality(ArrayUses(x)) \in Nat
        /\ Cardinality(DrawableArrayUses(x)) \in Nat /\ Cardinality(IndexUses(x)) \in Nat
    BY UseSetsCounted
  <2>4. /\ BufferReferences(x)' = Cardinality(bufHeld'[x]) + Cardinality(ArrayUses(x))
                                    + Cardinality(DrawableArrayUses(x)) + Cardinality(IndexUses(x))
        /\ BufferReferences(x) = Cardinality(bufHeld[x]) + Cardinality(ArrayUses(x))
                                    + Cardinality(DrawableArrayUses(x)) + Cardinality(IndexUses(x))
    BY <1>4 DEF BufferReferences
  <2>5. IsFiniteSet(bufHeld[x])
    BY UseSetsFinite
  <2>6. CASE CreateBuffer(c, b)
    <3>1. CASE x = b
      <4>1. BufferReferences(b) = 0
        BY <2>1, <2>6, <3>1 DEF BufferCounted, CreateBuffer
      <4>2. bufHeld'[b] = bufHeld[b] \cup {c} /\ c \notin bufHeld[b]
        BY <2>6, <4>1, UnreferencedBuffer DEF CreateBuffer, TypeOK
      <4>3. Cardinality(bufHeld'[x]) = Cardinality(bufHeld[x]) + 1
        BY <2>5, <3>1, <4>2, FS_AddElement
      <4>4. BufferReferences(x)' = 1
        BY <2>3, <2>4, <3>1, <4>1, <4>3
      <4> QED
        BY <2>6, <3>1, <4>4, HandleConstants DEF CreateBuffer, BufferCounted, TypeOK
    <3>2. CASE x # b
      BY <1>4, <2>1, <2>6, <3>2 DEF CreateBuffer, BufferCounted, BufferReferences, TypeOK
    <3> QED
      BY <3>1, <3>2
  <2>7. CASE ReferenceBuffer(c, b)
    <3>1. bufHeld'[x] = IF x = b THEN bufHeld[b] \cup {c} ELSE bufHeld[x]
      BY <2>7 DEF ReferenceBuffer, TypeOK
    <3>2. Cardinality(bufHeld'[x]) = Cardinality(bufHeld[x]) + Uses(x, b, Null)
      BY <2>2, <2>3, <2>5, <2>7, <3>1, FS_AddElement DEF ReferenceBuffer
    <3>3. BufferReferences(x)' = BufferReferences(x) + Uses(x, b, Null)
      BY <2>2, <2>3, <2>4, <3>2
    <3> QED
      BY <2>1, <2>2, <2>7, <3>3, ReferencedBufferCounted DEF ReferenceBuffer
  <2>8. CASE ReleaseBuffer(c, b)
    <3>1. bufHeld'[x] = IF x = b THEN bufHeld[b] \ {c} ELSE bufHeld[x]
      BY <2>8 DEF ReleaseBuffer, TypeOK
    <3>2. Cardinality(bufHeld'[x]) = Cardinality(bufHeld[x]) - Uses(x, b, Null)
      <4>1. c \in bufHeld[b]
        BY <2>8 DEF ReleaseBuffer
      <4>2. x = b => Cardinality(bufHeld[b] \ {c}) = Cardinality(bufHeld[b]) - 1
        BY <2>5, <4>1, FS_RemoveElement
      <4> QED
        BY <2>2, <2>3, <3>1, <4>2
    <3>3. BufferReferences(x)' = BufferReferences(x) - Uses(x, b, Null)
      <4>1. Uses(x, b, Null) \in Nat
        BY UsesType
      <4> QED
        BY <2>3, <2>4, <3>2, <4>1
    <3>4. Uses(x, b, Null) <= BufferReferences(x)
      <4>1. CASE x = b
        <5>1. Cardinality(bufHeld[x]) # 0
          BY <2>5, <2>8, <4>1, FS_EmptySet DEF ReleaseBuffer
        <5> QED
          BY <2>2, <2>3, <2>4, <5>1
      <4>2. CASE x # b
        BY <2>2, <4>2, ReferencesType
      <4> QED
        BY <4>1, <4>2
    <3> QED
      BY <2>1, <2>8, <3>3, <3>4, ReleasedBufferCounted DEF ReleaseBuffer
  <2> QED
    BY <2>6, <2>7, <2>8 DEF BufferStep
<1> QED
  BY <1>2, <1>3, <1>5 DEF CountsAreExact, ArrayCounted, BufferCounted

\* One more reference by way of a VAO, or one less.
LEMMA ArrayUseAdded ==
  ASSUME TypeOK, NEW x \in Buffers, NEW vb, NEW p, p \notin ArrayUses(x),
         bufHeld' = bufHeld,
         ArrayUses(x)' = IF x = vb THEN ArrayUses(x) \cup {p} ELSE ArrayUses(x),
         DrawableArrayUses(x)' = DrawableArrayUses(x), IndexUses(x)' = IndexUses(x)
  PROVE  BufferReferences(x)' = BufferReferences(x) + Uses(x, vb, Null)
<1>1. Uses(x, vb, Null) = IF x = vb THEN 1 ELSE 0
  BY HandleConstants DEF Uses
<1>2. Cardinality(ArrayUses(x) \cup {p}) = Cardinality(ArrayUses(x)) + 1
  BY UseSetsFinite, FS_AddElement
<1>3. /\ Cardinality(bufHeld[x]) \in Nat /\ Cardinality(ArrayUses(x)) \in Nat
      /\ Cardinality(DrawableArrayUses(x)) \in Nat /\ Cardinality(IndexUses(x)) \in Nat
  BY UseSetsCounted
<1> QED
  BY <1>1, <1>2, <1>3 DEF BufferReferences

\* A vertex array that lets go of its buffer takes one reference off.
LEMMA ArrayUseRemoved ==
  ASSUME TypeOK, NEW x \in Buffers, NEW vb, NEW p, x = vb => p \in ArrayUses(x),
         bufHeld' = bufHeld,
         ArrayUses(x)' = IF x = vb THEN ArrayUses(x) \ {p} ELSE ArrayUses(x),
         DrawableArrayUses(x)' = DrawableArrayUses(x), IndexUses(x)' = IndexUses(x)
  PROVE  /\ BufferReferences(x)' = BufferReferences(x) - Uses(x, vb, Null)
         /\ Uses(x, vb, Null) <= BufferReferences(x)
<1>1. Uses(x, vb, Null) = IF x = vb THEN 1 ELSE 0
  BY HandleConstants DEF Uses
<1>2. x = vb => /\ Cardinality(ArrayUses(x) \ {p}) = Cardinality(ArrayUses(x)) - 1
                /\ Cardinality(ArrayUses(x)) # 0
  BY UseSetsFinite, FS_RemoveElement, FS_EmptySet
<1>3. /\ Cardinality(bufHeld[x]) \in Nat /\ Cardinality(ArrayUses(x)) \in Nat
      /\ Cardinality(DrawableArrayUses(x)) \in Nat /\ Cardinality(IndexUses(x)) \in Nat
  BY UseSetsCounted
<1> QED
  BY <1>1, <1>2, <1>3 DEF BufferReferences

\* A new vertex array counts one holder, and is one more user of its buffer.
LEMMA CreateVertexArrayCounts ==
  ASSUME TypeOK, CountsAreExact, Linked, NEW c \in Clients, NEW v \in VertexArrays,
         NEW b \in Buffers, CreateVertexArray(c, v, b)
  PROVE  CountsAreExact' /\ Linked'
<1> USE DEF CreateVertexArray, drwVars
<1>1. vaoHeld[v] = {} /\ DrawableUses(v) = {}
  BY UnreferencedArray DEF CountsAreExact
<1>2. /\ vaoHeld' = [vaoHeld EXCEPT ![v] = {c}] /\ vaoBuffer' = [vaoBuffer EXCEPT ![v] = b]
      /\ vaoRefs' = [vaoRefs EXCEPT ![v] = 1]
  BY <1>1 DEF TypeOK
<1>3. vaoHandle'[v] # 0 /\ \A x \in VertexArrays \ {v} : vaoHandle'[x] = vaoHandle[x]
  BY HandleConstants DEF TypeOK
<1>4. Linked'
  BY <1>2, <1>3, HandleConstants DEF Linked, TypeOK
<1>5. ASSUME NEW x \in VertexArrays PROVE ArrayCounted(x)'
  <2>1. DrawableUses(x)' = DrawableUses(x)
    BY DEF DrawableUses
  <2>2. CASE x = v
    <3>1. Cardinality(vaoHeld'[x]) = 1
      <4>1. vaoHeld'[x] = {c}
        BY <1>2, <2>2 DEF TypeOK
      <4> QED
        BY <4>1, FS_Singleton
    <3>2. Cardinality(DrawableUses(x)') = 0
      BY <1>1, <2>1, <2>2, FS_EmptySet
    <3> QED
      BY <1>2, <1>3, <2>2, <3>1, <3>2 DEF ArrayCounted, ArrayReferences, TypeOK
  <2>3. CASE x # v
    BY <1>2, <1>3, <2>1, <2>3 DEF ArrayCounted, ArrayReferences, CountsAreExact, TypeOK
  <2> QED
    BY <2>2, <2>3
<1>6. ASSUME NEW x \in Buffers PROVE BufferCounted(x)'
  <2>1. ArrayUses(x)' = IF x = b THEN ArrayUses(x) \cup {<<c, v>>} ELSE ArrayUses(x)
    <3>1. \A p \in Clients \X VertexArrays :
            /\ p[1] \in vaoHeld'[p[2]] <=> p = <<c, v>> \/ p[1] \in vaoHeld[p[2]]
            /\ p[1] \in vaoHeld[p[2]] => p[2] # v
      BY <1>1, <1>2 DEF TypeOK
    <3>2. \A p \in Clients \X VertexArrays : vaoBuffer'[p[2]] = IF p[2] = v THEN b ELSE vaoBuffer[p[2]]
      BY <1>2 DEF TypeOK
    <3> QED
      BY <3>1, <3>2 DEF ArrayUses
  <2>2. <<c, v>> \notin ArrayUses(x)
    BY <1>1 DEF ArrayUses
  <2>3. DrawableArrayUses(x)' = DrawableArrayUses(x)
    <3>1. \A p \in Clients \X Drawables : p[1] \in drwHeld[p[2]] => drwArray[p[2]] # v
      BY <1>1 DEF DrawableUses
    <3> QED
      BY <1>2, <3>1 DEF DrawableArrayUses, TypeOK
  <2>4. IndexUses(x)' = IndexUses(x)
    BY DEF IndexUses
  <2>5. BufferReferences(x)' = BufferReferences(x) + Uses(x, b, Null)
    BY <2>1, <2>2, <2>3, <2>4, ArrayUseAdded
  <2>6. Uses(x, b, Null) # 0 => bufHandle[x] # 0
    BY HandleConstants DEF Uses
  <2> QED
    BY <2>5, <2>6, ReferencedBufferCounted DEF CountsAreExact, BufferCounted
<1> QED
  BY <1>4, <1>5, <1>6 DEF CountsAreExact, ArrayCounted, BufferCounted

\* A reference to a vertex array is one to its buffer as well.
LEMMA ReferenceVertexArrayCounts ==
  ASSUME TypeOK, CountsAreExact, Linked, NEW c \in Clients, NEW v \in VertexArrays,
         ReferenceVertexArray(c, v)
  PROVE  CountsAreExact' /\ Linked'
<1> USE DEF ReferenceVertexArray, drwVars
<1>1. Linked'
  BY DEF Linked
<1>2. ASSUME NEW x \in VertexArrays PROVE ArrayCounted(x)'
  <2>1. DrawableUses(x)' = DrawableUses(x)
    BY DEF DrawableUses
  <2>2. CASE x = v
    <3>1. Cardinality(vaoHeld'[x]) = Cardinality(vaoHeld[x]) + 1
      BY <2>2, UseSetsFinite, FS_AddElement DEF TypeOK
    <3> QED
      BY <2>1, <2>2, <3>1, UseSetsCounted
      DEF ArrayCounted, ArrayReferences, CountsAreExact, TypeOK
  <2>3. CASE x # v
    BY <2>1, <2>3 DEF ArrayCounted, ArrayReferences, CountsAreExact, TypeOK
  <2> QED
    BY <2>2, <2>3
<1>3. ASSUME NEW x \in Buffers PROVE BufferCounted(x)'
  <2> DEFINE b == vaoBuffer[v]
  <2>1. ArrayUses(x)' = IF x = b THEN ArrayUses(x) \cup {<<c, v>>} ELSE ArrayUses(x)
    BY DEF ArrayUses, TypeOK
  <2>2. <<c, v>> \notin ArrayUses(x)
    BY DEF ArrayUses
  <2>3. DrawableArrayUses(x)' = DrawableArrayUses(x) /\ IndexUses(x)' = IndexUses(x)
    BY DEF DrawableArrayUses, IndexUses
  <2>4. BufferReferences(x)' = BufferReferences(x) + Uses(x, b, Null)
    BY <2>1, <2>2, <2>3, ArrayUseAdded
  <2>5. Uses(x, b, Null) # 0 => bufHandle[x] # 0
    BY HandleConstants DEF Uses, BufferIsLive
  <2> QED
    BY <2>4, <2>5, ReferencedBufferCounted DEF CountsAreExact, BufferCounted
<1> QED
  BY <1>1, <1>2, <1>3 DEF CountsAreExact, ArrayCounted, BufferCounted

\* A release of a vertex array takes one reference off each of the two.
LEMMA ReleaseVertexArrayCounts ==
  ASSUME TypeOK, CountsAreExact, Linked, NEW c \in Clients, NEW v \in VertexArrays,
         ReleaseVertexArray(c, v)
  PROVE  CountsAreExact' /\ Linked'
<1> DEFINE b == vaoBuffer[v]
<1>1. /\ c \in vaoHeld[v] /\ vaoHeld' = [vaoHeld EXCEPT ![v] = @ \ {c}]
      /\ ReleaseBuffers(b, Null) /\ ReleaseArray(v)
      /\ UNCHANGED <<bufHeld, drwArray, drwIndex, drwHeld>>
  BY DEF ReleaseVertexArray, drwVars
<1>2. ArrayReferences(v) # 0
  BY <1>1, UnreferencedArray
<1>3. /\ vaoBuffer' = [vaoBuffer EXCEPT ![v] = IF vaoRefs[v] = 1 THEN Null ELSE @]
      /\ vaoHandle' = [vaoHandle EXCEPT ![v] = IF vaoRefs[v] = 1 THEN 0 ELSE @]
  BY <1>1, <1>2, ReleasedArrayLinks
\* The last reference to a VAO being a client's own, no drawable has it.
<1>4. vaoRefs[v] = 1 => vaoHeld[v] = {c} /\ DrawableUses(v) = {}
  <2> SUFFICES ASSUME vaoRefs[v] = 1 PROVE vaoHeld[v] = {c} /\ DrawableUses(v) = {}
    OBVIOUS
  <2>1. Cardinality(vaoHeld[v]) # 0
    BY <1>1, UseSetsFinite, FS_EmptySet
  <2>2. Cardinality(vaoHeld[v]) = 1 /\ Cardinality(DrawableUses(v)) = 0
    BY <2>1, UseSetsCounted DEF CountsAreExact, ArrayReferences
  <2>3. PICK y : vaoHeld[v] = {y}
    BY <2>2, UseSetsFinite, FS_Singleton
  <2>4. DrawableUses(v) = {}
    BY <2>2, UseSetsFinite, FS_EmptySet
  <2> QED
    BY <1>1, <2>3, <2>4
<1>5. Linked'
  BY <1>1, <1>3 DEF Linked, TypeOK
<1>6. ASSUME NEW x \in VertexArrays PROVE ArrayCounted(x)'
  <2>1. DrawableUses(x)' = DrawableUses(x)
    BY <1>1 DEF DrawableUses
  <2>2. Cardinality(vaoHeld'[x]) = IF x = v THEN Cardinality(vaoHeld[v]) - 1
                                            ELSE Cardinality(vaoHeld[x])
    <3>1. vaoHeld'[x] = IF x = v THEN vaoHeld[v] \ {c} ELSE vaoHeld[x]
      BY <1>1 DEF TypeOK
    <3>2. Cardinality(vaoHeld[v] \ {c}) = Cardinality(vaoHeld[v]) - 1
      BY <1>1, UseSetsFinite, FS_RemoveElement
    <3> QED
      BY <3>1, <3>2
  <2>3. ArrayReferences(x)' = IF x = v THEN ArrayReferences(x) - 1 ELSE ArrayReferences(x)
    <3>1. Cardinality(vaoHeld[x]) \in Nat /\ Cardinality(DrawableUses(x)) \in Nat
      BY UseSetsCounted
    <3> QED
      BY <2>1, <2>2, <3>1 DEF ArrayReferences
  <2>4. ArrayCounted(x)
    BY DEF CountsAreExact, ArrayCounted
  <2> QED
    BY <1>1, <1>2, <2>3, <2>4, ReleasedArrayCounted
<1>7. ASSUME NEW x \in Buffers PROVE BufferCounted(x)'
  <2>1. ArrayUses(x)' = IF x = b THEN ArrayUses(x) \ {<<c, v>>} ELSE ArrayUses(x)
    <3>1. \A p \in Clients \X VertexArrays :
            p[1] \in vaoHeld'[p[2]] <=> p # <<c, v>> /\ p[1] \in vaoHeld[p[2]]
      BY <1>1 DEF TypeOK
    <3>2. \A p \in Clients \X VertexArrays :
            p[1] \in vaoHeld'[p[2]] => vaoBuffer'[p[2]] = vaoBuffer[p[2]]
      BY <1>3, <1>4, <3>1 DEF TypeOK
    <3>3. \A p \in ArrayUses(x) : p = <<c, v>> => x = b
      BY DEF ArrayUses
    <3> QED
      BY <3>1, <3>2, <3>3 DEF ArrayUses
  <2>2. x = b => <<c, v>> \in ArrayUses(x)
    BY <1>1 DEF ArrayUses
  <2>3. DrawableArrayUses(x)' = DrawableArrayUses(x)
    <3>1. \A p \in Clients \X Drawables :
            p[1] \in drwHeld[p[2]] /\ drwArray[p[2]] # Null
              => vaoBuffer'[drwArray[p[2]]] = vaoBuffer[drwArray[p[2]]]
      <4>1. \A p \in Clients \X Drawables :
              p[1] \in drwHeld[p[2]] /\ drwArray[p[2]] = v => vaoRefs[v] # 1
        BY <1>4 DEF DrawableUses
      <4> QED
        BY <1>3, <4>1 DEF TypeOK
    <3> QED
      BY <1>1, <3>1 DEF DrawableArrayUses
  <2>4. IndexUses(x)' = IndexUses(x)
    BY <1>1 DEF IndexUses
  <2>5. /\ BufferReferences(x)' = BufferReferences(x) - Uses(x, b, Null)
        /\ Uses(x, b, Null) <= BufferReferences(x)
    BY <1>1, <2>1, <2>2, <2>3, <2>4, ArrayUseRemoved
  <2>6. BufferCounted(x)
    BY DEF CountsAreExact, BufferCounted
  <2> QED
    BY <1>1, <2>5, <2>6, ReleasedBufferCounted
<1> QED
  BY <1>5, <1>6, <1>7 DEF CountsAreExact, ArrayCounted, BufferCounted

\* One more reference by way of a drawable (to the buffer of its VAO and to
\* its index buffer), or one less.
LEMMA DrawableUseAdded ==
  ASSUME TypeOK, NEW x \in Buffers, NEW vb, NEW ib, NEW p,
         p \notin DrawableArrayUses(x), p \notin IndexUses(x),
         bufHeld' = bufHeld, ArrayUses(x)' = ArrayUses(x),
         DrawableArrayUses(x)' = IF x = vb THEN DrawableArrayUses(x) \cup {p}
                                           ELSE DrawableArrayUses(x),
         IndexUses(x)' = IF x = ib THEN IndexUses(x) \cup {p} ELSE IndexUses(x)
  PROVE  BufferReferences(x)' = BufferReferences(x) + Uses(x, vb, ib)
<1>1. /\ Cardinality(DrawableArrayUses(x) \cup {p}) = Cardinality(DrawableArrayUses(x)) + 1
      /\ Cardinality(IndexUses(x) \cup {p}) = Cardinality(IndexUses(x)) + 1
  BY UseSetsFinite, FS_AddElement
<1>2. /\ Cardinality(bufHeld[x]) \in Nat /\ Cardinality(ArrayUses(x)) \in Nat
      /\ Cardinality(DrawableArrayUses(x)) \in Nat /\ Cardinality(IndexUses(x)) \in Nat
  BY UseSetsCounted
<1> QED
  BY <1>1, <1>2 DEF BufferReferences, Uses

\* A drawable that is let go of takes off what it used of a buffer, twice if vertices
\* and indices share it.
LEMMA DrawableUseRemoved ==
  ASSUME TypeOK, NEW x \in Buffers, NEW vb, NEW ib, NEW p,
         x = vb => p \in DrawableArrayUses(x), x = ib => p \in IndexUses(x),
         bufHeld' = bufHeld, ArrayUses(x)' = ArrayUses(x),
         DrawableArrayUses(x)' = IF x = vb THEN DrawableArrayUses(x) \ {p}
                                           ELSE DrawableArrayUses(x),
         IndexUses(x)' = IF x = ib THEN IndexUses(x) \ {p} ELSE IndexUses(x)
  PROVE  /\ BufferReferences(x)' = BufferReferences(x) - Uses(x, vb, ib)
         /\ Uses(x, vb, ib) <= BufferReferences(x)
<1>1. x = vb => /\ Cardinality(DrawableArrayUses(x) \ {p}) = Cardinality(DrawableArrayUses(x)) - 1
                /\ Cardinality(DrawableArrayUses(x)) # 0
  BY UseSetsFinite, FS_RemoveElement, FS_EmptySet
<1>2. x = ib => /\ Cardinality(IndexUses(x) \ {p}) = Cardinality(IndexUses(x)) - 1
                /\ Cardinality(IndexUses(x)) # 0
  BY UseSetsFinite, FS_RemoveElement, FS_EmptySet
<1>3. /\ Cardinality(bufHeld[x]) \in Nat /\ Cardinality(ArrayUses(x)) \in Nat
      /\ Cardinality(DrawableArrayUses(x)) \in Nat /\ Cardinality(IndexUses(x)) \in Nat
  BY UseSetsCounted
<1> QED
  BY <1>1, <1>2, <1>3 DEF BufferReferences, Uses

\* What a held drawable was made of is there.
LEMMA HeldDrawableIsLive ==
  ASSUME TypeOK, CountsAreExact, Linked, NEW d \in Drawables, drwHeld[d] # {}
  PROVE  /\ drwArray[d] \in VertexArrays
         /\ ArrayReferences(drwArray[d]) # 0
         /\ drwIndex[d] # Null => drwIndex[d] \in Buffers /\ bufHandle[drwIndex[d]] # 0
<1>1. PICK c \in Clients : c \in drwHeld[d]
  BY DEF TypeOK
<1>2. drwArray[d] \in VertexArrays
  BY DEF Linked, TypeOK
<1>3. <<c, d>> \in DrawableUses(drwArray[d])
  BY <1>1 DEF DrawableUses
<1>4. ArrayReferences(drwArray[d]) # 0
  BY <1>2, <1>3, UnreferencedArray
<1>5. ASSUME drwIndex[d] # Null PROVE drwIndex[d] \in Buffers /\ bufHandle[drwIndex[d]] # 0
  <2>1. drwIndex[d] \in Buffers
    BY <1>5 DEF TypeOK
  <2>2. <<c, d>> \in IndexUses(drwIndex[d])
    BY <1>1 DEF IndexUses
  <2>3. BufferReferences(drwIndex[d]) # 0
    BY <2>1, <2>2, UnreferencedBuffer
  <2> QED
    BY <2>1, <2>3 DEF CountsAreExact
<1> QED
  BY <1>2, <1>4, <1>5

\* A client joins the holders of a drawable, by creating or referencing it.
LEMMA DrawableJoined ==
  ASSUME TypeOK, CountsAreExact, Linked, NEW c \in Clients, NEW d \in Drawables,
         NEW v \in VertexArrays, NEW ib \in Buffers \cup {Null},
         ArrayReferences(v) # 0, ib # Null => bufHandle[ib] # 0,
         c \notin drwHeld[d], drwHeld[d] # {} => drwArray[d] = v /\ drwIndex[d] = ib,
         drwHeld' = [drwHeld EXCEPT ![d] = @ \cup {c}],
         drwArray' = [drwArray EXCEPT ![d] = v], drwIndex' = [drwIndex EXCEPT ![d] = ib],
         ReferenceDrawableParts(v, ib)
  PROVE  CountsAreExact' /\ Linked'
<1> DEFINE vb == vaoBuffer[v]
<1>1. vb \in Buffers /\ bufHandle[vb] # 0 /\ vaoHandle[v] # 0
  BY ReferredArrayIsLive
<1>2. /\ ReferenceBuffers(vb, ib) /\ vaoRefs' = [vaoRefs EXCEPT ![v] = @ + 1]
      /\ UNCHANGED <<bufHeld, vaoHandle, vaoBuffer, vaoHeld, glArrays>>
  BY <1>1 DEF ReferenceDrawableParts, BufferIsLive
<1>3. Linked'
  BY <1>2, HandleConstants DEF Linked, TypeOK
<1>4. \A p \in Clients \X Drawables :
        p[1] \in drwHeld'[p[2]] <=> p = <<c, d>> \/ p[1] \in drwHeld[p[2]]
  BY DEF TypeOK
<1>5. \A p \in Clients \X Drawables : p # <<c, d>> /\ p[1] \in drwHeld[p[2]] =>
        drwArray'[p[2]] = drwArray[p[2]] /\ drwIndex'[p[2]] = drwIndex[p[2]]
  BY DEF TypeOK
<1>6. drwArray'[d] = v /\ drwIndex'[d] = ib
  BY DEF TypeOK
<1>7. ASSUME NEW x \in VertexArrays PROVE ArrayCounted(x)'
  <2>1. DrawableUses(x)' = IF x = v THEN DrawableUses(x) \cup {<<c, d>>} ELSE DrawableUses(x)
    BY <1>4, <1>5, <1>6 DEF DrawableUses
  <2>2. <<c, d>> \notin DrawableUses(x)
    BY DEF DrawableUses
  <2>3. Cardinality(DrawableUses(x) \cup {<<c, d>>}) = Cardinality(DrawableUses(x)) + 1
    BY <2>2, UseSetsFinite, FS_AddElement
  <2>4. Cardinality(vaoHeld[x]) \in Nat /\ Cardinality(DrawableUses(x)) \in Nat
    BY UseSetsCounted
  <2>5. ArrayReferences(x)' = ArrayReferences(x) + (IF x = v THEN 1 ELSE 0)
    BY <1>2, <2>1, <2>3, <2>4 DEF ArrayReferences
  <2>6. vaoRefs'[x] = vaoRefs[x] + (IF x = v THEN 1 ELSE 0)
    BY <1>2 DEF TypeOK
  <2> QED
    BY <1>1, <1>2, <2>5, <2>6 DEF CountsAreExact, ArrayCounted, TypeOK
<1>8. ASSUME NEW x \in Buffers PROVE BufferCounted(x)'
  <2>1. ArrayUses(x)' = ArrayUses(x)
    BY <1>2 DEF ArrayUses
  <2>2. DrawableArrayUses(x)' = IF x = vb THEN DrawableArrayUses(x) \cup {<<c, d>>}
                                          ELSE DrawableArrayUses(x)
    BY <1>2, <1>4, <1>5, <1>6, HandleConstants DEF DrawableArrayUses
  <2>3. IndexUses(x)' = IF x = ib THEN IndexUses(x) \cup {<<c, d>>} ELSE IndexUses(x)
    BY <1>4, <1>5, <1>6 DEF IndexUses
  <2>4. <<c, d>> \notin DrawableArrayUses(x) /\ <<c, d>> \notin IndexUses(x)
    BY DEF DrawableArrayUses, IndexUses
  <2>5. BufferReferences(x)' = BufferReferences(x) + Uses(x, vb, ib)
    BY <1>2, <2>1, <2>2, <2>3, <2>4, DrawableUseAdded
  <2>6. Uses(x, vb, ib) # 0 => bufHandle[x] # 0
    BY <1>1, HandleConstants DEF Uses
  <2>7. BufferCounted(x)
    BY DEF CountsAreExact, BufferCounted
  <2> QED
    BY <1>2, <2>5, <2>6, <2>7, ReferencedBufferCounted
<1> QED
  BY <1>3, <1>7, <1>8 DEF CountsAreExact, ArrayCounted, BufferCounted

\* A release of a drawable takes one reference off each of its parts.
LEMMA ReleaseDrawableCounts ==
  ASSUME TypeOK, CountsAreExact, Linked, NEW c \in Clients, NEW d \in Drawables,
         ReleaseDrawable(c, d)
  PROVE  CountsAreExact' /\ Linked'
<1> DEFINE v  == drwArray[d]
           ib == drwIndex[d]
           vb == vaoBuffer[v]
<1>1. /\ c \in drwHeld[d] /\ drwHeld' = [drwHeld EXCEPT ![d] = @ \ {c}]
      /\ ReleaseBuffers(vb, ib) /\ ReleaseArray(v)
      /\ UNCHANGED <<bufHeld, vaoHeld>>
  BY DEF ReleaseDrawable
<1>2. /\ v \in VertexArrays /\ ArrayReferences(v) # 0
      /\ ib # Null => ib \in Buffers /\ bufHandle[ib] # 0
  BY <1>1, HeldDrawableIsLive
<1>3. vb \in Buffers /\ vaoHandle[v] # 0
  BY <1>2, ReferredArrayIsLive
<1>4. /\ vaoBuffer' = [vaoBuffer EXCEPT ![v] = IF vaoRefs[v] = 1 THEN Null ELSE @]
      /\ vaoHandle' = [vaoHandle EXCEPT ![v] = IF vaoRefs[v] = 1 THEN 0 ELSE @]
  BY <1>1, <1>2, ReleasedArrayLinks
<1>5. vaoRefs[v] \in Nat \ {0}
  BY <1>2 DEF CountsAreExact, TypeOK
<1>6. /\ drwArray' = [drwArray EXCEPT ![d] = IF vaoRefs[v] = 1 THEN Null ELSE @]
      /\ drwIndex' = [drwIndex EXCEPT ![d] = IF vaoRefs[v] = 1 THEN Null ELSE @]
  <2>1. vaoRefs[v] <= 1 <=> vaoRefs[v] = 1
    BY <1>5
  <2> QED
    BY <1>3, <2>1 DEF ReleaseDrawable
\* The last reference to a VAO being this drawable's own, nothing else uses it.
<1>7. vaoRefs[v] = 1 => vaoHeld[v] = {} /\ DrawableUses(v) = {<<c, d>>}
  <2> SUFFICES ASSUME vaoRefs[v] = 1 PROVE vaoHeld[v] = {} /\ DrawableUses(v) = {<<c, d>>}
    OBVIOUS
  <2>1. <<c, d>> \in DrawableUses(v)
    BY <1>1 DEF DrawableUses
  <2>2. Cardinality(DrawableUses(v)) # 0
    BY <1>2, <2>1, UseSetsFinite, FS_EmptySet
  <2>3. Cardinality(vaoHeld[v]) \in Nat /\ Cardinality(DrawableUses(v)) \in Nat
    BY <1>2, UseSetsCounted
  <2>4. vaoRefs[v] = Cardinality(vaoHeld[v]) + Cardinality(DrawableUses(v))
    BY <1>2 DEF CountsAreExact, ArrayReferences
  <2>5. Cardinality(vaoHeld[v]) = 0 /\ Cardinality(DrawableUses(v)) = 1
    BY <2>2, <2>3, <2>4
  <2>6. vaoHeld[v] = {}
    BY <1>2, <2>5, UseSetsFinite, FS_EmptySet
  <2>7. PICK y : DrawableUses(v) = {y}
    BY <1>2, <2>5, UseSetsFinite, FS_Singleton
  <2> QED
    BY <2>1, <2>6, <2>7
<1>8. \A p \in Clients \X Drawables :
        p[1] \in drwHeld'[p[2]] <=> p # <<c, d>> /\ p[1] \in drwHeld[p[2]]
  BY <1>1 DEF TypeOK
<1>9. \A p \in Clients \X Drawables : p[1] \in drwHeld'[p[2]] =>
        drwArray'[p[2]] = drwArray[p[2]] /\ drwIndex'[p[2]] = drwIndex[p[2]]
  <2>1. \A p \in Clients \X Drawables : p[1] \in drwHeld'[p[2]] /\ vaoRefs[v] = 1 => p[2] # d
    BY <1>7, <1>8 DEF DrawableUses
  <2> QED
    BY <1>6, <2>1 DEF TypeOK
<1>10. Linked'
  <2>1. \A w \in VertexArrays : vaoHandle'[w] = 0 <=> vaoBuffer'[w] = Null
    BY <1>4 DEF Linked, TypeOK
  <2>2. ASSUME NEW e \in Drawables, drwHeld'[e] # {} PROVE drwArray'[e] # Null
    <3>1. PICK y \in Clients : y \in drwHeld'[e]
      BY <1>1, <2>2 DEF TypeOK
    <3>2. y \in drwHeld[e] /\ drwArray'[e] = drwArray[e]
      <4> DEFINE p == <<y, e>>
      <4>1. p \in Clients \X Drawables /\ p[1] = y /\ p[2] = e
        OBVIOUS
      <4> QED
        BY <1>8, <1>9, <3>1, <4>1
    <3> QED
      BY <3>2 DEF Linked
  <2> QED
    BY <2>1, <2>2 DEF Linked
<1>11. ASSUME NEW x \in VertexArrays PROVE ArrayCounted(x)'
  <2>1. DrawableUses(x)' = IF x = v THEN DrawableUses(x) \ {<<c, d>>} ELSE DrawableUses(x)
    BY <1>8, <1>9 DEF DrawableUses
  <2>2. x = v => /\ Cardinality(DrawableUses(x) \ {<<c, d>>}) = Cardinality(DrawableUses(x)) - 1
    <3>1. x = v => <<c, d>> \in DrawableUses(x)
      BY <1>1 DEF DrawableUses
    <3> QED
      BY <3>1, UseSetsFinite, FS_RemoveElement
  <2>3. Cardinality(vaoHeld[x]) \in Nat /\ Cardinality(DrawableUses(x)) \in Nat
    BY UseSetsCounted
  <2>4. ArrayReferences(x)' = IF x = v THEN ArrayReferences(x) - 1 ELSE ArrayReferences(x)
    BY <1>1, <2>1, <2>2, <2>3 DEF ArrayReferences
  <2>5. ArrayCounted(x)
    BY DEF CountsAreExact, ArrayCounted
  <2> QED
    BY <1>1, <1>2, <2>4, <2>5, ReleasedArrayCounted
<1>12. ASSUME NEW x \in Buffers PROVE BufferCounted(x)'
  <2>1. ArrayUses(x)' = ArrayUses(x)
    <3>1. \A p \in Clients \X VertexArrays :
            p[1] \in vaoHeld[p[2]] => vaoBuffer'[p[2]] = vaoBuffer[p[2]]
      BY <1>2, <1>4, <1>7 DEF TypeOK
    <3> QED
      BY <1>1, <3>1 DEF ArrayUses
  <2>2. DrawableArrayUses(x)' = IF x = vb THEN DrawableArrayUses(x) \ {<<c, d>>}
                                          ELSE DrawableArrayUses(x)
    <3>1. \A p \in Clients \X Drawables :
            p[1] \in drwHeld'[p[2]] /\ drwArray'[p[2]] # Null
              => vaoBuffer'[drwArray'[p[2]]] = vaoBuffer[drwArray[p[2]]]
      <4>1. \A p \in Clients \X Drawables :
              p[1] \in drwHeld'[p[2]] /\ drwArray[p[2]] = v => vaoRefs[v] # 1
        BY <1>7, <1>8 DEF DrawableUses
      <4> QED
        BY <1>4, <1>9, <4>1 DEF TypeOK
    <3>2. \A p \in DrawableArrayUses(x) : p = <<c, d>> => x = vb
      BY DEF DrawableArrayUses
    <3> QED
      BY <1>8, <1>9, <3>1, <3>2 DEF DrawableArrayUses
  <2>3. IndexUses(x)' = IF x = ib THEN IndexUses(x) \ {<<c, d>>} ELSE IndexUses(x)
    BY <1>8, <1>9 DEF IndexUses
  <2>4. x = vb => <<c, d>> \in DrawableArrayUses(x)
    BY <1>1, <1>2, HandleConstants DEF DrawableArrayUses
  <2>5. x = ib => <<c, d>> \in IndexUses(x)
    BY <1>1 DEF IndexUses
  <2>6. /\ BufferReferences(x)' = BufferReferences(x) - Uses(x, vb, ib)
        /\ Uses(x, vb, ib) <= BufferReferences(x)
    BY <1>1, <2>1, <2>2, <2>3, <2>4, <2>5, DrawableUseRemoved
  <2>7. BufferCounted(x)
    BY DEF CountsAreExact, BufferCounted
  <2> QED
    BY <1>1, <2>6, <2>7, ReleasedBufferCounted
<1> QED
  BY <1>10, <1>11, <1>12 DEF CountsAreExact, ArrayCounted, BufferCounted

\* Calls on drawables keep the counts exact.
LEMMA DrawableStepCounts ==
  ASSUME TypeOK, CountsAreExact, Linked, NEW c \in Clients, NEW d \in Drawables,
         DrawableStep(c, d)
  PROVE  CountsAreExact' /\ Linked'
<1>1. ASSUME NEW v \in VertexArrays, NEW ib \in Buffers \cup {Null}, CreateDrawable(c, d, v, ib)
      PROVE  CountsAreExact' /\ Linked'
  <2> DEFINE index == IF BufferIsLive(ib) THEN ib ELSE Null
  <2>1. /\ index \in Buffers \cup {Null}
        /\ index # Null => bufHandle[index] # 0
    BY DEF BufferIsLive
  <2>2. /\ drwArray[d] = Null /\ vaoHandle[v] # 0
        /\ drwArray' = [drwArray EXCEPT ![d] = v] /\ drwIndex' = [drwIndex EXCEPT ![d] = index]
        /\ drwHeld' = [drwHeld EXCEPT ![d] = @ \cup {c}]
        /\ ReferenceDrawableParts(v, index)
    BY <1>1 DEF CreateDrawable
  <2>3. ArrayReferences(v) # 0
    BY <2>2 DEF CountsAreExact
  <2>4. drwHeld[d] = {}
    BY <2>2 DEF Linked
  <2> HIDE DEF index
  <2> QED
    BY <2>1, <2>2, <2>3, <2>4, DrawableJoined
<1>2. CASE ReferenceDrawable(c, d)
  <2>1. drwHeld[d] # {} /\ c \notin drwHeld[d]
    BY <1>2 DEF ReferenceDrawable
  <2>2. /\ drwArray' = [drwArray EXCEPT ![d] = drwArray[d]]
        /\ drwIndex' = [drwIndex EXCEPT ![d] = drwIndex[d]]
    BY <1>2 DEF ReferenceDrawable, TypeOK
  <2>3. drwIndex[d] \in Buffers \cup {Null}
    BY DEF TypeOK
  <2> QED
    BY <1>2, <2>1, <2>2, <2>3, HeldDrawableIsLive, DrawableJoined DEF ReferenceDrawable
<1>3. CASE ReleaseDrawable(c, d)
  BY <1>3, ReleaseDrawableCounts
<1> QED
  BY <1>1, <1>2, <1>3 DEF DrawableStep

\* The inductive invariant, for the theorems below.
LEMMA CountsInvariant == Spec => [](TypeOK /\ CountsAreExact /\ Linked)
<1>1. Init => CountsAreExact /\ Linked
  <2> SUFFICES ASSUME Init PROVE CountsAreExact /\ Linked
    OBVIOUS
  <2>1. /\ \A v \in VertexArrays : vaoHeld[v] = {} /\ DrawableUses(v) = {}
        /\ \A b \in Buffers : /\ bufHeld[b] = {} /\ ArrayUses(b) = {}
                              /\ DrawableArrayUses(b) = {} /\ IndexUses(b) = {}
    BY DEF Init, DrawableUses, ArrayUses, DrawableArrayUses, IndexUses
  <2>2. /\ \A v \in VertexArrays : ArrayReferences(v) = 0
        /\ \A b \in Buffers : BufferReferences(b) = 0
    BY <2>1, FS_EmptySet DEF ArrayReferences, BufferReferences
  <2> QED
    BY <2>2 DEF Init, CountsAreExact, Linked
<1>2. TypeOK /\ CountsAreExact /\ Linked /\ [Next]_vars => CountsAreExact' /\ Linked'
  <2> SUFFICES ASSUME TypeOK, CountsAreExact, Linked, [Next]_vars
               PROVE  CountsAreExact' /\ Linked'
    OBVIOUS
  <2>1. CASE UNCHANGED vars
    BY <2>1 DEF vars, bufVars, vaoVars, drwVars, CountsAreExact, Linked, ArrayReferences,
                BufferReferences, DrawableUses, ArrayUses, DrawableArrayUses, IndexUses
  <2>2. ASSUME NEW c \in Clients, NEW b \in Buffers, BufferStep(c, b)
        PROVE  CountsAreExact' /\ Linked'
    BY <2>2, BufferStepCounts
  <2>3. ASSUME NEW c \in Clients, NEW v \in VertexArrays, VertexArrayStep(c, v)
        PROVE  CountsAreExact' /\ Linked'
    BY <2>3, CreateVertexArrayCounts, ReferenceVertexArrayCounts, ReleaseVertexArrayCounts
    DEF VertexArrayStep
  <2>4. ASSUME NEW c \in Clients, NEW d \in Drawables, DrawableStep(c, d)
        PROVE  CountsAreExact' /\ Linked'
    BY <2>4, DrawableStepCounts
  <2> QED
    BY <2>1, <2>2, <2>3, <2>4 DEF Next
<1> QED
  BY TypeCorrect, <1>1, <1>2, PTL DEF Spec

\* Every count is the number of references outstanding, and a handle is dead
\* exactly when there are none.
THEOREM CountsExact == Spec => []CountsAreExact
  BY CountsInvariant, PTL

\* What is held can be used: counts and links lead from a held object to live
\* handles, and a live handle names an object of the driver.
THEOREM HeldUsable == Spec => []HeldObjectsAreUsable
<1>1. TypeOK /\ CountsAreExact /\ Linked /\ NamesAreOwnedOnce => HeldObjectsAreUsable
  <2> SUFFICES ASSUME TypeOK, CountsAreExact, Linked, NamesAreOwnedOnce
               PROVE  HeldObjectsAreUsable
    OBVIOUS
  <2>1. /\ \A b \in Buffers : bufHandle[b] # 0 => bufHandle[b] \in glBuffers
        /\ \A v \in VertexArrays : vaoHandle[v] # 0 => vaoHandle[v] \in glArrays
    BY DEF NamesAreOwnedOnce
  <2>2. ASSUME NEW b \in Buffers, bufHeld[b] # {} PROVE bufHandle[b] \in glBuffers
    BY <2>1, <2>2, UnreferencedBuffer DEF CountsAreExact
  <2>3. ASSUME NEW v \in VertexArrays, ArrayReferences(v) # 0 PROVE ArrayIsUsable(v)
    BY <2>1, <2>3, ReferredArrayIsLive, HandleConstants DEF ArrayIsUsable
  <2>4. ASSUME NEW v \in VertexArrays, vaoHeld[v] # {} PROVE ArrayIsUsable(v)
    BY <2>3, <2>4, UnreferencedArray
  <2>5. ASSUME NEW d \in Drawables, drwHeld[d] # {}
        PROVE  /\ drwArray[d] # Null
               /\ ArrayIsUsable(drwArray[d])
               /\ drwIndex[d] # Null => bufHandle[drwIndex[d]] \in glBuffers
    <3>1. drwArray[d] # Null /\ ArrayIsUsable(drwArray[d])
      BY <2>3, <2>5, HeldDrawableIsLive, HandleConstants
    <3>2. drwIndex[d] # Null => bufHandle[drwIndex[d]] \in glBuffers
      BY <2>1, <2>5, HeldDrawableIsLive
    <3> QED
      BY <3>1, <3>2
  <2> QED
    BY <2>2, <2>4, <2>5 DEF HeldObjectsAreUsable
<1> QED
  BY <1>1, CountsInvariant, NamesOwned, PTL

\* Nothing is left in the driver once nothing is held: a VAO has no count of
\* its own, so no buffer has one from it, and dead handles own no names.
THEOREM NothingLeaks == Spec => []NothingHeldNothingLeft
<1>1. TypeOK /\ CountsAreExact /\ Linked /\ NamesAreOwnedOnce => NothingHeldNothingLeft
  <2> SUFFICES ASSUME TypeOK, CountsAreExact, Linked, NamesAreOwnedOnce,
                      \A b \in Buffers : bufHeld[b] = {},
                      \A v \in VertexArrays : vaoHeld[v] = {},
                      \A d \in Drawables : drwHeld[d] = {}
               PROVE  glBuffers = {} /\ glArrays = {}
    BY DEF NothingHeldNothingLeft
  <2>1. /\ \A v \in VertexArrays : vaoHeld[v] = {} /\ DrawableUses(v) = {}
        /\ \A b \in Buffers : /\ bufHeld[b] = {} /\ ArrayUses(b) = {}
                              /\ DrawableArrayUses(b) = {} /\ IndexUses(b) = {}
    BY DEF DrawableUses, ArrayUses, DrawableArrayUses, IndexUses
  <2>2. /\ \A v \in VertexArrays : ArrayReferences(v) = 0
        /\ \A b \in Buffers : BufferReferences(b) = 0
    BY <2>1, FS_EmptySet DEF ArrayReferences, BufferReferences
  <2>3. /\ \A v \in VertexArrays : vaoHandle[v] = 0
        /\ \A b \in Buffers : bufHandle[b] = 0
    BY <2>2 DEF CountsAreExact
  <2> QED
    BY <2>3 DEF NamesAreOwnedOnce
<1> QED
  BY <1>1, CountsInvariant, NamesOwned, PTL

------------------------------------------------------------------------------
(* The counts implement ResourceLifetime, in which there are none: what      *)
(* exists is what is reachable from what is held.                            *)

\* The mapped variables, and the invariant under which the steps map.
Held      == [r \in Resource |-> HeldBy(r)]
UsedParts == [r \in Resource |-> UsedBy(r)]

Counted == TypeOK /\ CountsAreExact /\ Linked

------------------------------------------------------------------------------
(* Reading the mapped state.                                                *)

\* The kinds are apart, and all of them are resources.
LEMMA Kinds ==
  /\ \A b \in Buffers : b \in Resource /\ b \notin VertexArrays /\ b \notin Drawables
  /\ \A v \in VertexArrays : v \in Resource /\ v \notin Buffers /\ v \notin Drawables
  /\ \A d \in Drawables : d \in Resource /\ d \notin Buffers /\ d \notin VertexArrays
  BY HandleConstants DEF Resource

\* What each kind of object contributes to the mapped state.
Mapped ==
  /\ \A b \in Buffers :
       Held[b] = bufHeld[b] /\ UsedParts[b] = {} /\ (b \in Existing <=> bufHandle[b] # 0)
  /\ \A v \in VertexArrays :
       /\ Held[v] = vaoHeld[v] /\ UsedParts[v] = {vaoBuffer[v]} \ {Null}
       /\ v \in Existing <=> vaoHandle[v] # 0
  /\ \A d \in Drawables :
       /\ Held[d] = drwHeld[d]
       /\ UsedParts[d] = IF drwHeld[d] = {} THEN {} ELSE {drwArray[d], drwIndex[d]} \ {Null}
       /\ d \in Existing <=> drwHeld[d] # {}

\* It is what the definitions of the mapping say, the kinds being apart.
LEMMA MappedState == Mapped
<1>1. \A b \in Buffers :
        Held[b] = bufHeld[b] /\ UsedParts[b] = {} /\ (b \in Existing <=> bufHandle[b] # 0)
  BY Kinds DEF Held, UsedParts, HeldBy, UsedBy, Existing
<1>2. \A v \in VertexArrays :
        /\ Held[v] = vaoHeld[v] /\ UsedParts[v] = {vaoBuffer[v]} \ {Null}
        /\ v \in Existing <=> vaoHandle[v] # 0
  BY Kinds DEF Held, UsedParts, HeldBy, UsedBy, Existing
<1>3. \A d \in Drawables :
        /\ Held[d] = drwHeld[d]
        /\ UsedParts[d] = IF drwHeld[d] = {} THEN {} ELSE {drwArray[d], drwIndex[d]} \ {Null}
        /\ d \in Existing <=> drwHeld[d] # {}
  BY Kinds DEF Held, UsedParts, HeldBy, UsedBy, Existing
<1> QED
  BY <1>1, <1>2, <1>3 DEF Mapped

\* The same of the state after a step.
LEMMA MappedStateNext ==
  /\ \A b \in Buffers :
       Held'[b] = bufHeld'[b] /\ UsedParts'[b] = {} /\ (b \in Existing' <=> bufHandle'[b] # 0)
  /\ \A v \in VertexArrays :
       /\ Held'[v] = vaoHeld'[v] /\ UsedParts'[v] = {vaoBuffer'[v]} \ {Null}
       /\ v \in Existing' <=> vaoHandle'[v] # 0
  /\ \A d \in Drawables :
       /\ Held'[d] = drwHeld'[d]
       /\ UsedParts'[d] = IF drwHeld'[d] = {} THEN {} ELSE {drwArray'[d], drwIndex'[d]} \ {Null}
       /\ d \in Existing' <=> drwHeld'[d] # {}
<1>1. Mapped'
  BY MappedState, PTL
<1> QED
  BY <1>1 DEF Mapped

\* Handles live for what reaches them: a VAO for its holders and the held
\* drawables that draw it, a buffer for its holders, the live VAOs that read
\* it and the held drawables it indexes.
LEMMA ReachedObjects ==
  ASSUME Counted
  PROVE  /\ \A v \in VertexArrays : vaoHandle[v] # 0 <=>
              vaoHeld[v] # {} \/ \E d \in Drawables : drwHeld[d] # {} /\ drwArray[d] = v
         /\ \A b \in Buffers : bufHandle[b] # 0 <=>
              \/ bufHeld[b] # {}
              \/ \E v \in VertexArrays : vaoHandle[v] # 0 /\ vaoBuffer[v] = b
              \/ \E d \in Drawables : drwHeld[d] # {} /\ drwIndex[d] = b
<1> USE DEF Counted
<1>1. ASSUME NEW v \in VertexArrays, vaoHandle[v] # 0
      PROVE  vaoHeld[v] # {} \/ \E d \in Drawables : drwHeld[d] # {} /\ drwArray[d] = v
  <2>1. ArrayReferences(v) # 0
    BY <1>1 DEF CountsAreExact
  <2>2. vaoHeld[v] # {} \/ DrawableUses(v) # {}
    BY <2>1, FS_EmptySet DEF ArrayReferences
  <2> QED
    BY <2>2 DEF DrawableUses
<1>2. ASSUME NEW v \in VertexArrays, vaoHeld[v] # {} PROVE vaoHandle[v] # 0
  BY <1>2, UnreferencedArray DEF CountsAreExact
<1>3. ASSUME NEW d \in Drawables, drwHeld[d] # {} PROVE vaoHandle[drwArray[d]] # 0
  BY <1>3, HeldDrawableIsLive, ReferredArrayIsLive
<1>4. ASSUME NEW b \in Buffers, bufHandle[b] # 0
      PROVE  \/ bufHeld[b] # {}
             \/ \E v \in VertexArrays : vaoHandle[v] # 0 /\ vaoBuffer[v] = b
             \/ \E d \in Drawables : drwHeld[d] # {} /\ drwIndex[d] = b
  <2>1. BufferReferences(b) # 0
    BY <1>4 DEF CountsAreExact
  <2>2. bufHeld[b] # {} \/ ArrayUses(b) # {} \/ DrawableArrayUses(b) # {} \/ IndexUses(b) # {}
    BY <2>1, FS_EmptySet DEF BufferReferences
  <2>3. ArrayUses(b) # {} => \E v \in VertexArrays : vaoHandle[v] # 0 /\ vaoBuffer[v] = b
    BY <1>2 DEF ArrayUses
  <2>4. DrawableArrayUses(b) # {} => \E v \in VertexArrays : vaoHandle[v] # 0 /\ vaoBuffer[v] = b
    BY <1>3, HeldDrawableIsLive DEF DrawableArrayUses
  <2>5. IndexUses(b) # {} => \E d \in Drawables : drwHeld[d] # {} /\ drwIndex[d] = b
    BY DEF IndexUses
  <2> QED
    BY <2>2, <2>3, <2>4, <2>5
<1>5. ASSUME NEW v \in VertexArrays, vaoHandle[v] # 0
      PROVE  vaoBuffer[v] \in Buffers /\ bufHandle[vaoBuffer[v]] # 0
  BY <1>5, ReferredArrayIsLive DEF CountsAreExact
<1>6. ASSUME NEW b \in Buffers, bufHeld[b] # {} PROVE bufHandle[b] # 0
  BY <1>6, UnreferencedBuffer DEF CountsAreExact
<1>7. ASSUME NEW d \in Drawables, drwHeld[d] # {}, drwIndex[d] # Null
      PROVE  drwIndex[d] \in Buffers /\ bufHandle[drwIndex[d]] # 0
  BY <1>7, HeldDrawableIsLive
<1>8. \A v \in VertexArrays : vaoHandle[v] # 0 <=>
        vaoHeld[v] # {} \/ \E d \in Drawables : drwHeld[d] # {} /\ drwArray[d] = v
  BY <1>1, <1>2, <1>3
<1>9. \A b \in Buffers : bufHandle[b] # 0 <=>
        \/ bufHeld[b] # {}
        \/ \E v \in VertexArrays : vaoHandle[v] # 0 /\ vaoBuffer[v] = b
        \/ \E d \in Drawables : drwHeld[d] # {} /\ drwIndex[d] = b
  BY <1>4, <1>5, <1>6, <1>7, HandleConstants
<1> QED
  BY <1>8, <1>9

\* What exists uses only what exists.
LEMMA PartsExist ==
  ASSUME Counted, NEW r \in Existing
  PROVE  UsedParts[r] \subseteq Existing
<1> USE DEF Counted
<1>1. CASE r \in Buffers
  BY <1>1, MappedState DEF Mapped
<1>2. CASE r \in VertexArrays
  <2>1. vaoHandle[r] # 0
    BY <1>2, MappedState DEF Mapped
  <2>2. vaoBuffer[r] \in Buffers /\ bufHandle[vaoBuffer[r]] # 0
    BY <1>2, <2>1, ReferredArrayIsLive DEF CountsAreExact
  <2> QED
    BY <1>2, <2>2, MappedState DEF Mapped
<1>3. CASE r \in Drawables
  <2>1. drwHeld[r] # {}
    BY <1>3, MappedState DEF Mapped
  <2>2. drwArray[r] \in VertexArrays /\ vaoHandle[drwArray[r]] # 0
    BY <1>3, <2>1, HeldDrawableIsLive, ReferredArrayIsLive
  <2>3. drwIndex[r] # Null => drwIndex[r] \in Buffers /\ bufHandle[drwIndex[r]] # 0
    BY <1>3, <2>1, HeldDrawableIsLive
  <2>4. UsedParts[r] = {drwArray[r], drwIndex[r]} \ {Null}
    BY <1>3, <2>1, MappedState DEF Mapped
  <2>5. drwArray[r] \in Existing /\ (drwIndex[r] # Null => drwIndex[r] \in Existing)
    BY <2>2, <2>3, MappedState DEF Mapped
  <2> QED
    BY <2>4, <2>5
<1> QED
  BY <1>1, <1>2, <1>3 DEF Existing

\* What exists is what the abstract specification calls needed.
NeededExist == Existing = Lifetime!Needed(Held, UsedParts)

\* With exact counts a handle lives exactly if something held reaches it.
LEMMA ExistingIsNeeded == Counted => NeededExist
<1> SUFFICES ASSUME Counted PROVE Existing = Lifetime!Needed(Held, UsedParts)
  BY DEF NeededExist
<1> DEFINE roots  == {r \in Resource : Held[r] # {}}
           direct == roots \cup UNION {UsedParts[r] : r \in roots}
           all    == direct \cup UNION {UsedParts[r] : r \in direct}
<1>1. Lifetime!Needed(Held, UsedParts) = all
  BY DEF Lifetime!Needed
<1>2. roots \subseteq Existing
  BY MappedState, ReachedObjects DEF Mapped, Resource
<1>3. direct \subseteq Existing
  BY <1>2, PartsExist
<1>4. all \subseteq Existing
  BY <1>3, PartsExist
<1>5. \A d \in Drawables : d \in Existing => d \in roots
  BY MappedState DEF Mapped, Resource
<1>6. \A v \in VertexArrays : v \in Existing => v \in direct
  <2> SUFFICES ASSUME NEW v \in VertexArrays, v \in Existing PROVE v \in direct
    OBVIOUS
  <2>1. vaoHeld[v] # {} \/ \E d \in Drawables : drwHeld[d] # {} /\ drwArray[d] = v
    BY MappedState, ReachedObjects DEF Mapped
  <2>2. CASE vaoHeld[v] # {}
    BY <2>2, MappedState DEF Mapped, Resource
  <2>3. ASSUME NEW d \in Drawables, drwHeld[d] # {}, drwArray[d] = v PROVE v \in direct
    <3>1. d \in roots
      BY <2>3, MappedState DEF Mapped, Resource
    <3>2. v \in UsedParts[d]
      BY <2>3, MappedState, HandleConstants DEF Mapped
    <3> QED
      BY <3>1, <3>2
  <2> QED
    BY <2>1, <2>2, <2>3
<1>7. \A b \in Buffers : b \in Existing => b \in all
  <2> SUFFICES ASSUME NEW b \in Buffers, b \in Existing PROVE b \in all
    OBVIOUS
  <2>1. \/ bufHeld[b] # {}
        \/ \E v \in VertexArrays : vaoHandle[v] # 0 /\ vaoBuffer[v] = b
        \/ \E d \in Drawables : drwHeld[d] # {} /\ drwIndex[d] = b
    BY MappedState, ReachedObjects DEF Mapped
  <2>2. CASE bufHeld[b] # {}
    BY <2>2, MappedState DEF Mapped, Resource
  <2>3. ASSUME NEW v \in VertexArrays, vaoHandle[v] # 0, vaoBuffer[v] = b PROVE b \in all
    <3>1. v \in direct
      BY <1>6, <2>3, MappedState DEF Mapped
    <3>2. b \in UsedParts[v]
      BY <2>3, MappedState, HandleConstants DEF Mapped
    <3> QED
      BY <3>1, <3>2
  <2>4. ASSUME NEW d \in Drawables, drwHeld[d] # {}, drwIndex[d] = b PROVE b \in all
    <3>1. d \in direct
      BY <2>4, MappedState DEF Mapped, Resource
    <3>2. b \in UsedParts[d]
      BY <2>4, MappedState, HandleConstants DEF Mapped
    <3> QED
      BY <3>1, <3>2
  <2> QED
    BY <2>1, <2>2, <2>3, <2>4
<1>8. Existing \subseteq all
  <2>1. roots \subseteq direct /\ direct \subseteq all
    OBVIOUS
  <2> HIDE DEF roots, direct, all
  <2> QED
    BY <1>5, <1>6, <1>7, <2>1 DEF Existing
<1> QED
  BY <1>1, <1>4, <1>8

\* Seen from the needed set, the uses that are forgotten did not count.
LEMMA ForgottenUses ==
  ASSUME NEW h, NEW u, NEW w, NEW E, E \subseteq Resource, E = Lifetime!Needed(h, w),
         w = [x \in Resource |-> IF x \in E THEN u[x] ELSE {}]
  PROVE  E = Lifetime!Needed(h, u)
<1> DEFINE roots == {r \in Resource : h[r] # {}}
           direct(z) == roots \cup UNION {z[r] : r \in roots}
           all(z)    == direct(z) \cup UNION {z[r] : r \in direct(z)}
<1>1. all(w) = E
  BY DEF Lifetime!Needed
<1>2. roots \subseteq direct(w) /\ direct(w) \subseteq E
  BY <1>1
<1>3. \A r \in E : w[r] = u[r]
  OBVIOUS
<1>4. {w[r] : r \in roots} = {u[r] : r \in roots}
  BY <1>2, <1>3
<1>5. direct(w) = direct(u)
  BY <1>4
<1>6. {w[r] : r \in direct(w)} = {u[r] : r \in direct(u)}
  BY <1>2, <1>3, <1>5
<1>7. all(w) = all(u)
  BY <1>5, <1>6
<1>8. Lifetime!Needed(h, u) = all(u)
  BY DEF Lifetime!Needed
<1> QED
  BY <1>1, <1>7, <1>8

\* The same of the state after a step.
LEMMA ExistingIsNeededNext == Counted' => NeededExist'
  BY ExistingIsNeeded, PTL

------------------------------------------------------------------------------
(* The steps.                                                               *)

\* The mapped state is that of functions on the resources.
LEMMA MappedFunctions ==
  /\ Held = [r \in Resource |-> Held[r]] /\ UsedParts = [r \in Resource |-> UsedParts[r]]
  /\ Held' = [r \in Resource |-> Held'[r]] /\ UsedParts' = [r \in Resource |-> UsedParts'[r]]
  /\ Existing \subseteq Resource /\ Existing' \subseteq Resource
  BY DEF Held, UsedParts, Existing, Resource

\* A step that lets go of r, keeps the links of what is left and keeps the
\* counts is an abstract release.
LEMMA ReleaseMaps ==
  ASSUME Counted', NEW c \in Clients, NEW r \in Resource, c \in Held[r],
         Held' = [Held EXCEPT ![r] = @ \ {c}],
         UsedParts' = [x \in Resource |-> IF x \in Existing' THEN UsedParts[x] ELSE {}]
  PROVE  Lifetime!Release(c, r)
<1>1. Existing' = Lifetime!Needed(Held', UsedParts')
  BY ExistingIsNeededNext DEF NeededExist
<1>2. Existing' = Lifetime!Needed(Held', UsedParts)
  BY <1>1, MappedFunctions, ForgottenUses
<1> QED
  BY <1>2 DEF Lifetime!Release, Held, UsedParts

\* A step that takes a first hold of r, makes it exist and links it to what
\* exists is an abstract creation.
LEMMA CreateMaps ==
  ASSUME NEW c \in Clients, NEW r \in Resource, r \notin Existing,
         NEW parts \in SUBSET Existing,
         Held' = [Held EXCEPT ![r] = {c}],
         UsedParts' = [UsedParts EXCEPT ![r] = parts],
         Existing' = Existing \cup {r}
  PROVE  Lifetime!Create(c, r)
  BY DEF Lifetime!Create, Held, UsedParts

\* A step that adds a hold and changes nothing else is an abstract reference.
LEMMA ReferenceMaps ==
  ASSUME NEW c \in Clients, NEW r \in Resource, r \in Existing,
         Held' = [Held EXCEPT ![r] = @ \cup {c}],
         UsedParts' = UsedParts, Existing' = Existing
  PROVE  Lifetime!Reference(c, r)
  BY DEF Lifetime!Reference, Held, UsedParts

\* Steps on one kind of object, with the mapped state read off kind by kind.
LEMMA HeldOfOne ==
  ASSUME NEW r \in Resource, NEW S,
         \A b \in Buffers : bufHeld'[b] = IF b = r THEN S ELSE bufHeld[b],
         \A v \in VertexArrays : vaoHeld'[v] = IF v = r THEN S ELSE vaoHeld[v],
         \A d \in Drawables : drwHeld'[d] = IF d = r THEN S ELSE drwHeld[d]
  PROVE  Held' = [Held EXCEPT ![r] = S]
<1> DEFINE g == [Held EXCEPT ![r] = S]
<1>1. g = [x \in Resource |-> g[x]] /\ \A x \in Resource : g[x] = IF x = r THEN S ELSE Held[x]
  BY MappedFunctions
<1>2. \A x : x \in Buffers \/ x \in VertexArrays \/ x \in Drawables => x \in Resource
  BY DEF Resource
<1> HIDE DEF g
<1>3. \A b \in Buffers : Held'[b] = g[b]
  BY <1>1, <1>2, MappedState, MappedStateNext DEF Mapped
<1>4. \A v \in VertexArrays : Held'[v] = g[v]
  BY <1>1, <1>2, MappedState, MappedStateNext DEF Mapped
<1>5. ASSUME NEW d \in Drawables PROVE Held'[d] = g[d]
  <2>1. Held'[d] = drwHeld'[d] /\ Held[d] = drwHeld[d]
    BY MappedState, MappedStateNext DEF Mapped
  <2> QED
    BY <1>1, <1>2, <2>1
<1>6. \A x \in Resource : Held'[x] = g[x]
  BY <1>3, <1>4, <1>5 DEF Resource
<1>7. Held' = g
  BY <1>1, <1>6, MappedFunctions
<1> QED
  BY <1>7 DEF g

\* The same of the parts.
LEMMA PartsOfOne ==
  ASSUME NEW r \in Resource, NEW S,
         \A b \in Buffers : UsedParts'[b] = IF b = r THEN S ELSE UsedParts[b],
         \A v \in VertexArrays : UsedParts'[v] = IF v = r THEN S ELSE UsedParts[v],
         \A d \in Drawables : UsedParts'[d] = IF d = r THEN S ELSE UsedParts[d]
  PROVE  UsedParts' = [UsedParts EXCEPT ![r] = S]
<1> DEFINE g == [UsedParts EXCEPT ![r] = S]
<1>1. g = [x \in Resource |-> g[x]]
      /\ \A x \in Resource : g[x] = IF x = r THEN S ELSE UsedParts[x]
  BY MappedFunctions
<1>2. \A x : x \in Buffers \/ x \in VertexArrays \/ x \in Drawables => x \in Resource
  BY DEF Resource
<1> HIDE DEF g
<1>3. /\ \A b \in Buffers : UsedParts'[b] = g[b]
      /\ \A v \in VertexArrays : UsedParts'[v] = g[v]
      /\ \A d \in Drawables : UsedParts'[d] = g[d]
  BY <1>1, <1>2
<1>4. \A x \in Resource : UsedParts'[x] = g[x]
  BY <1>3 DEF Resource
<1>5. UsedParts' = g
  BY <1>1, <1>4, MappedFunctions
<1> QED
  BY <1>5 DEF g

\* Which uses are forgotten when something is given back: those of what no
\* longer exists.
LEMMA PartsKept ==
  ASSUME Counted', \A v \in VertexArrays : vaoHandle'[v] # 0 => vaoBuffer'[v] = vaoBuffer[v],
         \A d \in Drawables : drwHeld'[d] # {} =>
            drwHeld[d] # {} /\ drwArray'[d] = drwArray[d] /\ drwIndex'[d] = drwIndex[d]
  PROVE  UsedParts' = [x \in Resource |-> IF x \in Existing' THEN UsedParts[x] ELSE {}]
<1> DEFINE g == [x \in Resource |-> IF x \in Existing' THEN UsedParts[x] ELSE {}]
<1>1. g = [x \in Resource |-> g[x]]
  OBVIOUS
<1>2. \A x : x \in Buffers \/ x \in VertexArrays \/ x \in Drawables =>
        g[x] = IF x \in Existing' THEN UsedParts[x] ELSE {}
  BY DEF Resource
<1> HIDE DEF g
<1>3. \A b \in Buffers : UsedParts'[b] = g[b]
  BY <1>2, MappedState, MappedStateNext DEF Mapped
<1>4. ASSUME NEW v \in VertexArrays PROVE UsedParts'[v] = g[v]
  <2>1. vaoHandle'[v] = 0 => vaoBuffer'[v] = Null
    BY DEF Counted, Linked
  <2>2. UsedParts[v] = {vaoBuffer[v]} \ {Null}
    BY MappedState DEF Mapped
  <2>3. UsedParts'[v] = {vaoBuffer'[v]} \ {Null} /\ (v \in Existing' <=> vaoHandle'[v] # 0)
    BY MappedStateNext
  <2> QED
    BY <1>2, <2>1, <2>2, <2>3
<1>5. ASSUME NEW d \in Drawables PROVE UsedParts'[d] = g[d]
  <2>1. UsedParts[d] = IF drwHeld[d] = {} THEN {} ELSE {drwArray[d], drwIndex[d]} \ {Null}
    BY MappedState DEF Mapped
  <2>2. /\ UsedParts'[d] = IF drwHeld'[d] = {} THEN {}
                           ELSE {drwArray'[d], drwIndex'[d]} \ {Null}
        /\ d \in Existing' <=> drwHeld'[d] # {}
    BY MappedStateNext
  <2> QED
    BY <1>2, <2>1, <2>2
<1>6. \A x \in Resource : UsedParts'[x] = g[x]
  BY <1>3, <1>4, <1>5 DEF Resource
<1>7. UsedParts' = g
  BY <1>1, <1>6, MappedFunctions
<1> QED
  BY <1>7 DEF g

\* What exists afterwards, read off kind by kind.
LEMMA SameExisting ==
  ASSUME NEW E, E \subseteq Resource,
         \A b \in Buffers : b \in Existing' <=> b \in E,
         \A v \in VertexArrays : v \in Existing' <=> v \in E,
         \A d \in Drawables : d \in Existing' <=> d \in E
  PROVE  Existing' = E
  BY MappedFunctions DEF Resource

\* What a VAO and a drawable use, before and after a step.
LEMMA PartsRead ==
  /\ \A v \in VertexArrays : /\ UsedParts[v] = {vaoBuffer[v]} \ {Null}
                             /\ UsedParts'[v] = {vaoBuffer'[v]} \ {Null}
  /\ \A d \in Drawables :
       /\ UsedParts[d] = IF drwHeld[d] = {} THEN {} ELSE {drwArray[d], drwIndex[d]} \ {Null}
       /\ UsedParts'[d] = IF drwHeld'[d] = {} THEN {} ELSE {drwArray'[d], drwIndex'[d]} \ {Null}
<1>1. /\ \A v \in VertexArrays : UsedParts[v] = {vaoBuffer[v]} \ {Null}
      /\ \A d \in Drawables :
           UsedParts[d] = IF drwHeld[d] = {} THEN {} ELSE {drwArray[d], drwIndex[d]} \ {Null}
  BY MappedState DEF Mapped
<1>2. /\ \A v \in VertexArrays : UsedParts'[v] = {vaoBuffer'[v]} \ {Null}
      /\ \A d \in Drawables :
           UsedParts'[d] = IF drwHeld'[d] = {} THEN {} ELSE {drwArray'[d], drwIndex'[d]} \ {Null}
  BY MappedStateNext
<1> QED
  BY <1>1, <1>2

\* Steps on a buffer: nothing else is held, linked or deleted.
LEMMA BufferStepMaps ==
  ASSUME Counted, Counted', NEW c \in Clients, NEW b \in Buffers, BufferStep(c, b)
  PROVE  Lifetime!Next
<1>1. UNCHANGED <<vaoVars, drwVars>>
  BY DEF BufferStep, CreateBuffer, ReferenceBuffer, ReleaseBuffer
<1>2. UsedParts' = UsedParts
  BY <1>1 DEF UsedParts, UsedBy, vaoVars, drwVars
<1>3. ASSUME NEW S, bufHeld' = [bufHeld EXCEPT ![b] = S] PROVE Held' = [Held EXCEPT ![b] = S]
  <2>1. \A x \in Buffers : bufHeld'[x] = IF x = b THEN S ELSE bufHeld[x]
    BY <1>3 DEF Counted, TypeOK
  <2>2. /\ \A v \in VertexArrays : vaoHeld'[v] = IF v = b THEN S ELSE vaoHeld[v]
        /\ \A d \in Drawables : drwHeld'[d] = IF d = b THEN S ELSE drwHeld[d]
    BY <1>1, Kinds DEF vaoVars, drwVars
  <2> QED
    BY <2>1, <2>2, Kinds, HeldOfOne
<1>4. CASE CreateBuffer(c, b)
  <2>1. bufHandle[b] = 0 /\ bufHeld' = [bufHeld EXCEPT ![b] = @ \cup {c}]
    BY <1>4 DEF CreateBuffer
  <2>2. bufHeld[b] = {}
    BY <2>1, UnreferencedBuffer DEF Counted, CountsAreExact
  <2>3. Held' = [Held EXCEPT ![b] = {c}]
    BY <1>3, <2>1, <2>2
  <2>4. UsedParts' = [UsedParts EXCEPT ![b] = {}]
    BY <1>2, MappedState, MappedFunctions DEF Mapped
  <2>5. b \notin Existing
    BY <2>1, MappedState DEF Mapped
  <2>6. Existing' = Existing \cup {b}
    <3>1. PICK name \in GLNames : bufHandle' = [bufHandle EXCEPT ![b] = name]
      BY <1>4 DEF CreateBuffer
    <3>2. \A x \in Buffers : bufHandle'[x] # 0 <=> bufHandle[x] # 0 \/ x = b
      BY <3>1, HandleConstants DEF Counted, TypeOK
    <3>3. \A x \in Buffers : x \in Existing' <=> x \in Existing \cup {b}
      BY <3>2, MappedState, MappedStateNext DEF Mapped
    <3>4. \A x \in VertexArrays : x \in Existing' <=> x \in Existing \cup {b}
      BY <1>1, Kinds, MappedState, MappedStateNext DEF Mapped, vaoVars
    <3>5. \A x \in Drawables : x \in Existing' <=> x \in Existing \cup {b}
      BY <1>1, Kinds, MappedState, MappedStateNext DEF Mapped, drwVars
    <3> QED
      BY <3>3, <3>4, <3>5, Kinds, MappedFunctions, SameExisting
  <2>7. {} \in SUBSET Existing /\ b \in Resource
    BY Kinds
  <2>8. Lifetime!Create(c, b)
    BY <2>3, <2>4, <2>5, <2>6, <2>7, CreateMaps
  <2> QED
    BY <2>8, Kinds DEF Lifetime!Next
<1>5. CASE ReferenceBuffer(c, b)
  <2>1. bufHandle[b] # 0 /\ bufHandle' = bufHandle /\ bufHeld' = [bufHeld EXCEPT ![b] = @ \cup {c}]
    BY <1>5 DEF ReferenceBuffer, ReferenceBuffers
  <2>2. Held[b] = bufHeld[b] /\ b \in Existing
    BY <2>1, MappedState DEF Mapped
  <2>3. Held' = [Held EXCEPT ![b] = @ \cup {c}]
    BY <1>3, <2>1, <2>2
  <2>4. Existing' = Existing
    BY <1>1, <2>1 DEF Existing, vaoVars, drwVars
  <2>5. Lifetime!Reference(c, b)
    BY <1>2, <2>2, <2>3, <2>4, Kinds, ReferenceMaps
  <2> QED
    BY <2>5, Kinds DEF Lifetime!Next
<1>6. CASE ReleaseBuffer(c, b)
  <2>1. c \in bufHeld[b] /\ bufHeld' = [bufHeld EXCEPT ![b] = @ \ {c}]
    BY <1>6 DEF ReleaseBuffer
  <2>2. Held[b] = bufHeld[b]
    BY MappedState DEF Mapped
  <2>3. Held' = [Held EXCEPT ![b] = @ \ {c}]
    BY <1>3, <2>1, <2>2
  <2>4. UsedParts' = [x \in Resource |-> IF x \in Existing' THEN UsedParts[x] ELSE {}]
    BY <1>1, PartsKept DEF vaoVars, drwVars
  <2>5. Lifetime!Release(c, b)
    BY <2>1, <2>2, <2>3, <2>4, Kinds, ReleaseMaps
  <2> QED
    BY <2>5, Kinds DEF Lifetime!Next
<1> QED
  BY <1>4, <1>5, <1>6 DEF BufferStep

\* Steps on a VAO: its buffer is its one part, and may cease to exist with it.
LEMMA VertexArrayStepMaps ==
  ASSUME Counted, Counted', NEW c \in Clients, NEW v \in VertexArrays, VertexArrayStep(c, v)
  PROVE  Lifetime!Next
<1>1. UNCHANGED <<bufHeld, drwVars>>
  BY DEF VertexArrayStep, CreateVertexArray, ReferenceVertexArray, ReleaseVertexArray
<1>2. ASSUME NEW S, vaoHeld' = [vaoHeld EXCEPT ![v] = S] PROVE Held' = [Held EXCEPT ![v] = S]
  <2>1. \A x \in VertexArrays : vaoHeld'[x] = IF x = v THEN S ELSE vaoHeld[x]
    BY <1>2 DEF Counted, TypeOK
  <2>2. /\ \A b \in Buffers : bufHeld'[b] = IF b = v THEN S ELSE bufHeld[b]
        /\ \A d \in Drawables : drwHeld'[d] = IF d = v THEN S ELSE drwHeld[d]
    BY <1>1, Kinds DEF drwVars
  <2> QED
    BY <2>1, <2>2, Kinds, HeldOfOne
<1>3. Held[v] = vaoHeld[v]
  BY MappedState DEF Mapped
<1>4. ASSUME NEW b \in Buffers, CreateVertexArray(c, v, b) PROVE Lifetime!Next
  <2>1. /\ vaoHandle[v] = 0 /\ bufHandle[b] # 0 /\ bufHandle' = bufHandle
        /\ vaoHeld' = [vaoHeld EXCEPT ![v] = @ \cup {c}]
        /\ vaoBuffer' = [vaoBuffer EXCEPT ![v] = b]
    BY <1>4 DEF CreateVertexArray, ReferenceBuffers
  <2>2. vaoHeld[v] = {}
    BY <2>1, UnreferencedArray DEF Counted, CountsAreExact
  <2>3. Held' = [Held EXCEPT ![v] = {c}]
    BY <1>2, <2>1, <2>2
  <2>4. UsedParts' = [UsedParts EXCEPT ![v] = {b}]
    <3>1. ASSUME NEW x \in VertexArrays PROVE UsedParts'[x] = IF x = v THEN {b} ELSE UsedParts[x]
      <4>1. vaoBuffer'[x] = IF x = v THEN b ELSE vaoBuffer[x]
        BY <2>1 DEF Counted, TypeOK
      <4>2. UsedParts[x] = {vaoBuffer[x]} \ {Null} /\ UsedParts'[x] = {vaoBuffer'[x]} \ {Null}
        BY PartsRead
      <4>3. {b} \ {Null} = {b}
        BY HandleConstants
      <4> QED
        BY <4>1, <4>2, <4>3
    <3>2. \A x \in Buffers : UsedParts'[x] = IF x = v THEN {b} ELSE UsedParts[x]
      BY Kinds, MappedState, MappedStateNext DEF Mapped
    <3>3. \A x \in Drawables : UsedParts'[x] = IF x = v THEN {b} ELSE UsedParts[x]
      BY <1>1, Kinds, PartsRead DEF drwVars
    <3> QED
      BY <3>1, <3>2, <3>3, Kinds, PartsOfOne
  <2>5. v \notin Existing
    BY <2>1, MappedState DEF Mapped
  <2>6. Existing' = Existing \cup {v}
    <3>1. PICK name \in GLNames : vaoHandle' = [vaoHandle EXCEPT ![v] = name]
      BY <1>4 DEF CreateVertexArray
    <3>2. \A x \in VertexArrays : vaoHandle'[x] # 0 <=> vaoHandle[x] # 0 \/ x = v
      BY <3>1, HandleConstants DEF Counted, TypeOK
    <3>3. \A x \in VertexArrays : x \in Existing' <=> x \in Existing \cup {v}
      BY <3>2, MappedState, MappedStateNext DEF Mapped
    <3>4. \A x \in Buffers : x \in Existing' <=> x \in Existing \cup {v}
      BY <2>1, Kinds, MappedState, MappedStateNext DEF Mapped
    <3>5. \A x \in Drawables : x \in Existing' <=> x \in Existing \cup {v}
      BY <1>1, Kinds, MappedState, MappedStateNext DEF Mapped, drwVars
    <3> QED
      BY <3>3, <3>4, <3>5, Kinds, MappedFunctions, SameExisting
  <2>7. {b} \in SUBSET Existing /\ v \in Resource
    BY <2>1, Kinds, MappedState DEF Mapped
  <2>8. Lifetime!Create(c, v)
    BY <2>3, <2>4, <2>5, <2>6, <2>7, CreateMaps
  <2> QED
    BY <2>8, Kinds DEF Lifetime!Next
<1>5. CASE ReferenceVertexArray(c, v)
  <2>1. /\ vaoHandle[v] # 0 /\ UNCHANGED <<bufHandle, vaoHandle, vaoBuffer>>
        /\ vaoHeld' = [vaoHeld EXCEPT ![v] = @ \cup {c}]
    BY <1>5 DEF ReferenceVertexArray, ReferenceBuffers
  <2>2. v \in Existing
    BY <2>1, MappedState DEF Mapped
  <2>3. Held' = [Held EXCEPT ![v] = @ \cup {c}]
    BY <1>2, <1>3, <2>1
  <2>4. Existing' = Existing /\ UsedParts' = UsedParts
    BY <1>1, <2>1 DEF Existing, UsedParts, UsedBy, drwVars
  <2>5. Lifetime!Reference(c, v)
    BY <2>2, <2>3, <2>4, Kinds, ReferenceMaps
  <2> QED
    BY <2>5, Kinds DEF Lifetime!Next
<1>6. CASE ReleaseVertexArray(c, v)
  <2>1. /\ c \in vaoHeld[v] /\ ReleaseArray(v)
        /\ vaoHeld' = [vaoHeld EXCEPT ![v] = @ \ {c}]
    BY <1>6 DEF ReleaseVertexArray
  <2>2. Held' = [Held EXCEPT ![v] = @ \ {c}]
    BY <1>2, <1>3, <2>1
  <2>3. ArrayReferences(v) # 0
    BY <2>1, UnreferencedArray DEF Counted
  <2>4. \A x \in VertexArrays : vaoHandle'[x] # 0 => vaoBuffer'[x] = vaoBuffer[x]
    BY <2>1, <2>3, ReleasedArrayLinks DEF Counted, TypeOK
  <2>5. UsedParts' = [x \in Resource |-> IF x \in Existing' THEN UsedParts[x] ELSE {}]
    BY <1>1, <2>4, PartsKept DEF drwVars
  <2>6. Lifetime!Release(c, v)
    BY <1>3, <2>1, <2>2, <2>5, Kinds, ReleaseMaps
  <2> QED
    BY <2>6, Kinds DEF Lifetime!Next
<1> QED
  BY <1>4, <1>5, <1>6 DEF VertexArrayStep

\* A drawable that is still held draws what it drew: it loses its pointers only
\* with the last reference to its VAO.
LEMMA ReleasedDrawableLinks ==
  ASSUME Counted, NEW c \in Clients, NEW d \in Drawables, ReleaseDrawable(c, d)
  PROVE  /\ \A e \in Drawables : drwHeld'[e] # {} =>
              drwHeld[e] # {} /\ drwArray'[e] = drwArray[e] /\ drwIndex'[e] = drwIndex[e]
         /\ \A x \in VertexArrays : vaoHandle'[x] # 0 => vaoBuffer'[x] = vaoBuffer[x]
<1> USE DEF Counted
<1> DEFINE v == drwArray[d]
<1>1. /\ c \in drwHeld[d] /\ drwHeld' = [drwHeld EXCEPT ![d] = @ \ {c}]
      /\ ReleaseArray(v)
  BY DEF ReleaseDrawable
<1>2. v \in VertexArrays /\ ArrayReferences(v) # 0
  BY <1>1, HeldDrawableIsLive
<1>3. \A x \in VertexArrays : vaoHandle'[x] # 0 => vaoBuffer'[x] = vaoBuffer[x]
  BY <1>1, <1>2, ReleasedArrayLinks DEF TypeOK
<1>4. ASSUME drwHeld'[d] # {} PROVE ~(vaoHandle[v] # 0 /\ vaoRefs[v] <= 1)
  <2>1. PICK y \in Clients : y \in drwHeld[d] /\ y # c
    BY <1>1, <1>4 DEF TypeOK
  <2>2. {<<c, d>>, <<y, d>>} \subseteq DrawableUses(v) /\ <<c, d>> # <<y, d>>
    BY <1>1, <2>1 DEF DrawableUses
  <2>3. Cardinality(DrawableUses(v)) \in Nat /\ Cardinality(vaoHeld[v]) \in Nat
    BY <1>2, UseSetsCounted
  <2>4. Cardinality(DrawableUses(v)) # 0
    BY <1>2, <2>2, UseSetsFinite, FS_EmptySet
  <2>5. Cardinality(DrawableUses(v)) # 1
    <3> SUFFICES ASSUME Cardinality(DrawableUses(v)) = 1 PROVE FALSE
      OBVIOUS
    <3>1. PICK z : DrawableUses(v) = {z}
      BY <1>2, UseSetsFinite, FS_Singleton
    <3> QED
      BY <2>2, <3>1
  <2>6. vaoRefs[v] = Cardinality(vaoHeld[v]) + Cardinality(DrawableUses(v))
    BY <1>2 DEF CountsAreExact, ArrayReferences
  <2> QED
    BY <2>3, <2>4, <2>5, <2>6
<1>5. ASSUME NEW e \in Drawables, drwHeld'[e] # {}
      PROVE  drwHeld[e] # {} /\ drwArray'[e] = drwArray[e] /\ drwIndex'[e] = drwIndex[e]
  <2>1. CASE e = d
    BY <1>1, <1>4, <1>5, <2>1 DEF ReleaseDrawable, TypeOK
  <2>2. CASE e # d
    BY <1>1, <1>5, <2>2 DEF ReleaseDrawable, TypeOK
  <2> QED
    BY <2>1, <2>2
<1> QED
  BY <1>3, <1>5

\* Steps on a drawable: its VAO and its index buffer are its parts, and both,
\* and the VAO's buffer, may cease to exist with it.
LEMMA DrawableStepMaps ==
  ASSUME Counted, Counted', NEW c \in Clients, NEW d \in Drawables, DrawableStep(c, d)
  PROVE  Lifetime!Next
<1>1. UNCHANGED <<bufHeld, vaoHeld>>
  BY DEF DrawableStep, CreateDrawable, ReferenceDrawable, ReleaseDrawable,
         ReferenceDrawableParts
<1>2. ASSUME NEW S, drwHeld' = [drwHeld EXCEPT ![d] = S] PROVE Held' = [Held EXCEPT ![d] = S]
  <2>1. \A x \in Drawables : drwHeld'[x] = IF x = d THEN S ELSE drwHeld[x]
    BY <1>2 DEF Counted, TypeOK
  <2>2. /\ \A b \in Buffers : bufHeld'[b] = IF b = d THEN S ELSE bufHeld[b]
        /\ \A v \in VertexArrays : vaoHeld'[v] = IF v = d THEN S ELSE vaoHeld[v]
    BY <1>1, Kinds
  <2> QED
    BY <2>1, <2>2, Kinds, HeldOfOne
<1>3. Held[d] = drwHeld[d]
  BY MappedState DEF Mapped
<1>4. ASSUME NEW v \in VertexArrays, NEW ib \in Buffers \cup {Null}, CreateDrawable(c, d, v, ib)
      PROVE  Lifetime!Next
  <2> DEFINE index == IF BufferIsLive(ib) THEN ib ELSE Null
             parts == {v, index} \ {Null}
  <2>1. /\ drwArray[d] = Null /\ vaoHandle[v] # 0
        /\ UNCHANGED <<bufHandle, vaoHandle, vaoBuffer>>
        /\ drwHeld' = [drwHeld EXCEPT ![d] = @ \cup {c}]
        /\ drwArray' = [drwArray EXCEPT ![d] = v]
        /\ drwIndex' = [drwIndex EXCEPT ![d] = index]
    BY <1>4 DEF CreateDrawable, ReferenceDrawableParts, ReferenceBuffers
  <2>2. drwHeld[d] = {}
    BY <2>1 DEF Counted, Linked
  <2>3. Held' = [Held EXCEPT ![d] = {c}]
    BY <1>2, <2>1, <2>2
  <2>4. index # Null => index \in Buffers /\ bufHandle[index] # 0
    BY DEF BufferIsLive
  <2> HIDE DEF index
  <2>5. /\ \A x \in Drawables : drwHeld'[x] = IF x = d THEN {c} ELSE drwHeld[x]
        /\ \A x \in Drawables : drwArray'[x] = IF x = d THEN v ELSE drwArray[x]
        /\ \A x \in Drawables : drwIndex'[x] = IF x = d THEN index ELSE drwIndex[x]
    BY <2>1, <2>2 DEF Counted, TypeOK
  <2>6. UsedParts' = [UsedParts EXCEPT ![d] = parts]
    <3>1. ASSUME NEW x \in Drawables PROVE UsedParts'[x] = IF x = d THEN parts ELSE UsedParts[x]
      <4>1. /\ UsedParts[x] = IF drwHeld[x] = {} THEN {} ELSE {drwArray[x], drwIndex[x]} \ {Null}
            /\ UsedParts'[x] = IF drwHeld'[x] = {} THEN {}
                               ELSE {drwArray'[x], drwIndex'[x]} \ {Null}
        BY PartsRead
      <4>2. CASE x = d
        BY <2>5, <4>1, <4>2
      <4>3. CASE x # d
        BY <2>5, <4>1, <4>3
      <4> QED
        BY <4>2, <4>3
    <3>2. \A x \in Buffers : UsedParts'[x] = IF x = d THEN parts ELSE UsedParts[x]
      BY Kinds, MappedState, MappedStateNext DEF Mapped
    <3>3. \A x \in VertexArrays : UsedParts'[x] = IF x = d THEN parts ELSE UsedParts[x]
      BY <2>1, Kinds, PartsRead
    <3> HIDE DEF parts
    <3> QED
      BY <3>1, <3>2, <3>3, Kinds, PartsOfOne
  <2>7. d \notin Existing
    BY <2>2, MappedState DEF Mapped
  <2>8. Existing' = Existing \cup {d}
    <3>1. ASSUME NEW x \in Drawables PROVE x \in Existing' <=> x \in Existing \cup {d}
      <4>1. (x \in Existing <=> drwHeld[x] # {}) /\ (x \in Existing' <=> drwHeld'[x] # {})
        BY MappedState, MappedStateNext DEF Mapped
      <4>2. drwHeld'[x] # {} <=> drwHeld[x] # {} \/ x = d
        BY <2>5
      <4> QED
        BY <4>1, <4>2
    <3>2. \A x \in Buffers : x \in Existing' <=> x \in Existing \cup {d}
      BY <2>1, Kinds, MappedState, MappedStateNext DEF Mapped
    <3>3. \A x \in VertexArrays : x \in Existing' <=> x \in Existing \cup {d}
      BY <2>1, Kinds, MappedState, MappedStateNext DEF Mapped
    <3> QED
      BY <3>1, <3>2, <3>3, Kinds, MappedFunctions, SameExisting
  <2>9. parts \in SUBSET Existing /\ d \in Resource
    <3>1. v \in Existing /\ (index # Null => index \in Existing)
      BY <2>1, <2>4, MappedState DEF Mapped
    <3> QED
      BY <3>1, Kinds
  <2>10. Lifetime!Create(c, d)
    <3> HIDE DEF parts
    <3> QED
      BY <2>3, <2>6, <2>7, <2>8, <2>9, CreateMaps
  <2> QED
    BY <2>10, Kinds DEF Lifetime!Next
<1>5. CASE ReferenceDrawable(c, d)
  <2>1. /\ drwHeld[d] # {} /\ drwHeld' = [drwHeld EXCEPT ![d] = @ \cup {c}]
        /\ UNCHANGED <<bufHandle, vaoHandle, vaoBuffer, drwArray, drwIndex>>
    BY <1>5 DEF ReferenceDrawable, ReferenceDrawableParts, ReferenceBuffers
  <2>2. \A x \in Drawables : drwHeld'[x] = {} <=> drwHeld[x] = {}
    BY <2>1 DEF Counted, TypeOK
  <2>3. d \in Existing
    BY <2>1, MappedState DEF Mapped
  <2>4. Held' = [Held EXCEPT ![d] = @ \cup {c}]
    BY <1>2, <1>3, <2>1
  <2>5. Existing' = Existing
    BY <2>1, <2>2 DEF Existing
  <2>6. UsedParts' = UsedParts
    <3>1. \A x \in Drawables : UsedParts'[x] = UsedParts[x]
      BY <2>1, <2>2, PartsRead
    <3>2. \A x \in Buffers : UsedParts'[x] = UsedParts[x]
      BY MappedState, MappedStateNext DEF Mapped
    <3>3. \A x \in VertexArrays : UsedParts'[x] = UsedParts[x]
      BY <2>1, PartsRead
    <3>4. \A x \in Resource : UsedParts'[x] = UsedParts[x]
      BY <3>1, <3>2, <3>3 DEF Resource
    <3> QED
      BY <3>4, MappedFunctions
  <2>7. Lifetime!Reference(c, d)
    BY <2>3, <2>4, <2>5, <2>6, Kinds, ReferenceMaps
  <2> QED
    BY <2>7, Kinds DEF Lifetime!Next
<1>6. CASE ReleaseDrawable(c, d)
  <2>1. c \in drwHeld[d] /\ drwHeld' = [drwHeld EXCEPT ![d] = @ \ {c}]
    BY <1>6 DEF ReleaseDrawable
  <2>2. Held' = [Held EXCEPT ![d] = @ \ {c}]
    BY <1>2, <1>3, <2>1
  <2>3. UsedParts' = [x \in Resource |-> IF x \in Existing' THEN UsedParts[x] ELSE {}]
    BY <1>6, ReleasedDrawableLinks, PartsKept
  <2>4. Lifetime!Release(c, d)
    BY <1>3, <2>1, <2>2, <2>3, Kinds, ReleaseMaps
  <2> QED
    BY <2>4, Kinds DEF Lifetime!Next
<1> QED
  BY <1>4, <1>5, <1>6 DEF DrawableStep

------------------------------------------------------------------------------
\* Creating, referencing and releasing handles is creating, referencing and
\* releasing resources that exist as long as something held reaches them.
THEOREM LifetimeImplemented == Spec => ImplementsLifetime
<1>1. Init => Lifetime!Init
  <2> SUFFICES ASSUME Init PROVE Lifetime!Init
    OBVIOUS
  <2>1. \A r \in Resource : HeldBy(r) = {} /\ UsedBy(r) = {}
    BY Kinds DEF Init, HeldBy, UsedBy, Resource
  <2>2. Existing = {}
    BY DEF Init, Existing
  <2> QED
    BY <2>1, <2>2 DEF Lifetime!Init
<1>2. Counted /\ Counted' /\ [Next]_vars => [Lifetime!Next]_(Lifetime!lifetimeVars)
  <2> SUFFICES ASSUME Counted, Counted', [Next]_vars
               PROVE  [Lifetime!Next]_(Lifetime!lifetimeVars)
    OBVIOUS
  <2>1. CASE UNCHANGED vars
    BY <2>1 DEF vars, bufVars, vaoVars, drwVars, Lifetime!lifetimeVars, HeldBy, UsedBy, Existing
  <2>2. CASE Next
    BY <2>2, BufferStepMaps, VertexArrayStepMaps, DrawableStepMaps DEF Next
  <2> QED
    BY <2>1, <2>2
<1>3. Spec => []Counted
  BY CountsInvariant, PTL DEF Counted
<1> QED
  BY <1>1, <1>2, <1>3, PTL DEF Spec, ImplementsLifetime, Lifetime!Spec
==============================================================================
