--------------------------- MODULE GraphicsHandles ---------------------------
(***************************************************************************)
(* The reference-counted graphics objects that geometry is built from:     *)
(* buffer objects, vertex arrays (a VAO reads one vertex buffer) and       *)
(* drawables (a drawable draws one VAO, optionally through an index        *)
(* buffer).  Buffers and VAOs own a driver object, named by a non-zero     *)
(* handle; a drawable owns none and only keeps references.                 *)
(*                                                                         *)
(* Clients follow the documented protocol: who creates or references an    *)
(* object releases it once.  "held" records who still has to do so; it is  *)
(* the one part of the state the program does not keep.                    *)
(*                                                                         *)
(* A call whose guard fails returns -1 (or 0 when the driver has no name   *)
(* to give) and changes nothing, so it is no step here.                    *)
(***************************************************************************)
EXTENDS Integers, FiniteSets

CONSTANTS
  Clients,        \* the parts of the program that create and release objects
  Buffers,        \* storage for a3_BufferObject (vertex and index data)
  VertexArrays,   \* storage for a3_VertexArrayDescriptor
  Drawables,      \* storage for a3_VertexDrawable
  GLNames,        \* the names the driver can give to a buffer or to a VAO
  Null            \* the null pointer

ASSUME HandleConstants ==
  /\ IsFiniteSet(Clients) /\ IsFiniteSet(Buffers)
  /\ IsFiniteSet(VertexArrays) /\ IsFiniteSet(Drawables)
  /\ GLNames \subseteq Nat \ {0}
  /\ Null \notin Buffers /\ Null \notin VertexArrays
  /\ Buffers \cap VertexArrays = {} /\ (Buffers \cup VertexArrays) \cap Drawables = {}

VARIABLES
  bufHandle, bufRefs, bufHeld,
  vaoHandle, vaoRefs, vaoBuffer, vaoHeld,
  drwArray, drwIndex, drwHeld,
  glBuffers, glArrays           \* the objects that exist in the driver

bufVars == <<bufHandle, bufRefs, bufHeld, glBuffers>>
vaoVars == <<vaoHandle, vaoRefs, vaoBuffer, vaoHeld, glArrays>>
drwVars == <<drwArray, drwIndex, drwHeld>>
vars    == <<bufVars, vaoVars, drwVars>>

TypeOK ==
  /\ bufHandle \in [Buffers -> GLNames \cup {0}]
  /\ bufRefs   \in [Buffers -> Nat]
  /\ bufHeld   \in [Buffers -> SUBSET Clients]
  /\ vaoHandle \in [VertexArrays -> GLNames \cup {0}]
  /\ vaoRefs   \in [VertexArrays -> Nat]
  /\ vaoBuffer \in [VertexArrays -> Buffers \cup {Null}]
  /\ vaoHeld   \in [VertexArrays -> SUBSET Clients]
  /\ drwArray  \in [Drawables -> VertexArrays \cup {Null}]
  /\ drwIndex  \in [Drawables -> Buffers \cup {Null}]
  /\ drwHeld   \in [Drawables -> SUBSET Clients]
  /\ glBuffers \subseteq GLNames
  /\ glArrays  \subseteq GLNames

Init ==
  /\ bufHandle = [b \in Buffers |-> 0]
  /\ bufRefs   = [b \in Buffers |-> 0]
  /\ bufHeld   = [b \in Buffers |-> {}]
  /\ vaoHandle = [v \in VertexArrays |-> 0]
  /\ vaoRefs   = [v \in VertexArrays |-> 0]
  /\ vaoBuffer = [v \in VertexArrays |-> Null]
  /\ vaoHeld   = [v \in VertexArrays |-> {}]
  /\ drwArray  = [d \in Drawables |-> Null]
  /\ drwIndex  = [d \in Drawables |-> Null]
  /\ drwHeld   = [d \in Drawables |-> {}]
  /\ glBuffers = {}
  /\ glArrays  = {}

------------------------------------------------------------------------------
(* Counting.  Releasing a handle n times: it dies when its count reaches    *)
(* zero, and a dead handle ignores what is left of the n.                   *)

BufferIsLive(b) == b \in Buffers /\ bufHandle[b] # 0

Decrement(count, n) == IF count > n THEN count - n ELSE 0

\* How often buffer b is named by a call that touches a vertex and an index buffer.
Uses(b, vertexBuffer, indexBuffer) ==
  (IF b = vertexBuffer THEN 1 ELSE 0) + (IF b = indexBuffer THEN 1 ELSE 0)

\* a3bufferReference on both; a null pointer or a dead handle is left alone.
ReferenceBuffers(vb, ib) ==
  /\ bufRefs' = [b \in Buffers |->
                   IF bufHandle[b] # 0 THEN bufRefs[b] + Uses(b, vb, ib) ELSE bufRefs[b]]
  /\ UNCHANGED <<bufHandle, glBuffers>>

\* Slips: "< 0" and "<= 1" for "<= 0" after the decrement.
BufferDiesLate(b, vb, ib) ==
  bufHandle[b] # 0 /\ Uses(b, vb, ib) > 0 /\ bufRefs[b] < Uses(b, vb, ib)

BufferDiesEarly(b, vb, ib) ==
  bufHandle[b] # 0 /\ Uses(b, vb, ib) > 0 /\ bufRefs[b] <= Uses(b, vb, ib) + 1

\* a3bufferRelease on both, with the driver call of the release function.
BufferDies(b, vb, ib) ==
  bufHandle[b] # 0 /\ Uses(b, vb, ib) > 0 /\ bufRefs[b] <= Uses(b, vb, ib)

\* Slip: the index buffer is not released.
ReleaseBuffersNoIndex(vb, ib) ==
  /\ bufRefs'   = [b \in Buffers |-> Decrement(bufRefs[b], Uses(b, vb, Null))]
  /\ bufHandle' = [b \in Buffers |-> IF BufferDies(b, vb, Null) THEN 0 ELSE bufHandle[b]]
  /\ glBuffers' = glBuffers \ {bufHandle[b] : b \in {x \in Buffers : BufferDies(x, vb, Null)}}

ReleaseBuffers(vb, ib) ==
  /\ bufRefs'   = [b \in Buffers |-> Decrement(bufRefs[b], Uses(b, vb, ib))]
  /\ bufHandle' = [b \in Buffers |-> IF BufferDies(b, vb, ib) THEN 0 ELSE bufHandle[b]]
  /\ glBuffers' = glBuffers \ {bufHandle[b] : b \in {x \in Buffers : BufferDies(x, vb, ib)}}

\* Slip: no release function was set, so the driver keeps the VAO.
ReleaseArrayKeepsName(v) ==
  LET vaoDies == vaoHandle[v] # 0 /\ vaoRefs[v] <= 1
  IN /\ vaoRefs'   = [vaoRefs EXCEPT ![v] = Decrement(@, 1)]
     /\ vaoHandle' = [vaoHandle EXCEPT ![v] = IF vaoDies THEN 0 ELSE @]
     /\ vaoBuffer' = [vaoBuffer EXCEPT ![v] = IF vaoDies THEN Null ELSE @]
     /\ UNCHANGED glArrays

\* The VAO's own count when it is released; vertexBuffer is cleared when the
\* VAO dies, and also when the buffer it named has just died.
ReleaseArray(v) ==
  LET vaoDies == vaoHandle[v] # 0 /\ vaoRefs[v] <= 1
      bufDies == vaoBuffer[v] # Null /\ BufferDies(vaoBuffer[v], vaoBuffer[v], Null)
  IN /\ vaoRefs'   = [vaoRefs EXCEPT ![v] = Decrement(@, 1)]
     /\ vaoHandle' = [vaoHandle EXCEPT ![v] = IF vaoDies THEN 0 ELSE @]
     /\ vaoBuffer' = [vaoBuffer EXCEPT ![v] = IF vaoDies \/ bufDies THEN Null ELSE @]
     /\ glArrays'  = IF vaoDies THEN glArrays \ {vaoHandle[v]} ELSE glArrays

------------------------------------------------------------------------------
(* Buffer objects.                                                          *)

CreateBuffer(c, b) ==
  /\ bufHandle[b] = 0
  /\ \E name \in GLNames \ glBuffers :
       /\ bufHandle' = [bufHandle EXCEPT ![b] = name]
       /\ glBuffers' = glBuffers \cup {name}
  /\ bufRefs' = [bufRefs EXCEPT ![b] = 1]
  /\ bufHeld' = [bufHeld EXCEPT ![b] = @ \cup {c}]
  /\ UNCHANGED <<vaoVars, drwVars>>

ReferenceBuffer(c, b) ==
  /\ bufHandle[b] # 0
  /\ c \notin bufHeld[b]
  /\ ReferenceBuffers(b, Null)
  /\ bufHeld' = [bufHeld EXCEPT ![b] = @ \cup {c}]
  /\ UNCHANGED <<vaoVars, drwVars>>

ReleaseBuffer(c, b) ==
  /\ c \in bufHeld[b]
  /\ bufHeld' = [bufHeld EXCEPT ![b] = @ \ {c}]
  /\ ReleaseBuffers(b, Null)
  /\ UNCHANGED <<vaoVars, drwVars>>

------------------------------------------------------------------------------
(* Vertex arrays: every reference to a VAO is also one to its buffer.       *)

CreateVertexArray(c, v, b) ==
  /\ vaoHandle[v] = 0
  /\ bufHandle[b] # 0
  /\ \E name \in GLNames \ glArrays :
       /\ vaoHandle' = [vaoHandle EXCEPT ![v] = name]
       /\ glArrays'  = glArrays \cup {name}
  /\ vaoBuffer' = [vaoBuffer EXCEPT ![v] = b]
  /\ vaoRefs'   = [vaoRefs EXCEPT ![v] = 1]
  /\ vaoHeld'   = [vaoHeld EXCEPT ![v] = @ \cup {c}]
  /\ ReferenceBuffers(b, Null)
  /\ UNCHANGED <<bufHeld, drwVars>>

ReferenceVertexArray(c, v) ==
  /\ vaoHandle[v] # 0
  /\ BufferIsLive(vaoBuffer[v])
  /\ c \notin vaoHeld[v]
  /\ ReferenceBuffers(vaoBuffer[v], Null)
  /\ vaoRefs' = [vaoRefs EXCEPT ![v] = @ + 1]
  /\ vaoHeld' = [vaoHeld EXCEPT ![v] = @ \cup {c}]
  /\ UNCHANGED <<bufHeld, vaoHandle, vaoBuffer, glArrays, drwVars>>

ReleaseVertexArray(c, v) ==
  /\ c \in vaoHeld[v]
  /\ vaoHeld' = [vaoHeld EXCEPT ![v] = @ \ {c}]
  /\ ReleaseBuffers(vaoBuffer[v], Null)
  /\ ReleaseArray(v)
  /\ UNCHANGED <<bufHeld, drwVars>>

------------------------------------------------------------------------------
(* Drawables: every reference is one to the VAO (and so to its buffer) and  *)
(* one to the index buffer.                                                 *)

\* Slip: the index buffer is not referenced.
ReferenceDrawableNoIndex(v, ib) ==
  /\ ReferenceBuffers(vaoBuffer[v], Null)
  /\ vaoRefs' = [vaoRefs EXCEPT ![v] = IF BufferIsLive(vaoBuffer[v]) THEN @ + 1 ELSE @]
  /\ UNCHANGED <<bufHeld, vaoHandle, vaoBuffer, vaoHeld, glArrays>>

ReferenceDrawableParts(v, ib) ==
  /\ ReferenceBuffers(vaoBuffer[v], ib)
  /\ vaoRefs' = [vaoRefs EXCEPT ![v] = IF BufferIsLive(vaoBuffer[v]) THEN @ + 1 ELSE @]
  /\ UNCHANGED <<bufHeld, vaoHandle, vaoBuffer, vaoHeld, glArrays>>

\* With an index buffer that is missing or dead the drawable is still made,
\* without indexing.  ib = Null is also a3vertexDrawableCreate.
CreateDrawable(c, d, v, ib) ==
  LET index == IF BufferIsLive(ib) THEN ib ELSE Null
  IN /\ drwArray[d] = Null
     /\ vaoHandle[v] # 0
     /\ drwArray' = [drwArray EXCEPT ![d] = v]
     /\ drwIndex' = [drwIndex EXCEPT ![d] = index]
     /\ drwHeld'  = [drwHeld EXCEPT ![d] = @ \cup {c}]
     /\ ReferenceDrawableParts(v, index)

ReferenceDrawable(c, d) ==
  /\ drwHeld[d] # {}
  /\ c \notin drwHeld[d]
  /\ drwArray[d] # Null
  /\ drwHeld' = [drwHeld EXCEPT ![d] = @ \cup {c}]
  /\ ReferenceDrawableParts(drwArray[d], drwIndex[d])
  /\ UNCHANGED <<drwArray, drwIndex>>

\* The pointers are cleared only when the VAO itself died.
ReleaseDrawable(c, d) ==
  LET v == drwArray[d]
      vaoDies == vaoHandle[v] # 0 /\ vaoRefs[v] <= 1
  IN /\ c \in drwHeld[d]
     /\ v # Null
     /\ drwHeld' = [drwHeld EXCEPT ![d] = @ \ {c}]
     /\ ReleaseBuffers(vaoBuffer[v], drwIndex[d])
     /\ ReleaseArray(v)
     /\ drwArray' = [drwArray EXCEPT ![d] = IF vaoDies THEN Null ELSE @]
     /\ drwIndex' = [drwIndex EXCEPT ![d] = IF vaoDies THEN Null ELSE @]
     /\ UNCHANGED <<bufHeld, vaoHeld>>

------------------------------------------------------------------------------
BufferStep(c, b) == CreateBuffer(c, b) \/ ReferenceBuffer(c, b) \/ ReleaseBuffer(c, b)

VertexArrayStep(c, v) ==
  \/ \E b \in Buffers : CreateVertexArray(c, v, b)
  \/ ReferenceVertexArray(c, v)
  \/ ReleaseVertexArray(c, v)

DrawableStep(c, d) ==
  \/ \E v \in VertexArrays, ib \in Buffers \cup {Null} : CreateDrawable(c, d, v, ib)
  \/ ReferenceDrawable(c, d)
  \/ ReleaseDrawable(c, d)

Next ==
  \E c \in Clients :
    \/ \E b \in Buffers : BufferStep(c, b)
    \/ \E v \in VertexArrays : VertexArrayStep(c, v)
    \/ \E d \in Drawables : DrawableStep(c, d)

Spec == Init /\ [][Next]_vars

------------------------------------------------------------------------------
(* The references each count stands for.                                    *)

DrawableUses(v) ==
  {p \in Clients \X Drawables : p[1] \in drwHeld[p[2]] /\ drwArray[p[2]] = v}

ArrayUses(b) ==
  {p \in Clients \X VertexArrays : p[1] \in vaoHeld[p[2]] /\ vaoBuffer[p[2]] = b}

DrawableArrayUses(b) ==
  {p \in Clients \X Drawables : /\ p[1] \in drwHeld[p[2]]
                                /\ drwArray[p[2]] # Null
                                /\ vaoBuffer[drwArray[p[2]]] = b}

IndexUses(b) ==
  {p \in Clients \X Drawables : p[1] \in drwHeld[p[2]] /\ drwIndex[p[2]] = b}

ArrayReferences(v) == Cardinality(vaoHeld[v]) + Cardinality(DrawableUses(v))

BufferReferences(b) ==
  Cardinality(bufHeld[b]) + Cardinality(ArrayUses(b))
    + Cardinality(DrawableArrayUses(b)) + Cardinality(IndexUses(b))

(* Every count is the number of outstanding references to the handle: the   *)
(* increments of the three create paths and the decrements of the three     *)
(* release paths pair up however the calls interleave, and a handle is dead *)
(* exactly when nothing refers to it.                                       *)
CountsAreExact ==
  /\ \A b \in Buffers :
       bufRefs[b] = BufferReferences(b) /\ (bufHandle[b] = 0 <=> bufRefs[b] = 0)
  /\ \A v \in VertexArrays :
       vaoRefs[v] = ArrayReferences(v) /\ (vaoHandle[v] = 0 <=> vaoRefs[v] = 0)

(* Whatever a client still holds can be used: a held VAO exists and reads a *)
(* buffer that exists, a held drawable has a VAO that exists and an index   *)
(* buffer that exists, so binding it never binds a deleted name.            *)
ArrayIsUsable(v) ==
  /\ vaoHandle[v] \in glArrays
  /\ vaoBuffer[v] # Null
  /\ bufHandle[vaoBuffer[v]] \in glBuffers

HeldObjectsAreUsable ==
  /\ \A b \in Buffers : bufHeld[b] # {} => bufHandle[b] \in glBuffers
  /\ \A v \in VertexArrays : vaoHeld[v] # {} => ArrayIsUsable(v)
  /\ \A d \in Drawables : drwHeld[d] # {} =>
       /\ drwArray[d] # Null
       /\ ArrayIsUsable(drwArray[d])
       /\ drwIndex[d] # Null => bufHandle[drwIndex[d]] \in glBuffers

(* The driver objects that exist are exactly the ones a live handle names,  *)
(* one handle each: none is leaked by a create or release, none is shared   *)
(* by two handles (and then deleted twice).                                 *)
NamesAreOwnedOnce ==
  /\ glBuffers = {bufHandle[b] : b \in Buffers} \ {0}
  /\ glArrays  = {vaoHandle[v] : v \in VertexArrays} \ {0}
  /\ \A a, b \in Buffers : a # b /\ bufHandle[a] = bufHandle[b] => bufHandle[a] = 0
  /\ \A a, b \in VertexArrays : a # b /\ vaoHandle[a] = vaoHandle[b] => vaoHandle[a] = 0

(* Unloading: once every client has released what it holds, in any order    *)
(* ("there are reference counters to make sure things get deleted when they *)
(* need to, so there is no need to reverse!", a3_demo_callbacks.c:313), the *)
(* driver has no object left.                                               *)
NothingHeldNothingLeft ==
  (/\ \A b \in Buffers : bufHeld[b] = {}
   /\ \A v \in VertexArrays : vaoHeld[v] = {}
   /\ \A d \in Drawables : drwHeld[d] = {})
    => glBuffers = {} /\ glArrays = {}

------------------------------------------------------------------------------
(* The counting implements lifetime by reachability.                        *)

Resource == Buffers \cup VertexArrays \cup Drawables

HeldBy(r) ==
  CASE r \in Buffers      -> bufHeld[r]
    [] r \in VertexArrays -> vaoHeld[r]
    [] r \in Drawables    -> drwHeld[r]

UsedBy(r) ==
  CASE r \in Buffers      -> {}
    [] r \in VertexArrays -> {vaoBuffer[r]} \ {Null}
    [] r \in Drawables    -> IF drwHeld[r] = {} THEN {}
                             ELSE {drwArray[r], drwIndex[r]} \ {Null}

Existing ==
  {b \in Buffers : bufHandle[b] # 0} \cup {v \in VertexArrays : vaoHandle[v] # 0}
    \cup {d \in Drawables : drwHeld[d] # {}}

Lifetime == INSTANCE ResourceLifetime WITH
  Resources <- Resource,
  held      <- [r \in Resource |-> HeldBy(r)],
  uses      <- [r \in Resource |-> UsedBy(r)],
  exists    <- Existing

(* Creating, referencing and releasing handles is creating, referencing and *)
(* releasing resources whose existence is reachability from what is held.   *)
ImplementsLifetime == Lifetime!Spec
==============================================================================
