----------------------------- MODULE DemoLifecycle -----------------------------
(***************************************************************************)
(* Loading and unloading of the demo, and hot-building: the demo library   *)
(* is unloaded, rebuilt and loaded again while the objects it made stay in *)
(* the driver.  On the way back a3demoCB_load moves the state to a newly   *)
(* allocated block and a3demo_refresh sets the release functions, which    *)
(* pointed into the old library.                                           *)
(*                                                                         *)
(* Driver objects are modelled by kind, all objects of a kind being made   *)
(* and released together.  The state has interior pointers (a drawable's   *)
(* to its VAO, a VAO's to its vertex buffer, a camera's to its scene       *)
(* object); "pointers" is the block they lead into.                        *)
(***************************************************************************)
EXTENDS Integers

CONSTANTS
  Blocks,        \* the addresses malloc can give to the state
  MaxLoads       \* bound: how often the library is loaded

ASSUME LifecycleConstants == Blocks # {} /\ MaxLoads \in Nat \ {0}

(* The two uniform buffers ubo_curveType and ubo_curveSpeed are made with   *)
(* the others, but uniformBuffer[], which every loop over them walks, has   *)
(* demoStateMaxCount_uniformBuffer = 14 elements and they come after these. *)
Geometry    == {"buffer", "vertexArray"}
Shaders     == {"program", "uniformBuffer", "extraUniformBuffer"}
Kinds       == Geometry \cup Shaders \cup {"texture", "framebuffer"}
Listed      == Kinds \ {"extraUniformBuffer"}

VARIABLES
  phase,           \* "none", "running", or "hot": between hot unload and load
  library,         \* which loading of the library is in memory (0: none yet)
  live,            \* the kinds whose handles are set in the state
  releaseFrom,     \* the loading that set a kind's release functions
  block, pointers, \* where the state is, and where its interior pointers lead
  lost,            \* kinds that exist in the driver but in no state
  staleCall        \* a release function of an unloaded library was called

handleVars == <<live, releaseFrom, lost, staleCall>>
placeVars  == <<library, block, pointers>>
vars       == <<phase, placeVars, handleVars>>

TypeOK ==
  /\ phase \in {"none", "running", "hot"}
  /\ library \in 0 .. MaxLoads
  /\ live \subseteq Kinds /\ lost \subseteq Kinds
  /\ releaseFrom \in [Kinds -> 0 .. MaxLoads]
  /\ block \in Blocks /\ pointers \in Blocks
  /\ staleCall \in BOOLEAN

Init ==
  /\ phase = "none" /\ library = 0
  /\ live = {} /\ lost = {} /\ staleCall = FALSE
  /\ releaseFrom = [k \in Kinds |-> 0]
  /\ block \in Blocks /\ pointers = block

------------------------------------------------------------------------------
(* Making and releasing.                                                    *)

\* A create on a handle that is set is refused and leaves its release function.
SetRelease(kinds, present) ==
  [k \in Kinds |-> IF k \in kinds \ present THEN library ELSE releaseFrom[k]]

\* Releasing goes through the stored function of every live handle of the kinds.
CallsInto(kinds) ==
  staleCall' = (staleCall \/ \E k \in kinds \cap live : releaseFrom[k] # library)

\* Release some kinds and make some kinds: all that a reload does.
Reload(released, made) ==
  /\ CallsInto(released)
  /\ live' = (live \ released) \cup made
  /\ releaseFrom' = SetRelease(made, live \ released)
  /\ UNCHANGED lost

------------------------------------------------------------------------------
(* The callbacks.                                                           *)

\* a3demoCB_load without hotbuild.
ColdLoad ==
  /\ phase = "none"
  /\ library < MaxLoads
  /\ phase' = "running"
  /\ library' = library + 1
  /\ block' \in Blocks /\ pointers' = block'
  /\ live' = Geometry \cup Shaders \cup {"texture"}
  /\ releaseFrom' = [k \in Kinds |-> IF k \in live' THEN library' ELSE 0]
  /\ UNCHANGED <<lost, staleCall>>

\* a3demoCB_windowResize: unload and load the framebuffers.
WindowResize ==
  /\ phase = "running"
  /\ Reload({"framebuffer"}, {"framebuffer"})
  /\ UNCHANGED <<phase, placeVars>>

\* 'P': unload and load the shaders and uniform buffers.
ReloadShaders ==
  /\ phase = "running"
  /\ Reload(Shaders \cap Listed, Shaders)
  /\ UNCHANGED <<phase, placeVars>>

\* a3demoCB_unload with hotbuild.
HotUnload ==
  /\ phase = "running"
  /\ phase' = "hot"
  /\ UNCHANGED <<placeVars, handleVars>>

\* Slip: one array is forgotten.
RefreshedNoTextures == Listed \ {"texture"}

\* a3demo_refresh.
Refreshed == Listed

\* a3demoCB_load with hotbuild: free, malloc, copy, refresh.
HotLoad ==
  /\ phase = "hot"
  /\ library < MaxLoads
  /\ phase' = "running"
  /\ library' = library + 1
  /\ block' \in Blocks
  /\ releaseFrom' = [k \in Kinds |-> IF k \in Refreshed THEN library' ELSE releaseFrom[k]]
  /\ UNCHANGED <<pointers, live, lost, staleCall>>

\* Slip: one of the four unload functions is not called.
UnloadedNoFramebuffers == Listed \ {"framebuffer"}

\* What a3demo_unloadGeometry, Shaders, Textures and Framebuffers release.
Unloaded == Listed

\* a3demoCB_unload without hotbuild.  Released through dangling pointers, the
\* buffer and the VAOs may keep references, so any of them may be left.
ColdUnload ==
  /\ phase = "running"
  /\ phase' = "none"
  /\ CallsInto(Unloaded)
  /\ \E kept \in SUBSET (IF pointers = block THEN {} ELSE Geometry) :
       lost' = lost \cup (live \ Unloaded) \cup (live \cap kept)
  /\ live' = {}
  /\ releaseFrom' = [k \in Kinds |-> 0]
  /\ UNCHANGED placeVars

Next == \/ ColdLoad \/ WindowResize \/ ReloadShaders
        \/ HotUnload \/ HotLoad \/ ColdUnload

Spec == Init /\ [][Next]_vars

------------------------------------------------------------------------------
(* Properties.                                                              *)

\* No release ever calls a function of a library that is gone ("old function
\* pointers are out of scope!", loading.c:1086), however hot-builds, shader
\* reloads, resizes and unloads follow one another: a create on a handle that
\* is still set keeps the old function, and a refresh must have replaced it.
NoCallIntoOldLibrary == ~staleCall

\* Where hot-builds left the state in place, an unload leaves nothing behind
\* in the driver but the uniform buffers beyond the end of their array.
UnloadFreesListed ==
  [][phase' = "none" /\ pointers = block =>
       lost' \subseteq lost \cup {"extraUniformBuffer"}]_vars

\* "could reload everything ... or just set new function pointers!"
\* (loading.c:1087): with the release functions set, the copied state can be
\* used, so what points into it points into the block it is in.
PointersStayInside == phase = "running" => pointers = block

==============================================================================
