----------------------------- MODULE LightVolumes -----------------------------
(***************************************************************************)
(* The light counts of the demo: the keys 'l' and 'L', pressed and held,   *)
(* the upload of the light volumes in blocks by a3demo_update_main, and    *)
(* the blocks that the frame of the same idle then draws.  The keys of     *)
(* DemoModes act between idles.                                            *)
(***************************************************************************)
EXTENDS DemoModes

CONSTANTS
  LightBlocks,      \* demoStateMaxCount_lightVolumeBlock
  LightsPerBlock,   \* demoStateMaxCount_lightVolumePerBlock
  InitialLights,    \* the deferred light count at start, LightsPerBlock / 32
  LightStep,        \* how many lights a key adds or removes
  ForwardLights     \* demoStateMaxCount_lightObject

ASSUME LightConstants ==
  /\ LightBlocks \in Nat \ {0} /\ LightsPerBlock \in Nat \ {0}
  /\ LightStep \in Nat \ {0} /\ ForwardLights \in Nat \ {0}
  /\ InitialLights \in 0 .. (LightBlocks * LightsPerBlock)
  /\ InitialLights % LightStep = 0 /\ (LightBlocks * LightsPerBlock) % LightStep = 0

MaxLights == LightBlocks * LightsPerBlock     \* demoStateMaxCount_lightVolume
Blocks    == 0 .. (LightBlocks - 1)

VARIABLES
  singleForwardLight, forwardLightCount,
  deferredLightCount, deferredLightBlockCount, deferredLightCountPerBlock,
  phase                       \* what the idle callback does next

countVars == <<singleForwardLight, forwardLightCount, deferredLightCount>>
blockVars == <<deferredLightBlockCount, deferredLightCountPerBlock>>
lightVars == <<modeVars, countVars, blockVars, phase>>

\* The counters are unsigned and 32 bits wide, so a count that went below zero
\* would be huge: these bounds say that none does.
LightsTypeOK ==
  /\ singleForwardLight \in BOOLEAN
  /\ forwardLightCount \in {1, ForwardLights}
  /\ deferredLightCount \in 0 .. MaxLights
  /\ deferredLightBlockCount \in 0 .. LightBlocks
  /\ deferredLightCountPerBlock \in [Blocks -> 0 .. LightsPerBlock]
  /\ phase \in {"idle", "updated"}

LightsInit ==
  /\ ModesInit
  /\ singleForwardLight = FALSE
  /\ forwardLightCount = ForwardLights
  /\ deferredLightCount = InitialLights
  /\ deferredLightBlockCount = 0
  /\ deferredLightCountPerBlock = [i \in Blocks |-> 0]
  /\ phase = "idle"

------------------------------------------------------------------------------
(* Keys, between two idles.                                                 *)

SelectionKey ==
  /\ phase = "idle"
  /\ Key
  /\ UNCHANGED <<countVars, blockVars, phase>>

LightKey ==
  /\ phase = "idle"
  /\ ~crashed
  /\ UNCHANGED <<modeVars, blockVars, phase>>

\* 'l' pressed outside deferred lighting.
ToggleSingleLight ==
  /\ LightKey
  /\ lightingPipelineMode # deferredLighting
  /\ singleForwardLight' = ~singleForwardLight
  /\ forwardLightCount' = IF singleForwardLight' THEN 1 ELSE ForwardLights
  /\ UNCHANGED deferredLightCount

\* Slip: no test for zero.
FewerLightsUnchecked ==
  /\ LightKey
  /\ lightingPipelineMode = deferredLighting
  /\ deferredLightCount' = deferredLightCount - LightStep
  /\ UNCHANGED <<singleForwardLight, forwardLightCount>>

\* 'l' in deferred lighting; held, it acts in demo mode 0 only, but one press
\* more does the same, so press and hold are one action.
FewerLights ==
  /\ LightKey
  /\ lightingPipelineMode = deferredLighting
  /\ deferredLightCount > 0
  /\ deferredLightCount' = deferredLightCount - LightStep
  /\ UNCHANGED <<singleForwardLight, forwardLightCount>>

\* 'L' in deferred lighting.
MoreLights ==
  /\ LightKey
  /\ lightingPipelineMode = deferredLighting
  /\ deferredLightCount < MaxLights
  /\ deferredLightCount' = deferredLightCount + LightStep
  /\ UNCHANGED <<singleForwardLight, forwardLightCount>>

------------------------------------------------------------------------------
(* One idle: update, then render.                                           *)

\* The lights that are uploaded: none when the pipeline has no volumes.
LightCount == IF lightingPipelineMode = deferredLighting THEN deferredLightCount ELSE 0

BlocksFor(count) == IF count = 0 THEN 0 ELSE (count - 1) \div LightsPerBlock + 1

\* Lights in block i of a count: full blocks first, the rest in the last one.
InBlock(i, count) ==
  LET left == count - i * LightsPerBlock
  IN IF left < LightsPerBlock THEN left ELSE LightsPerBlock

\* Slip: with nothing to upload, the number of blocks is left as it was.
UploadOnlySome ==
  IF LightCount = 0 THEN UNCHANGED blockVars
  ELSE /\ deferredLightBlockCount' = BlocksFor(LightCount)
       /\ deferredLightCountPerBlock' =
            [i \in Blocks |-> IF i < BlocksFor(LightCount) THEN InBlock(i, LightCount)
                                                           ELSE deferredLightCountPerBlock[i]]

\* Block entries past the count in use keep what they had.
UploadLights ==
  /\ deferredLightBlockCount' = BlocksFor(LightCount)
  /\ deferredLightCountPerBlock' =
       [i \in Blocks |-> IF i < BlocksFor(LightCount) THEN InBlock(i, LightCount)
                                                      ELSE deferredLightCountPerBlock[i]]

\* In demo mode 1 the update is that of the curve, which leaves all this alone.
Update ==
  /\ phase = "idle"
  /\ ~crashed
  /\ IF demoMode = 0 THEN UploadLights ELSE UNCHANGED blockVars
  /\ phase' = "updated"
  /\ UNCHANGED <<modeVars, countVars>>

Render ==
  /\ phase = "updated"
  /\ phase' = "idle"
  /\ UNCHANGED <<modeVars, countVars, blockVars>>

LightsNext == \/ SelectionKey \/ ToggleSingleLight \/ FewerLights \/ MoreLights
              \/ Update \/ Render

LightsSpec == LightsInit /\ [][LightsNext]_lightVars

------------------------------------------------------------------------------
(* Properties.                                                              *)

\* The blocks that the volumes pass draws, and the numbers of the lights that
\* each of them draws: block i was uploaded from light i * LightsPerBlock on.
DrawnBlocks    == {i \in Blocks : i < deferredLightBlockCount}
BlockLights(i) == (i * LightsPerBlock) .. (i * LightsPerBlock + deferredLightCountPerBlock[i] - 1)

\* The frame that follows an update draws every light of the current count
\* once, and none when the count is zero or the pipeline has no volumes, although
\* counts and pipeline change between frames, and in demo mode 1 with no upload.
\* It reads no block that was left over from a larger count, and none is empty,
\* which would draw with an instance count of zero.
FrameDrawsTheCount ==
  phase = "updated" /\ demoMode = 0 =>
    /\ UNION {BlockLights(i) : i \in DrawnBlocks} = 0 .. (LightCount - 1)
    /\ \A i \in DrawnBlocks :
         /\ BlockLights(i) # {}
         /\ \A j \in DrawnBlocks : i # j => BlockLights(i) \cap BlockLights(j) = {}

==============================================================================
