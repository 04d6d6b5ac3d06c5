------------------------------ MODULE DemoModes ------------------------------
(***************************************************************************)
(* What the keyboard selects: the demo mode, the render pass a mode        *)
(* displays (its sub-mode), the output of that pass, the lighting pipeline *)
(* and whether intermediate passes may be previewed.  One action per key   *)
(* of a3demoCB_keyCharPress and a3demoCB_keyCharPress_main that changes    *)
(* one of these.  All keys act in both demo modes; demo mode 1, curve      *)
(* drawing, leaves its counts of sub-modes and outputs at zero, so its     *)
(* four cycling keys divide by zero, which ends the program.               *)
(***************************************************************************)
EXTENDS Integers

VARIABLES
  demoMode,                \* 0: deferred + bloom, 1: curve drawing
  demoSubMode,             \* the pass displayed, for each demo mode
  demoOutputMode,          \* the output displayed, for each sub-mode of mode 0
  lightingPipelineMode,
  previewPasses,           \* previewIntermediatePostProcessing
  crashed                  \* the processor trapped a division by zero

modeVars == <<demoMode, demoSubMode, demoOutputMode, lightingPipelineMode,
              previewPasses, crashed>>

(* Render passes, in the order of a3_DemoStateRenderPassNames; 3 to 11 are  *)
(* the bright and blur passes of the bloom effect.                          *)
Passes    == 0 .. 13
scene     == 0
volumes   == 1
composite == 2
blend     == 12
shadow    == 13

(* Lighting pipelines.                                                      *)
forward          == 0
deferredShading  == 1
deferredLighting == 2

demoSubModeCount   == 14
demoOutputCount(s) == CASE s = scene -> 5 [] s = volumes -> 2 [] OTHER -> 1

TypeOK ==
  /\ demoMode \in {0, 1}
  /\ demoSubMode \in [{0, 1} -> Passes]
  /\ demoOutputMode \in [Passes -> 0 .. 4]
  /\ lightingPipelineMode \in {forward, deferredShading, deferredLighting}
  /\ previewPasses \in BOOLEAN
  /\ crashed \in BOOLEAN

ModesInit ==
  /\ demoMode = 1
  /\ demoSubMode = [m \in {0, 1} |-> m]
  /\ demoOutputMode = [s \in Passes |-> 0]
  /\ lightingPipelineMode = forward
  /\ previewPasses = FALSE
  /\ crashed = FALSE

------------------------------------------------------------------------------
(* Which sub-modes a pipeline and the preview setting leave out.            *)

Hidden(s, preview) == ~preview /\ composite < s /\ s < blend

NeedsLighting(s, pipeline) ==
  pipeline # deferredLighting /\ scene < s /\ s < composite

SubMode == demoSubMode[demoMode]

\* Slip: '>' forgets that the volumes need deferred lighting.
SkipUpHiddenOnly(s) == IF Hidden(s, previewPasses) THEN blend ELSE s

\* Where '>' and '<' go on from sub-mode s when s itself is not offered.
SkipUp(s) ==
  CASE Hidden(s, previewPasses) -> blend
    [] NeedsLighting(s, lightingPipelineMode) -> composite
    [] OTHER -> s

SkipDown(s) ==
  CASE Hidden(s, previewPasses) -> composite
    [] NeedsLighting(s, lightingPipelineMode) -> scene
    [] OTHER -> s

NextSubMode == (SubMode + 1) % demoSubModeCount
PrevSubMode == (SubMode + demoSubModeCount - 1) % demoSubModeCount

NextOutput == (demoOutputMode[SubMode] + 1) % demoOutputCount(SubMode)
PrevOutput == (demoOutputMode[SubMode] + demoOutputCount(SubMode) - 1)
                % demoOutputCount(SubMode)

------------------------------------------------------------------------------
(* The keys.                                                                *)

\* '.' and ',': there are two modes, so both keys lead to the other one.
ChangeMode ==
  /\ demoMode' = 1 - demoMode
  /\ UNCHANGED <<demoSubMode, demoOutputMode, lightingPipelineMode, previewPasses, crashed>>

\* '>' and '<' with a non-zero count.
ChangeSubMode ==
  /\ demoMode = 0
  /\ \E s \in {SkipUp(NextSubMode), SkipDown(PrevSubMode)} :
       demoSubMode' = [demoSubMode EXCEPT ![0] = s]
  /\ UNCHANGED <<demoMode, demoOutputMode, lightingPipelineMode, previewPasses, crashed>>

\* '}' and '{' with a non-zero count.
ChangeOutput ==
  /\ demoMode = 0
  /\ \E o \in {NextOutput, PrevOutput} :
       demoOutputMode' = [demoOutputMode EXCEPT ![SubMode] = o]
  /\ UNCHANGED <<demoMode, demoSubMode, lightingPipelineMode, previewPasses, crashed>>

\* '>', '<', '}' and '{' where the count is zero.
DivideByZero ==
  /\ demoMode = 1
  /\ crashed' = TRUE
  /\ UNCHANGED <<demoMode, demoSubMode, demoOutputMode, lightingPipelineMode, previewPasses>>

\* 'p': the sub-mode of the current demo mode leaves a pass the new pipeline skips.
ChangePipeline ==
  /\ lightingPipelineMode' = (lightingPipelineMode + 1) % 3
  /\ demoSubMode' = IF NeedsLighting(SubMode, lightingPipelineMode')
                    THEN [demoSubMode EXCEPT ![demoMode] = composite]
                    ELSE demoSubMode
  /\ UNCHANGED <<demoMode, demoOutputMode, previewPasses, crashed>>

\* 'r': likewise when the preview is switched off.
TogglePreview ==
  /\ previewPasses' = ~previewPasses
  /\ demoSubMode' = IF Hidden(SubMode, previewPasses')
                    THEN [demoSubMode EXCEPT ![demoMode] = blend]
                    ELSE demoSubMode
  /\ UNCHANGED <<demoMode, demoOutputMode, lightingPipelineMode, crashed>>

Key ==
  /\ ~crashed
  /\ \/ ChangeMode \/ ChangeSubMode \/ ChangeOutput
     \/ DivideByZero \/ ChangePipeline \/ TogglePreview

ModesSpec == ModesInit /\ [][Key]_modeVars

------------------------------------------------------------------------------
(* Properties.                                                              *)

\* Sub-mode s of the render pipeline is one the settings offer.
Offered(s) ==
  /\ ~Hidden(s, previewPasses)
  /\ ~NeedsLighting(s, lightingPipelineMode)

\* While the render pipeline is shown, no key leads from a sub-mode that the
\* settings offer to one they do not: the corrections of '>', '<', 'p' and 'r'
\* (callbacks.c) cover every way to lose or to miss the displayed pass.
OfferedStaysOffered ==
  [][demoMode = 0 /\ Offered(demoSubMode[0]) => Offered(demoSubMode[0])']_modeVars

\* The output chosen for a pass is one it has, whichever sub-mode was current
\* when '}' and '{' were pressed: the index reaches the arrays of texture
\* handles (render) and of captions (render_main_controls) unchecked.
OutputInRange == \A s \in Passes : demoOutputMode[s] < demoOutputCount(s)

==============================================================================
