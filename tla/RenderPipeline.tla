---------------------------- MODULE RenderPipeline ----------------------------
(***************************************************************************)
(* A frame of a3demo_render_main: the order of its passes, the framebuffer *)
(* each draws to and those it samples, and the swaps of the double         *)
(* framebuffers ("notebooks" with two "pages"), up to the choice of what   *)
(* is displayed.  A double framebuffer is drawn to on its back page and    *)
(* sampled on its front page.  Which page is the front one outlives the    *)
(* frame, and displaying a horizontal blur swaps once more.  Keys and      *)
(* window resizes act between frames.                                      *)
(***************************************************************************)
EXTENDS DemoModes

(* The framebuffers; fbo_dbl_nodepth + 0 and + 1 are full0 and full1, those *)
(* of half, quarter and eighth size likewise.                               *)
Singles == {"scene", "shadowmap"}
Doubles == {"full0", "full1", "half0", "half1",
            "quarter0", "quarter1", "eighth0", "eighth1"}

Stale == -1               \* not drawn in this frame

Display == 14             \* the steps of a frame that are no pass
Shown   == 15
Idle    == 16

NothingShown == [mode |-> Stale, pass |-> Stale, attached |-> TRUE]

VARIABLES
  step,                   \* the pass the frame runs next, or one of the above
  single,                 \* what each single framebuffer holds: the pass that drew it
  pages,                  \* the same for the two pages of each double one
  front,                  \* the page of each double framebuffer that is sampled
  shown                   \* what the frame displays

vars == <<modeVars, step, single, pages, front, shown>>

PipelineTypeOK ==
  /\ TypeOK
  /\ step \in Passes \cup {Display, Shown, Idle}
  /\ single \in [Singles -> Passes \cup {Stale}]
  /\ pages \in [Doubles -> [{0, 1} -> Passes \cup {Stale}]]
  /\ front \in [Doubles -> {0, 1}]
  /\ shown \in [mode : Passes \cup {Stale}, pass : Passes \cup {Stale}, attached : BOOLEAN]

\* Slip: the texture offset of the front page for its number.
LoadedFrontOffset == [d \in Doubles |-> 16]

\* a3demo_loadFramebuffers: frontColor is a3fbo_colorTargetMax, and the swaps
\* it does while it sets texture parameters come in pairs.
LoadedFront == [d \in Doubles |-> 1]

NoSingle == [f \in Singles |-> Stale]
NoPages  == [d \in Doubles |-> [p \in {0, 1} |-> Stale]]

Init ==
  /\ ModesInit
  /\ single = NoSingle
  /\ pages = NoPages
  /\ front = LoadedFront
  /\ step = Idle
  /\ shown = NothingShown

------------------------------------------------------------------------------
(* The passes.                                                              *)

\* Where each pass draws; entry p + 1 is that of pass p.
Target(p) == <<"scene", "full0", "full1",
               "half0", "half1", "half1",
               "quarter0", "quarter1", "quarter1",
               "eighth0", "eighth1", "eighth1",
               "full1", "shadowmap">>[p + 1]

\* What each pass samples.
Sampled(p) == <<{"shadowmap"}, {"scene"},
                IF lightingPipelineMode = deferredLighting THEN {"scene", "full0"}
                                                           ELSE {"scene"},
                {"full1"}, {"half0"}, {"half1"},
                {"half1"}, {"quarter0"}, {"quarter1"},
                {"quarter1"}, {"eighth0"}, {"eighth1"},
                {"full1", "half1", "quarter1", "eighth1"}, {}>>[p + 1]

Holds(f) == IF f \in Singles THEN single[f] ELSE pages[f][front[f]]

\* Slip: the volumes pass is left out of the frame.
AfterNoVolumes(p) ==
  CASE p = shadow    -> scene
    [] p = scene     -> composite
    [] p = composite -> IF demoSubMode[0] > composite THEN composite + 1 ELSE Display
    [] p = blend     -> Display
    [] OTHER         -> p + 1

\* The pass after pass p of this frame.
After(p) ==
  CASE p = shadow    -> scene
    [] p = scene     -> IF lightingPipelineMode = deferredLighting THEN volumes ELSE composite
    [] p = composite -> IF demoSubMode[0] > composite THEN composite + 1 ELSE Display
    [] p = blend     -> Display
    [] OTHER         -> p + 1

BeginFrame ==
  /\ step = Idle
  /\ ~crashed
  /\ demoMode = 0
  /\ step' = shadow
  /\ UNCHANGED <<modeVars, single, pages, front, shown>>

\* Activate the target, bind the inputs, draw, and swap a double target.
RunPass(p) ==
  /\ step = p
  /\ step' = After(p)
  /\ LET t == Target(p)
     IN IF t \in Singles
        THEN /\ single' = [single EXCEPT ![t] = p]
             /\ UNCHANGED <<pages, front>>
        ELSE /\ pages' = [pages EXCEPT ![t][1 - front[t]] = p]
             /\ front' = [front EXCEPT ![t] = 1 - @]
             /\ UNCHANGED single
  /\ UNCHANGED <<modeVars, shown>>

------------------------------------------------------------------------------
(* The display.                                                             *)

\* Slip: no extra swap, as if the display's switch had a break there.
NeverSwaps(s) == FALSE

IsBlurH(s) == s \in {4, 7, 10}

Colors(f) == CASE f = "scene" -> 4 [] f = "shadowmap" -> 0
               [] f \in {"full0", "full1"} -> 2 [] OTHER -> 1

HasDepth(f) == f \in Singles

\* The framebuffer read for each sub-mode; for volumes and the rest it is
\* where that pass draws.
DisplaySource(s) == Target(s)

\* Slip: the last output is taken for a colour.
BindsAnyOutput(f, output) ==
  IF Colors(f) > 0 /\ (~HasDepth(f) \/ output < demoOutputCount(demoSubMode[0]))
  THEN output < Colors(f)
  ELSE HasDepth(f)

\* The colour texture is chosen if there is one and there is no depth or the
\* output is not the last; binding it needs the index to be below the count.
BindsAttachment(f, output) ==
  IF Colors(f) > 0 /\ (~HasDepth(f) \/ output < demoOutputCount(demoSubMode[0]) - 1)
  THEN output < Colors(f)
  ELSE HasDepth(f)

DisplayFrame ==
  /\ step = Display
  /\ step' = Shown
  /\ LET s == demoSubMode[0]
         f == DisplaySource(s)
         page == IF IsBlurH(s) THEN [front EXCEPT ![f] = 1 - @] ELSE front
     IN /\ front' = page
        /\ shown' = [mode |-> s,
                     pass |-> IF f \in Singles THEN single[f] ELSE pages[f][page[f]],
                     attached |-> BindsAttachment(f, demoOutputMode[s])]
  /\ UNCHANGED <<modeVars, single, pages>>

\* The frame is over: nothing counts as drawn in the next one.
EndFrame ==
  /\ step = Shown
  /\ step' = Idle
  /\ shown' = NothingShown
  /\ single' = NoSingle
  /\ pages' = NoPages
  /\ UNCHANGED <<modeVars, front>>

------------------------------------------------------------------------------
(* Between frames.                                                          *)

ModeKey ==
  /\ step = Idle
  /\ Key
  /\ UNCHANGED <<step, single, pages, front, shown>>

\* a3demoCB_windowResize unloads the framebuffers and loads them again.
Resize ==
  /\ step = Idle
  /\ ~crashed
  /\ single' = NoSingle
  /\ pages' = NoPages
  /\ front' = LoadedFront
  /\ UNCHANGED <<modeVars, step, shown>>

Next == \/ BeginFrame \/ DisplayFrame \/ EndFrame \/ ModeKey \/ Resize
        \/ \E p \in Passes : RunPass(p)

Spec == Init /\ [][Next]_vars

------------------------------------------------------------------------------
(* Properties.                                                              *)

\* The passes whose drawing pass p is meant to sample ("output from previous
\* pass, check which notebook has it"; "composited scene, half blur, quarter
\* blur, eighth blur").
FedBy(p) ==
  CASE p = shadow    -> {}
    [] p = scene     -> {shadow}
    [] p = volumes   -> {scene}
    [] p = composite -> IF lightingPipelineMode = deferredLighting THEN {scene, volumes}
                                                                   ELSE {scene}
    [] p = blend     -> {composite, 5, 8, 11}
    [] OTHER         -> {p - 1}

\* Every pass samples what its source passes drew earlier in the same frame,
\* never a page of the last frame or one a later pass has drawn over, whatever
\* swaps earlier frames, displays of a blur and resizes have left behind.
InputsAreThisFrames ==
  step \in Passes => {Holds(f) : f \in Sampled(step)} = FedBy(step)

\* What reaches the screen is what the selected pass drew in this frame, also
\* for the first of two blurs that share a framebuffer.  (The volumes pass can
\* stay selected outside deferred lighting; then nothing drew it.)
ShownIsSelected ==
  step = Shown =>
    \/ shown.pass = shown.mode
    \/ shown.mode = volumes /\ lightingPipelineMode # deferredLighting

\* The selected output is an attachment of the selected framebuffer, so the
\* bind does not fail and leave another texture on the screen.
OutputIsAttached == shown.attached

==============================================================================
