---------------------------- MODULE DemoModes_proofs ----------------------------
(***************************************************************************)
(* The selection made by the keys stays valid over any number of keys; the *)
(* render pipeline, whose frames come between keys, samples and shows what *)
(* it means to; and the light volumes draw the lights of the current count.*)
(***************************************************************************)
EXTENDS RenderPipeline, LightVolumes, TLAPS

\* The outputs of a pass: at least one, and at most the five of the scene.
LEMMA OutputCounts ==
  ASSUME NEW s \in Passes
  PROVE  demoOutputCount(s) \in 1 .. 5
BY DEF demoOutputCount, scene, volumes

\* Taking a remainder by a positive count stays below the count.
LEMMA Remainder ==
  ASSUME NEW n \in 1 .. 14, NEW x \in Nat
  PROVE  x % n \in 0 .. n - 1
OBVIOUS

\* Whatever '>' and '<' arrive at is a pass.
LEMMA SkipsLeadToPasses ==
  ASSUME TypeOK, demoMode = 0, NEW s \in {SkipUp(NextSubMode), SkipDown(PrevSubMode)}
  PROVE  s \in Passes
<1>1. SubMode \in Passes
  BY DEF TypeOK, SubMode
<1>2. NextSubMode \in Passes /\ PrevSubMode \in Passes
  BY <1>1 DEF NextSubMode, PrevSubMode, demoSubModeCount, Passes
<1> QED
  BY <1>2 DEF SkipUp, SkipDown, blend, composite, scene, Passes

\* Whatever '}' and '{' arrive at is an output of the pass displayed.
LEMMA OutputsStayInRange ==
  ASSUME TypeOK, demoMode = 0, NEW o \in {NextOutput, PrevOutput}
  PROVE  /\ SubMode \in Passes
         /\ o \in 0 .. demoOutputCount(SubMode) - 1
<1>1. SubMode \in Passes
  BY DEF TypeOK, SubMode
<1>2. demoOutputCount(SubMode) \in 1 .. 5
  BY <1>1, OutputCounts
<1>3. demoOutputMode[SubMode] \in Nat
  BY <1>1 DEF TypeOK
<1> DEFINE n == demoOutputCount(SubMode)
           x == demoOutputMode[SubMode]
<1>4. n \in 1 .. 5 /\ x + 1 \in Nat /\ x + n - 1 \in Nat
  BY <1>2, <1>3
<1>5. (x + 1) % n \in 0 .. n - 1 /\ (x + n - 1) % n \in 0 .. n - 1
  <2> HIDE DEF n, x
  <2> QED BY <1>4, Remainder
<1> QED
  BY <1>1, <1>5 DEF NextOutput, PrevOutput

------------------------------------------------------------------------------
\* The modes, passes and outputs selected exist, after any keys.
THEOREM TypeCorrect == ModesSpec => []TypeOK
<1>1. ModesInit => TypeOK
  <2> SUFFICES ASSUME ModesInit PROVE TypeOK
    OBVIOUS
  <2>1. demoSubMode \in [{0, 1} -> Passes]
    BY DEF ModesInit, Passes
  <2>2. demoOutputMode \in [Passes -> 0 .. 4]
    BY DEF ModesInit
  <2> QED
    BY <2>1, <2>2 DEF ModesInit, TypeOK
<1>2. TypeOK /\ [Key]_modeVars => TypeOK'
  <2> SUFFICES ASSUME TypeOK, [Key]_modeVars PROVE TypeOK'
    OBVIOUS
  <2>1. CASE UNCHANGED modeVars
    BY <2>1 DEF TypeOK, modeVars
  <2>2. CASE ChangeMode
    BY <2>2 DEF TypeOK, ChangeMode
  <2>3. CASE ChangeSubMode
    BY <2>3, SkipsLeadToPasses DEF TypeOK, ChangeSubMode
  <2>4. CASE ChangeOutput
    <3>1. PICK o \in {NextOutput, PrevOutput} :
            demoOutputMode' = [demoOutputMode EXCEPT ![SubMode] = o]
      BY <2>4 DEF ChangeOutput
    <3>2. SubMode \in Passes /\ o \in 0 .. demoOutputCount(SubMode) - 1
      BY <2>4, OutputsStayInRange DEF ChangeOutput
    <3>3. o \in 0 .. 4
      BY <3>2, OutputCounts
    <3> QED
      BY <2>4, <3>1, <3>2, <3>3 DEF TypeOK, ChangeOutput
  <2>5. CASE DivideByZero
    BY <2>5 DEF TypeOK, DivideByZero
  <2>6. CASE ChangePipeline
    BY <2>6 DEF TypeOK, ChangePipeline, Passes, composite, forward, deferredShading,
                deferredLighting
  <2>7. CASE TogglePreview
    BY <2>7 DEF TypeOK, TogglePreview, Passes, blend
  <2> QED
    BY <2>1, <2>2, <2>3, <2>4, <2>5, <2>6, <2>7 DEF Key
<1> QED
  BY <1>1, <1>2, PTL DEF ModesSpec

\* The output chosen for a pass is one it has: only '}' and '{' write it, for
\* the pass that is displayed then, with a remainder by that pass's count.
THEOREM OutputsInRange == ModesSpec => []OutputInRange
<1>1. ModesInit => OutputInRange
  BY OutputCounts DEF ModesInit, OutputInRange
<1>2. TypeOK /\ OutputInRange /\ [Key]_modeVars => OutputInRange'
  <2> SUFFICES ASSUME TypeOK, OutputInRange, [Key]_modeVars PROVE OutputInRange'
    OBVIOUS
  <2>1. CASE UNCHANGED demoOutputMode
    BY <2>1 DEF OutputInRange
  <2>2. CASE ChangeOutput
    <3>1. PICK o \in {NextOutput, PrevOutput} :
            demoOutputMode' = [demoOutputMode EXCEPT ![SubMode] = o]
      BY <2>2 DEF ChangeOutput
    <3>2. SubMode \in Passes /\ o \in 0 .. demoOutputCount(SubMode) - 1
      BY <2>2, OutputsStayInRange DEF ChangeOutput
    <3>3. demoOutputCount(SubMode) \in 1 .. 5
      BY <3>2, OutputCounts
    <3>4. o < demoOutputCount(SubMode)
      BY <3>2, <3>3
    <3> SUFFICES ASSUME NEW s \in Passes PROVE demoOutputMode'[s] < demoOutputCount(s)
      BY DEF OutputInRange, demoOutputCount
    <3>5. CASE s = SubMode
      BY <3>1, <3>4, <3>5 DEF TypeOK
    <3>6. CASE s # SubMode
      BY <3>1, <3>6 DEF TypeOK, OutputInRange
    <3> QED
      BY <3>5, <3>6
  <2> QED
    BY <2>1, <2>2 DEF Key, modeVars, ChangeMode, ChangeSubMode, DivideByZero,
                      ChangePipeline, TogglePreview
<1> QED
  BY <1>1, <1>2, TypeCorrect, PTL DEF ModesSpec

\* No key pressed in mode 0 leads from an offered pass to one that is not.
THEOREM StaysOffered == ModesSpec => OfferedStaysOffered
<1> DEFINE Stays == demoMode = 0 /\ Offered(demoSubMode[0]) => Offered(demoSubMode[0])'
<1>1. TypeOK /\ [Key]_modeVars => [Stays]_modeVars
  <2> SUFFICES ASSUME TypeOK, Key, demoMode = 0, Offered(demoSubMode[0])
               PROVE  Offered(demoSubMode[0])'
    OBVIOUS
  <2>1. CASE ChangeMode \/ ChangeOutput \/ DivideByZero
    BY <2>1 DEF ChangeMode, ChangeOutput, DivideByZero, Offered, Hidden, NeedsLighting
  <2>2. CASE ChangeSubMode
    <3>1. SubMode \in 0 .. 13 /\ Offered(SubMode)
      BY <2>2 DEF TypeOK, SubMode, Passes
    <3>2. Offered(SkipUp(NextSubMode)) /\ Offered(SkipDown(PrevSubMode))
      BY <3>1 DEF SkipUp, SkipDown, NextSubMode, PrevSubMode, demoSubModeCount, Offered,
                  Hidden, NeedsLighting, scene, composite, blend, TypeOK
    <3>3. Offered(demoSubMode'[0])
      BY <2>2, <3>2 DEF ChangeSubMode, TypeOK
    <3> QED
      BY <2>2, <3>3 DEF ChangeSubMode, Offered, Hidden, NeedsLighting
  <2>3. CASE ChangePipeline
    BY <2>3 DEF ChangePipeline, SubMode, TypeOK, Passes, Offered, Hidden, NeedsLighting,
                scene, composite, blend
  <2>4. CASE TogglePreview
    BY <2>4 DEF TogglePreview, SubMode, TypeOK, Passes, Offered, Hidden, NeedsLighting,
                scene, composite, blend
  <2> QED
    BY <2>1, <2>2, <2>3, <2>4 DEF Key
<1> QED
  BY <1>1, TypeCorrect, PTL DEF ModesSpec, OfferedStaysOffered

------------------------------------------------------------------------------
(* The render pipeline.                                                      *)

\* The passes of this frame: the volumes need deferred lighting, the bloom and
\* the blend are left out when an earlier pass is displayed.
InFrame(p) ==
  /\ p = volumes => lightingPipelineMode = deferredLighting
  /\ composite < p /\ p # shadow => demoSubMode[0] > composite

\* Those that have run when the frame has come to step; the shadow pass is first.
Ran == {p \in Passes : InFrame(p) /\ step # shadow /\ (p = shadow \/ p < step)}

\* A later pass of this frame has drawn to where p drew.
Covered(p) == \E q \in Ran : p < q /\ Target(q) = Target(p)

\* What a pass has drawn in this frame is on the page that is sampled, or on the
\* other page if a later pass has drawn to the same framebuffer.
DrawingsAreKept ==
  step \in Passes \cup {Display} =>
    \A p \in Ran : IF Covered(p) THEN pages[Target(p)][1 - front[Target(p)]] = p
                                 ELSE Holds(Target(p)) = p

FrameInv ==
  /\ PipelineTypeOK
  /\ OutputInRange
  /\ step \in Passes => InFrame(step)
  /\ DrawingsAreKept

\* The keys are the only steps of the pipeline that select anything.
LEMMA PipelineImplementsModes == Spec => ModesSpec
<1>1. Init => ModesInit
  BY DEF Init
<1>2. [Next]_vars => [Key]_modeVars
  BY DEF Next, vars, BeginFrame, RunPass, DisplayFrame, EndFrame, ModeKey, Resize
<1> QED
  BY <1>1, <1>2, PTL DEF Spec, ModesSpec

\* Where each pass draws.
LEMMA Targets ==
  /\ Target(0) = "scene"     /\ Target(1) = "full0"     /\ Target(2) = "full1"
  /\ Target(3) = "half0"     /\ Target(4) = "half1"     /\ Target(5) = "half1"
  /\ Target(6) = "quarter0"  /\ Target(7) = "quarter1"  /\ Target(8) = "quarter1"
  /\ Target(9) = "eighth0"   /\ Target(10) = "eighth1"  /\ Target(11) = "eighth1"
  /\ Target(12) = "full1"    /\ Target(13) = "shadowmap"
BY DEF Target

\* Each pass draws to one of the ten framebuffers, and never more than two to one.
LEMMA SharedTargets ==
  /\ \A p \in Passes : Target(p) \in Singles \cup Doubles
  /\ \A p \in Passes : Target(p) \in Singles <=> p \in {scene, shadow}
  /\ \A p, q \in Passes : p < q /\ Target(p) = Target(q) =>
       \/ p = 2 /\ q = 12
       \/ p = 4 /\ q = 5
       \/ p = 7 /\ q = 8
       \/ p = 10 /\ q = 11
<1>1. \A p \in Passes : p = 0 \/ p = 1 \/ p = 2 \/ p = 3 \/ p = 4 \/ p = 5 \/ p = 6
                        \/ p = 7 \/ p = 8 \/ p = 9 \/ p = 10 \/ p = 11 \/ p = 12 \/ p = 13
  BY DEF Passes
<1> QED
  BY <1>1, Targets DEF Singles, Doubles, scene, shadow

\* A single framebuffer is no double one.
LEMMA KindsApart == Singles \cap Doubles = {}
BY DEF Singles, Doubles

\* A pass adds itself to those that have run, and the next one is of this frame.
LEMMA RanGrows ==
  ASSUME TypeOK, step \in Passes, InFrame(step), RunPass(step)
  PROVE  /\ step \notin Ran
         /\ Ran' = Ran \cup {step}
         /\ step' \in Passes \cup {Display}
         /\ step' \in Passes => InFrame(step)'
         /\ \A p \in Ran : Target(p) = Target(step) => p < step
<1> USE DEF Passes, scene, volumes, composite, blend, shadow, Display
<1>1. UNCHANGED modeVars /\ step' = After(step)
  BY DEF RunPass
<1>2. \A p : InFrame(p)' <=> InFrame(p)
  BY <1>1 DEF InFrame, modeVars
<1>3. step \notin Ran
  BY DEF Ran
<1>4. step' \in Passes \cup {Display} /\ (step' \in Passes => InFrame(step'))
  BY <1>1 DEF After, InFrame
<1>5. Ran' = Ran \cup {step}
  BY <1>1, <1>2 DEF Ran, After, InFrame
<1>6. \A p \in Ran : Target(p) = Target(step) => p < step
  BY SharedTargets DEF Ran
<1> QED
  BY <1>1, <1>2, <1>3, <1>4, <1>5, <1>6 DEF InFrame, modeVars

\* Running a pass keeps what the passes before it have drawn: a drawing on the
\* same framebuffer was on the sampled page, which the swap makes the other one.
LEMMA PassKeepsDrawings ==
  ASSUME FrameInv, NEW p \in Passes, RunPass(p)
  PROVE  DrawingsAreKept'
<1> DEFINE t == Target(p)
<1>1. step = p /\ TypeOK /\ InFrame(p)
  BY DEF RunPass, FrameInv, PipelineTypeOK
<1>2. /\ p \notin Ran /\ Ran' = Ran \cup {p}
      /\ \A q \in Ran : Target(q) = t => q < p
  BY <1>1, RanGrows
<1>3. \A q \in Ran : IF Covered(q) THEN pages[Target(q)][1 - front[Target(q)]] = q
                                   ELSE Holds(Target(q)) = q
  BY <1>1 DEF FrameInv, DrawingsAreKept
<1>4. t \in Singles \/ t \in Doubles
  BY SharedTargets
<1>5. /\ single \in [Singles -> Passes \cup {Stale}]
      /\ pages \in [Doubles -> [{0, 1} -> Passes \cup {Stale}]]
      /\ front \in [Doubles -> {0, 1}]
  BY DEF FrameInv, PipelineTypeOK
<1>6. ~Covered(p)'
  <2> SUFFICES ASSUME NEW q \in Ran', p < q, Target(q) = t PROVE FALSE
    BY DEF Covered, Target
  <2>1. q # p /\ q \in Ran
    BY <1>2 DEF Passes
  <2>2. q < p /\ q \in Passes
    BY <1>2, <2>1 DEF Ran
  <2> QED
    BY <2>2 DEF Passes
<1>7. Holds(t)' = p
  <2>1. CASE t \in Singles
    BY <2>1, <1>5 DEF RunPass, Holds
  <2>2. CASE t \notin Singles
    BY <2>2, <1>4, <1>5 DEF RunPass, Holds
  <2> QED
    BY <2>1, <2>2
<1>8. ASSUME NEW q \in Ran, Target(q) # t
      PROVE  IF Covered(q)' THEN pages'[Target(q)][1 - front'[Target(q)]] = q
                            ELSE Holds(Target(q))' = q
  <2>1. Covered(q)' <=> Covered(q)
    BY <1>2, <1>8 DEF Covered, Target
  <2>2. /\ Target(q) \in Singles => single'[Target(q)] = single[Target(q)]
        /\ Target(q) \notin Singles => /\ pages'[Target(q)] = pages[Target(q)]
                                       /\ front'[Target(q)] = front[Target(q)]
    BY <1>5, <1>8, SharedTargets DEF RunPass, Ran
  <2>3. Covered(q) => Target(q) \in Doubles
    BY SharedTargets DEF Covered, Ran, scene, shadow
  <2> QED
    BY <1>3, <2>1, <2>2, <2>3, KindsApart DEF Holds, Target
<1>9. ASSUME NEW q \in Ran, Target(q) = t
      PROVE  Covered(q)' /\ pages'[Target(q)][1 - front'[Target(q)]] = q
  <2>1. q < p /\ q \in Passes
    BY <1>2, <1>9 DEF Ran
  <2>2. Covered(q)'
    BY <1>2, <1>9, <2>1 DEF Covered, Target
  <2>3. ~Covered(q)
    <3> SUFFICES ASSUME NEW r \in Ran, q < r, Target(r) = t PROVE FALSE
      BY <1>9 DEF Covered
    <3>1. r < p /\ r \in Passes
      BY <1>2 DEF Ran
    <3> QED
      BY <2>1, <3>1, <1>9, SharedTargets
  <2>4. t \in Doubles /\ t \notin Singles
    BY <2>1, <1>9, SharedTargets, KindsApart DEF scene, shadow
  <2>5. pages[t][front[t]] = q
    BY <1>3, <1>9, <2>3, <2>4 DEF Holds
  <2>6. front[t] \in {0, 1} /\ front'[t] = 1 - front[t]
    BY <1>5, <2>4 DEF RunPass
  <2>7. pages'[t] = [pages[t] EXCEPT ![1 - front[t]] = p]
    BY <1>5, <2>4 DEF RunPass
  <2>8. pages'[t][1 - front'[t]] = pages[t][front[t]]
    BY <1>5, <2>4, <2>6, <2>7
  <2> QED
    BY <1>9, <2>2, <2>5, <2>8
<1> QED
  <2> SUFFICES ASSUME NEW q \in Ran'
               PROVE  IF Covered(q)' THEN pages'[Target(q)][1 - front'[Target(q)]] = q
                                     ELSE Holds(Target(q))' = q
    BY DEF DrawingsAreKept, Target
  <2>1. CASE q = p
    BY <2>1, <1>6, <1>7
  <2>2. CASE q # p
    BY <2>2, <1>2, <1>8, <1>9
  <2> QED
    BY <2>1, <2>2

\* Binding succeeds or fails.
LEMMA BindsOrNot ==
  ASSUME NEW f, NEW output
  PROVE  BindsAttachment(f, output) \in BOOLEAN
<1>1. (output < Colors(f)) \in BOOLEAN
  OBVIOUS
<1>2. HasDepth(f) \in BOOLEAN
  BY DEF HasDepth
<1> DEFINE chosen == Colors(f) > 0 /\ (~HasDepth(f) \/ output < demoOutputCount(demoSubMode[0]) - 1)
<1>3. BindsAttachment(f, output) = IF chosen THEN output < Colors(f) ELSE HasDepth(f)
  BY Zenon DEF BindsAttachment
<1> QED
  BY <1>1, <1>2, <1>3, Zenon

\* Every step keeps the types of the frame.
LEMMA PipelineTypeStep == FrameInv /\ [Next]_vars /\ TypeOK' => PipelineTypeOK'
<1> SUFFICES ASSUME FrameInv, [Next]_vars, TypeOK' PROVE PipelineTypeOK'
  OBVIOUS
<1>1. /\ step \in Passes \cup {Display, Shown, Idle}
      /\ single \in [Singles -> Passes \cup {Stale}]
      /\ pages \in [Doubles -> [{0, 1} -> Passes \cup {Stale}]]
      /\ front \in [Doubles -> {0, 1}]
      /\ shown \in [mode : Passes \cup {Stale}, pass : Passes \cup {Stale}, attached : BOOLEAN]
      /\ TypeOK
  BY DEF FrameInv, PipelineTypeOK
<1>2. CASE UNCHANGED vars
  BY <1>1, <1>2 DEF PipelineTypeOK, vars
<1>3. CASE BeginFrame
  BY <1>1, <1>3 DEF PipelineTypeOK, BeginFrame, shadow, Passes
<1>4. ASSUME NEW p \in Passes, RunPass(p) PROVE PipelineTypeOK'
  <2>1. step' \in Passes \cup {Display}
    BY <1>1, <1>4, RanGrows DEF RunPass, FrameInv
  <2>2. single' \in [Singles -> Passes \cup {Stale}]
    BY <1>1, <1>4 DEF RunPass
  <2>3. front' \in [Doubles -> {0, 1}]
    BY <1>1, <1>4 DEF RunPass
  <2>4. pages' \in [Doubles -> [{0, 1} -> Passes \cup {Stale}]]
    <3>1. Target(p) \in Doubles => 1 - front[Target(p)] \in {0, 1}
      BY <1>1
    <3> QED
      BY <1>1, <1>4, <3>1, SharedTargets DEF RunPass
  <2> QED
    BY <1>1, <1>4, <2>1, <2>2, <2>3, <2>4 DEF RunPass, PipelineTypeOK
<1>5. CASE DisplayFrame
  <2> DEFINE s == demoSubMode[0]
             f == DisplaySource(s)
             page == IF IsBlurH(s) THEN [front EXCEPT ![f] = 1 - @] ELSE front
  <2>1. s \in Passes /\ f \in Singles \cup Doubles
    BY <1>1, SharedTargets DEF TypeOK, DisplaySource
  <2>2. page \in [Doubles -> {0, 1}]
    <3>1. f \in Doubles => 1 - front[f] \in {0, 1}
      BY <1>1
    <3> HIDE DEF f
    <3> QED
      BY <1>1, <3>1
  <2>3. (IF f \in Singles THEN single[f] ELSE pages[f][page[f]]) \in Passes \cup {Stale}
    BY <1>1, <2>1, <2>2
  <2>4. BindsAttachment(f, demoOutputMode[s]) \in BOOLEAN
    BY BindsOrNot
  <2>5. /\ front' = page
        /\ shown' = [mode |-> s,
                     pass |-> IF f \in Singles THEN single[f] ELSE pages[f][page[f]],
                     attached |-> BindsAttachment(f, demoOutputMode[s])]
        /\ step' = Shown /\ UNCHANGED <<single, pages>>
    BY <1>5 DEF DisplayFrame
  <2> HIDE DEF s, f, page
  <2> QED
    BY <1>1, <2>1, <2>2, <2>3, <2>4, <2>5 DEF PipelineTypeOK
<1>6. CASE EndFrame
  BY <1>1, <1>6 DEF PipelineTypeOK, EndFrame, NothingShown, NoSingle, NoPages
<1>7. CASE ModeKey
  BY <1>1, <1>7 DEF PipelineTypeOK, ModeKey
<1>8. CASE Resize
  BY <1>1, <1>8 DEF PipelineTypeOK, Resize, NoSingle, NoPages, LoadedFront
<1> QED
  BY <1>2, <1>3, <1>4, <1>5, <1>6, <1>7, <1>8 DEF Next

\* Every step keeps what the passes of the frame have drawn.
LEMMA FrameStep == FrameInv /\ [Next]_vars /\ TypeOK' /\ OutputInRange' => FrameInv'
<1> SUFFICES ASSUME FrameInv, [Next]_vars, TypeOK', OutputInRange' PROVE FrameInv'
  OBVIOUS
<1>1. PipelineTypeOK'
  BY PipelineTypeStep
<1> SUFFICES (step' \in Passes => InFrame(step)') /\ DrawingsAreKept'
  BY <1>1 DEF FrameInv
<1>2. CASE UNCHANGED vars
  BY <1>2 DEF FrameInv, DrawingsAreKept, vars, modeVars, InFrame, Ran, Covered, Holds, Target
<1>3. CASE BeginFrame
  BY <1>3 DEF BeginFrame, InFrame, DrawingsAreKept, Ran, shadow, volumes
<1>4. ASSUME NEW p \in Passes, RunPass(p)
      PROVE  (step' \in Passes => InFrame(step)') /\ DrawingsAreKept'
  <2>1. DrawingsAreKept'
    BY <1>4, PassKeepsDrawings
  <2>2. step' \in Passes => InFrame(step)'
    BY <1>4, RanGrows DEF FrameInv, PipelineTypeOK, RunPass
  <2> QED
    BY <2>1, <2>2
<1>5. CASE DisplayFrame \/ EndFrame \/ ModeKey \/ Resize
  <2>1. step' \in {Shown, Idle}
    BY <1>5 DEF DisplayFrame, EndFrame, ModeKey, Resize
  <2>2. step' \notin Passes \cup {Display}
    BY <2>1 DEF Passes, Display, Shown, Idle
  <2> QED
    BY <2>2 DEF DrawingsAreKept
<1> QED
  BY <1>2, <1>3, <1>4, <1>5 DEF Next

\* The invariant of the frame, over any number of frames, keys and resizes.
THEOREM FramesKeepDrawings == Spec => []FrameInv
<1>1. Spec => []TypeOK /\ []OutputInRange
  BY PipelineImplementsModes, TypeCorrect, OutputsInRange, PTL
<1>2. Init /\ TypeOK /\ OutputInRange => FrameInv
  <2> SUFFICES ASSUME Init, TypeOK, OutputInRange PROVE FrameInv
    OBVIOUS
  <2>1. step \notin Passes \cup {Display} /\ step \in {Idle}
    BY DEF Init, Passes, Display, Idle
  <2>2. PipelineTypeOK
    BY <2>1 DEF Init, PipelineTypeOK, NoSingle, NoPages, LoadedFront, NothingShown
  <2> QED
    BY <2>1, <2>2 DEF FrameInv, DrawingsAreKept
<1> QED
  BY <1>1, <1>2, FrameStep, PTL DEF Spec

\* What the pipeline's variables range over.
THEOREM PipelineTypeCorrect == Spec => []PipelineTypeOK
<1>1. FrameInv => PipelineTypeOK
  BY DEF FrameInv
<1> QED
  BY <1>1, FramesKeepDrawings, PTL

\* Each pass samples what its source passes drew in this frame: they have run, and
\* nothing that ran since drew to the same framebuffer.
THEOREM SamplesThisFrame == Spec => []InputsAreThisFrames
<1>1. FrameInv => InputsAreThisFrames
  <2> SUFFICES ASSUME FrameInv, step \in Passes
               PROVE  {Holds(f) : f \in Sampled(step)} = FedBy(step)
    BY DEF InputsAreThisFrames
  <2> USE DEF scene, volumes, composite, blend, shadow
  <2>1. \A p \in Ran : ~Covered(p) => Holds(Target(p)) = p
    BY DEF FrameInv, DrawingsAreKept
  <2>2. \A p \in Passes :
          p \in Ran <=> InFrame(p) /\ step # 13 /\ (p = 13 \/ p < step)
    BY DEF Ran
  <2>3. InFrame(step)
    BY DEF FrameInv
  <2>4. \A p \in Ran : Covered(p) =>
          \/ p = 2 /\ step > 12
          \/ p = 4 /\ step > 5
          \/ p = 7 /\ step > 8
          \/ p = 10 /\ step > 11
    BY SharedTargets DEF Covered, Ran, Passes
  <2>5. ASSUME NEW p \in Passes, InFrame(p), step # 13, p = 13 \/ p < step,
               p = 2 => step <= 12, p = 4 => step <= 5, p = 7 => step <= 8,
               p = 10 => step <= 11
        PROVE  Holds(Target(p)) = p
    BY <2>1, <2>2, <2>4, <2>5 DEF Passes
  <2> HIDE DEF Ran, Covered, Holds
  <2>6. CASE step = 13
    BY <2>6 DEF Sampled, FedBy
  <2>7. CASE step = 0
    BY <2>5, <2>7, Targets DEF Sampled, FedBy, Passes, InFrame
  <2>8. CASE step = 1
    BY <2>5, <2>8, Targets DEF Sampled, FedBy, Passes, InFrame
  <2>9. CASE step = 2
    BY <2>5, <2>9, Targets DEF Sampled, FedBy, Passes, InFrame
  <2>10. CASE step \in 3 .. 11
    BY <2>3, <2>5, <2>10, Targets DEF Sampled, FedBy, Passes, InFrame
  <2>11. CASE step = 12
    BY <2>3, <2>5, <2>11, Targets DEF Sampled, FedBy, Passes, InFrame
  <2> QED
    BY <2>6, <2>7, <2>8, <2>9, <2>10, <2>11 DEF Passes
<1> QED
  BY <1>1, FramesKeepDrawings, PTL

\* The display reads the page that the selected pass drew to, if it ran: a
\* horizontal blur is the one pass that another has covered by then.
LEMMA DisplayReadsSelected ==
  ASSUME FrameInv, DisplayFrame
  PROVE  /\ shown'.mode = demoSubMode[0]
         /\ \/ shown'.pass = demoSubMode[0]
            \/ demoSubMode[0] = volumes /\ lightingPipelineMode # deferredLighting
<1> DEFINE s == demoSubMode[0]
           f == Target(s)
           page == IF IsBlurH(s) THEN [front EXCEPT ![f] = 1 - @] ELSE front
<1>1. /\ step = Display /\ s \in Passes
      /\ front \in [Doubles -> {0, 1}]
  BY DEF FrameInv, PipelineTypeOK, TypeOK, DisplayFrame
<1>2. /\ shown'.mode = s
      /\ shown'.pass = IF f \in Singles THEN single[f] ELSE pages[f][page[f]]
  BY DEF DisplayFrame, DisplaySource
<1>3. SUFFICES ASSUME ~(s = volumes /\ lightingPipelineMode # deferredLighting)
               PROVE  shown'.pass = s
  BY <1>2
<1> USE DEF scene, volumes, composite, blend, shadow, Display
<1>4. s \in Ran
  BY <1>1, <1>3 DEF Ran, InFrame, Passes
<1>5. IF Covered(s) THEN pages[f][1 - front[f]] = s ELSE Holds(f) = s
  BY <1>1, <1>4 DEF FrameInv, DrawingsAreKept
<1>6. CASE IsBlurH(s)
  <2>1. s + 1 \in Ran /\ Target(s + 1) = f
    <3>1. s + 1 \in Ran
      BY <1>1, <1>6 DEF IsBlurH, Ran, InFrame, Passes
    <3> QED
      BY <1>6, <3>1, Targets DEF IsBlurH
  <2>2. Covered(s) /\ f \in Doubles /\ f \notin Singles
    BY <1>1, <2>1, <1>6, Targets DEF Covered, IsBlurH, Passes, Doubles, Singles
  <2>3. page[f] = 1 - front[f]
    BY <1>1, <1>6, <2>2
  <2> QED
    BY <1>2, <1>5, <2>2, <2>3
<1>7. CASE ~IsBlurH(s)
  <2>1. ~Covered(s)
    <3> SUFFICES ASSUME NEW q \in Ran, s < q, Target(q) = f PROVE FALSE
      BY DEF Covered
    <3>1. q \in Passes /\ InFrame(q)
      BY DEF Ran
    <3>2. s = 2 /\ q = 12
      BY <1>1, <1>7, <3>1, SharedTargets DEF IsBlurH
    <3> QED
      BY <3>1, <3>2 DEF InFrame
  <2> QED
    BY <1>2, <1>5, <1>7, <2>1 DEF Holds
<1> QED
  BY <1>6, <1>7

\* The screen shows what the selected pass drew in this frame.
THEOREM ShowsSelected == Spec => []ShownIsSelected
<1>1. Init => ShownIsSelected
  BY DEF Init, ShownIsSelected, Idle, Shown
<1>2. FrameInv /\ ShownIsSelected /\ [Next]_vars => ShownIsSelected'
  <2> SUFFICES ASSUME FrameInv, ShownIsSelected, [Next]_vars PROVE ShownIsSelected'
    OBVIOUS
  <2>1. CASE UNCHANGED vars
    BY <2>1 DEF ShownIsSelected, vars, modeVars
  <2>2. CASE DisplayFrame
    BY <2>2, DisplayReadsSelected DEF ShownIsSelected, DisplayFrame, modeVars
  <2>3. ASSUME NEW p \in Passes, RunPass(p) PROVE ShownIsSelected'
    <3>1. step' \in Passes \cup {Display}
      BY <2>3, RanGrows DEF FrameInv, PipelineTypeOK, RunPass
    <3> QED
      BY <3>1 DEF ShownIsSelected, Passes, Display, Shown
  <2>4. CASE BeginFrame \/ EndFrame \/ ModeKey \/ Resize
    <3>1. step' \in {shadow, Idle}
      BY <2>4 DEF BeginFrame, EndFrame, ModeKey, Resize
    <3> QED
      BY <3>1 DEF ShownIsSelected, Shown, shadow, Idle
  <2> QED
    BY <2>1, <2>2, <2>3, <2>4 DEF Next
<1> QED
  BY <1>1, <1>2, FramesKeepDrawings, PTL DEF Spec

\* The output that is bound for the display is an attachment, as no output that
\* a pass does not have is ever selected.
THEOREM DisplaysAttachment == Spec => []OutputIsAttached
<1>1. Init => OutputIsAttached
  BY DEF Init, OutputIsAttached, NothingShown
<1>2. FrameInv /\ OutputIsAttached /\ [Next]_vars => OutputIsAttached'
  <2> SUFFICES ASSUME FrameInv, OutputIsAttached, [Next]_vars PROVE OutputIsAttached'
    OBVIOUS
  <2>1. CASE DisplayFrame
    <3> DEFINE s == demoSubMode[0]
               o == demoOutputMode[s]
    <3>1. s \in Passes /\ o \in 0 .. 4 /\ o < demoOutputCount(s)
      BY DEF FrameInv, PipelineTypeOK, TypeOK, OutputInRange
    <3>2. Colors(Target(s)) = CASE s = 0 -> 4 [] s = 13 -> 0 [] s \in {1, 2, 12} -> 2 [] OTHER -> 1
      BY <3>1, Targets DEF Passes, Colors
    <3>3. HasDepth(Target(s)) <=> s \in {0, 13}
      BY <3>1, SharedTargets DEF HasDepth, scene, shadow
    <3>4. BindsAttachment(Target(s), o)
      BY <3>1, <3>2, <3>3 DEF BindsAttachment, demoOutputCount, scene, volumes
    <3>5. BindsAttachment(Target(s), o) = TRUE
      BY <3>4, BindsOrNot
    <3>6. shown'.attached = BindsAttachment(Target(s), o)
      BY <2>1 DEF DisplayFrame, DisplaySource
    <3> QED
      BY <3>5, <3>6 DEF OutputIsAttached
  <2>2. CASE EndFrame
    BY <2>2 DEF EndFrame, OutputIsAttached, NothingShown
  <2>3. CASE UNCHANGED shown
    BY <2>3 DEF OutputIsAttached
  <2> QED
    BY <2>1, <2>2, <2>3 DEF Next, vars, BeginFrame, RunPass, ModeKey, Resize
<1> QED
  BY <1>1, <1>2, FramesKeepDrawings, PTL DEF Spec

\* A key pressed between frames leads from an offered pass to an offered pass.
THEOREM PipelineStaysOffered == Spec => OfferedStaysOffered
BY PipelineImplementsModes, StaysOffered, PTL

------------------------------------------------------------------------------
(* The light volumes.                                                        *)

\* Multiples of a positive number are ordered as their factors.
LEMMA Multiples ==
  ASSUME NEW n \in Nat \ {0}, NEW i \in Int, NEW j \in Int
  PROVE  /\ i < j => i * n + n <= j * n
         /\ i * n < j * n => i < j
<1>1. ASSUME i < j PROVE i * n + n <= j * n
  <2>1. PICK d \in Nat : j = i + 1 + d
    <3>1. j - i - 1 \in Nat /\ j = i + 1 + (j - i - 1)
      BY <1>1
    <3> QED
      BY <3>1
  <2>2. j * n = i * n + n + d * n
    BY <2>1
  <2>3. d * n \in Nat
    OBVIOUS
  <2> QED
    BY <2>2, <2>3
<1>2. ASSUME i * n < j * n PROVE i < j
  <2>1. CASE j = i
    BY <1>2, <2>1
  <2>2. CASE j < i
    <3>1. j * n + n <= i * n
      <4>1. PICK d \in Nat : i = j + 1 + d
        <5>1. i - j - 1 \in Nat /\ i = j + 1 + (i - j - 1)
          BY <2>2
        <5> QED
          BY <5>1
      <4>2. i * n = j * n + n + d * n
        BY <4>1
      <4>3. d * n \in Nat
        OBVIOUS
      <4> QED
        BY <4>2, <4>3
    <3> QED
      BY <1>2, <3>1
  <2> QED
    BY <2>1, <2>2
<1> QED
  BY <1>1, <1>2

\* Division by a positive number: quotient and remainder.
LEMMA Division ==
  ASSUME NEW n \in Nat \ {0}, NEW x \in Nat
  PROVE  /\ x \div n \in Nat
         /\ x % n \in 0 .. n - 1
         /\ x = (x \div n) * n + (x % n)
OBVIOUS

\* What the count of the deferred lights is a multiple of.
CountInSteps == \E k \in Nat : deferredLightCount = k * LightStep

\* How an upload divides a count: as many blocks as it needs, all of them full but
\* the last, which has the rest.
LEMMA UploadDivides ==
  ASSUME NEW c \in 0 .. MaxLights
  PROVE  /\ BlocksFor(c) \in 0 .. LightBlocks
         /\ BlocksFor(c) = 0 <=> c = 0
         /\ \A i \in Blocks : i < BlocksFor(c) =>
              /\ InBlock(i, c) \in 1 .. LightsPerBlock
              /\ IF i + 1 < BlocksFor(c) THEN InBlock(i, c) = LightsPerBlock
                                         ELSE i * LightsPerBlock + InBlock(i, c) = c
<1> DEFINE L == LightsPerBlock
           q == (c - 1) \div L
<1>1. L \in Nat \ {0} /\ LightBlocks \in Nat \ {0} /\ MaxLights = LightBlocks * L /\ MaxLights \in Nat
  BY LightConstants DEF MaxLights
<1>2. c \in Nat /\ c <= MaxLights
  BY <1>1
<1>3. CASE c = 0
  BY <1>1, <1>3 DEF BlocksFor, Blocks
<1>4. CASE c # 0
  <2>1. c - 1 \in Nat
    BY <1>2, <1>4
  <2>2. /\ q \in Nat
        /\ (c - 1) % L \in 0 .. L - 1
        /\ c - 1 = q * L + ((c - 1) % L)
    BY <1>1, <2>1, Division
  <2>3. q * L < c /\ c <= q * L + L
    <3> HIDE DEF q
    <3>1. q * L \in Nat
      BY <1>1, <2>2
    <3> QED
      BY <1>1, <1>2, <2>2, <3>1
  <2>4. BlocksFor(c) = q + 1
    BY <1>4 DEF BlocksFor
  <2> HIDE DEF q
  <2>5. q < LightBlocks
    <3>1. q * L \in Nat /\ q * L < LightBlocks * L
      BY <1>1, <1>2, <2>2, <2>3
    <3> QED
      BY <1>1, <2>2, <3>1, Multiples
  <2>6. ASSUME NEW i \in Blocks, i < q + 1
        PROVE  /\ InBlock(i, c) \in 1 .. L
               /\ IF i + 1 < q + 1 THEN InBlock(i, c) = L ELSE i * L + InBlock(i, c) = c
    <3>1. i \in Nat /\ i * L \in Nat /\ q * L \in Nat
      BY <1>1, <2>2 DEF Blocks
    <3>2. CASE i < q
      <4>1. i * L + L <= q * L
        BY <1>1, <2>2, <3>1, <3>2, Multiples
      <4>2. ~(c - i * L < L)
        BY <1>1, <1>2, <2>3, <3>1, <4>1
      <4>3. InBlock(i, c) = L
        BY <4>2 DEF InBlock
      <4> QED
        BY <1>1, <2>2, <3>1, <3>2, <4>3
    <3>3. CASE i = q
      <4>1. c - i * L \in 1 .. L
        BY <1>1, <1>2, <2>3, <3>1, <3>3
      <4>2. InBlock(i, c) = c - i * L
        BY <1>1, <4>1 DEF InBlock
      <4>3. i * L + InBlock(i, c) = c
        BY <1>2, <3>1, <4>2
      <4> QED
        BY <2>2, <3>3, <4>1, <4>2, <4>3
    <3> QED
      BY <2>2, <2>6, <3>1, <3>2, <3>3
  <2> QED
    BY <1>1, <1>2, <1>4, <2>2, <2>4, <2>5, <2>6
<1> QED
  BY <1>3, <1>4

\* A frame of demo mode 0 finds in the blocks what its update has put there.
BlocksAreUploaded ==
  phase = "updated" /\ demoMode = 0 =>
    /\ deferredLightBlockCount = BlocksFor(LightCount)
    /\ \A i \in Blocks : i < deferredLightBlockCount =>
         deferredLightCountPerBlock[i] = InBlock(i, LightCount)

LightsInv == LightsTypeOK /\ CountInSteps /\ BlocksAreUploaded

\* What a frame may draw is at most what there is room for.
LEMMA LightCountType ==
  ASSUME LightsTypeOK
  PROVE  LightCount \in 0 .. MaxLights
<1>1. MaxLights \in Nat
  BY LightConstants DEF MaxLights
<1> QED
  BY <1>1 DEF LightsTypeOK, LightCount

\* A count in steps can be lowered unless it is zero, and raised unless it is the
\* maximum, and stays in range and in steps.
LEMMA CountMoves ==
  ASSUME LightsTypeOK, CountInSteps
  PROVE  /\ deferredLightCount > 0 =>
              /\ deferredLightCount - LightStep \in 0 .. MaxLights
              /\ \E k \in Nat : deferredLightCount - LightStep = k * LightStep
         /\ deferredLightCount < MaxLights =>
              /\ deferredLightCount + LightStep \in 0 .. MaxLights
              /\ \E k \in Nat : deferredLightCount + LightStep = k * LightStep
<1> DEFINE c == deferredLightCount
           s == LightStep
<1>1. s \in Nat \ {0} /\ MaxLights \in Nat
  BY LightConstants DEF MaxLights
<1>2. c \in 0 .. MaxLights
  BY DEF LightsTypeOK
<1>3. PICK k \in Nat : c = k * s
  BY DEF CountInSteps
<1>4. PICK m \in Nat : MaxLights = m * s
  <2>1. /\ MaxLights \div s \in Nat
        /\ MaxLights = (MaxLights \div s) * s + (MaxLights % s)
    BY <1>1, Division
  <2>2. MaxLights % s = 0
    BY LightConstants DEF MaxLights
  <2>3. (MaxLights \div s) * s \in Nat
    BY <1>1, <2>1
  <2> HIDE DEF s
  <2>4. MaxLights = (MaxLights \div s) * s
    BY <1>1, <2>1, <2>2, <2>3
  <2> QED
    BY <2>1, <2>4
<1> HIDE DEF c, s
<1>5. ASSUME c > 0 PROVE c - s \in 0 .. MaxLights /\ \E j \in Nat : c - s = j * s
  <2>1. k # 0
    BY <1>1, <1>3, <1>5
  <2>2. k - 1 \in Nat /\ c - s = (k - 1) * s
    BY <1>1, <1>3, <2>1
  <2>3. (k - 1) * s \in Nat
    BY <1>1, <2>2
  <2> QED
    BY <1>1, <1>2, <2>2, <2>3
<1>6. ASSUME c < MaxLights PROVE c + s \in 0 .. MaxLights /\ \E j \in Nat : c + s = j * s
  <2>1. k < m
    BY <1>1, <1>3, <1>4, <1>6, Multiples
  <2>2. k * s + s <= m * s
    BY <1>1, <2>1, Multiples
  <2>3. c + s = (k + 1) * s
    BY <1>1, <1>3
  <2> QED
    BY <1>1, <1>2, <1>3, <1>4, <2>2, <2>3
<1> QED
  BY <1>5, <1>6 DEF c, s

\* The steps keep the counts in range and the blocks of a frame as uploaded.
LEMMA LightsStep == LightsInv /\ [LightsNext]_lightVars => LightsInv'
<1> SUFFICES ASSUME LightsInv, [LightsNext]_lightVars PROVE LightsInv'
  OBVIOUS
<1>1. LightsTypeOK /\ CountInSteps /\ BlocksAreUploaded
  BY DEF LightsInv
<1>2. CASE UNCHANGED lightVars
  BY <1>1, <1>2 DEF LightsInv, LightsTypeOK, CountInSteps, BlocksAreUploaded, lightVars,
                    modeVars, countVars, blockVars, LightCount
<1>3. CASE SelectionKey
  BY <1>1, <1>3 DEF LightsInv, LightsTypeOK, CountInSteps, BlocksAreUploaded, SelectionKey,
                    countVars, blockVars
<1>4. CASE ToggleSingleLight
  BY <1>1, <1>4 DEF LightsInv, LightsTypeOK, CountInSteps, BlocksAreUploaded, LightKey,
                    ToggleSingleLight, blockVars
<1>5. CASE FewerLights
  BY <1>1, <1>5, CountMoves DEF LightsInv, LightsTypeOK, CountInSteps, BlocksAreUploaded,
                                LightKey, FewerLights, blockVars
<1>6. CASE MoreLights
  BY <1>1, <1>6, CountMoves DEF LightsInv, LightsTypeOK, CountInSteps, BlocksAreUploaded,
                                LightKey, MoreLights, blockVars
<1>7. CASE Update
  <2>1. UNCHANGED <<modeVars, countVars>> /\ LightCount' = LightCount
    BY <1>7 DEF Update, modeVars, countVars, LightCount
  <2>2. CASE demoMode = 0
    <3>1. /\ deferredLightBlockCount' = BlocksFor(LightCount)
          /\ deferredLightCountPerBlock' =
               [i \in Blocks |-> IF i < BlocksFor(LightCount) THEN InBlock(i, LightCount)
                                                              ELSE deferredLightCountPerBlock[i]]
          /\ phase' = "updated"
      BY <1>7, <2>2 DEF Update, UploadLights
    <3>2. /\ BlocksFor(LightCount) \in 0 .. LightBlocks
          /\ \A i \in Blocks : i < BlocksFor(LightCount) =>
               InBlock(i, LightCount) \in 1 .. LightsPerBlock
      BY <1>1, LightCountType, UploadDivides
    <3>3. deferredLightCountPerBlock' \in [Blocks -> 0 .. LightsPerBlock]
      BY <1>1, <3>1, <3>2, LightConstants DEF LightsTypeOK
    <3>4. LightsTypeOK'
      BY <1>1, <2>1, <3>1, <3>2, <3>3 DEF LightsTypeOK, countVars
    <3>5. BlocksAreUploaded'
      BY <2>1, <3>1, <3>2 DEF BlocksAreUploaded, BlocksFor, InBlock
    <3> QED
      BY <1>1, <2>1, <3>4, <3>5 DEF LightsInv, CountInSteps, countVars
  <2>3. CASE demoMode # 0
    BY <1>1, <1>7, <2>1, <2>3 DEF LightsInv, LightsTypeOK, CountInSteps, BlocksAreUploaded,
                                  Update, modeVars, countVars, blockVars
  <2> QED
    BY <2>2, <2>3
<1>8. CASE Render
  BY <1>1, <1>8 DEF LightsInv, LightsTypeOK, CountInSteps, BlocksAreUploaded, Render,
                    modeVars, countVars, blockVars
<1> QED
  BY <1>2, <1>3, <1>4, <1>5, <1>6, <1>7, <1>8 DEF LightsNext

\* At the start the count is a number of steps, and nothing has been uploaded.
LEMMA LightsStart == LightsInit => LightsInv
<1> SUFFICES ASSUME LightsInit PROVE LightsInv
  OBVIOUS
<1>1. /\ LightBlocks \in Nat /\ LightsPerBlock \in Nat /\ LightStep \in Nat \ {0}
      /\ InitialLights \in Nat /\ InitialLights \in 0 .. MaxLights /\ InitialLights % LightStep = 0
  BY LightConstants DEF MaxLights
<1>2. CountInSteps
  <2>1. /\ InitialLights \div LightStep \in Nat
        /\ InitialLights = (InitialLights \div LightStep) * LightStep + (InitialLights % LightStep)
    BY <1>1, Division
  <2>2. (InitialLights \div LightStep) * LightStep \in Nat
    BY <1>1, <2>1
  <2>3. InitialLights = (InitialLights \div LightStep) * LightStep
    BY <1>1, <2>1, <2>2
  <2> QED
    BY <2>1, <2>3 DEF LightsInit, CountInSteps
<1>3. deferredLightCountPerBlock \in [Blocks -> 0 .. LightsPerBlock]
  BY <1>1 DEF LightsInit
<1>4. LightsTypeOK
  <2>1. deferredLightCount \in 0 .. MaxLights /\ deferredLightBlockCount \in 0 .. LightBlocks
    BY <1>1 DEF LightsInit
  <2>2. /\ singleForwardLight \in BOOLEAN /\ forwardLightCount \in {1, ForwardLights}
        /\ phase \in {"idle", "updated"}
    BY DEF LightsInit
  <2> QED
    BY <1>3, <2>1, <2>2 DEF LightsTypeOK
<1> QED
  BY <1>2, <1>4 DEF LightsInv, BlocksAreUploaded, LightsInit

\* No light count goes below zero or past the arrays, for any sizes of blocks.
THEOREM LightsTypeCorrect == LightsSpec => []LightsTypeOK
<1>1. LightsInv => LightsTypeOK
  BY DEF LightsInv
<1> QED
  BY <1>1, LightsStart, LightsStep, PTL DEF LightsSpec

\* A frame draws each light of the current count once, for any sizes of blocks.
THEOREM DrawsTheCount == LightsSpec => []FrameDrawsTheCount
<1>1. LightsInv => FrameDrawsTheCount
  <2> SUFFICES ASSUME LightsInv, phase = "updated", demoMode = 0
               PROVE  /\ UNION {BlockLights(i) : i \in DrawnBlocks} = 0 .. (LightCount - 1)
                      /\ \A i \in DrawnBlocks :
                           /\ BlockLights(i) # {}
                           /\ \A j \in DrawnBlocks :
                                i # j => BlockLights(i) \cap BlockLights(j) = {}
    BY DEF FrameDrawsTheCount
  <2> DEFINE c == LightCount
             L == LightsPerBlock
             n == deferredLightBlockCount
             lights(i) == deferredLightCountPerBlock[i]
  <2>1. L \in Nat \ {0} /\ LightBlocks \in Nat /\ MaxLights \in Nat
    BY LightConstants DEF MaxLights
  <2>2. c \in 0 .. MaxLights /\ c \in Nat
    BY <2>1, LightCountType DEF LightsInv
  <2>3. n \in 0 .. LightBlocks /\ (n = 0 <=> c = 0)
    BY <2>2, UploadDivides DEF LightsInv, BlocksAreUploaded
  <2>4. \A i \in DrawnBlocks :
          /\ i \in Nat /\ i < n /\ i * L \in Nat
          /\ lights(i) \in 1 .. L
          /\ IF i + 1 < n THEN lights(i) = L ELSE i * L + lights(i) = c
    <3> SUFFICES ASSUME NEW i \in DrawnBlocks
                 PROVE  /\ i \in Nat /\ i < n /\ i * L \in Nat
                        /\ lights(i) \in 1 .. L
                        /\ IF i + 1 < n THEN lights(i) = L ELSE i * L + lights(i) = c
      OBVIOUS
    <3>1. i \in Blocks /\ i < n /\ i \in Nat /\ i * L \in Nat
      BY <2>1 DEF DrawnBlocks, Blocks
    <3>2. lights(i) = InBlock(i, c) /\ n = BlocksFor(c)
      BY <3>1 DEF LightsInv, BlocksAreUploaded
    <3> QED
      BY <2>2, <3>1, <3>2, UploadDivides
  <2>5. \A i \in DrawnBlocks : BlockLights(i) = (i * L) .. (i * L + lights(i) - 1)
    BY DEF BlockLights
  <2> HIDE DEF c, L, n, lights
  <2>6. \A i \in DrawnBlocks : i * L + lights(i) <= c
    <3> SUFFICES ASSUME NEW i \in DrawnBlocks, i + 1 < n PROVE i * L + L <= c
      BY <2>1, <2>2, <2>3, <2>4
    <3>1. n - 1 \in DrawnBlocks
      BY <2>1, <2>3, <2>4 DEF DrawnBlocks, Blocks, n
    <3>2. i * L + L <= (n - 1) * L
      BY <2>1, <2>3, <2>4, Multiples
    <3>3. (n - 1) * L \in Nat /\ (n - 1) * L + lights(n - 1) = c /\ lights(n - 1) \in Nat
      BY <2>1, <2>3, <2>4, <3>1
    <3> QED
      BY <2>1, <2>2, <2>4, <3>2, <3>3
  <2>7. ASSUME NEW x \in 0 .. (c - 1)
        PROVE  \E i \in DrawnBlocks : x \in BlockLights(i)
    <3> DEFINE i == x \div L
    <3>1. x \in Nat /\ i \in Nat /\ x % L \in 0 .. L - 1 /\ x = i * L + (x % L)
      BY <2>1, <2>2, Division
    <3> HIDE DEF i
    <3>2. i * L \in Nat /\ i * L <= x /\ x < i * L + L
      BY <2>1, <3>1
    <3>3. i < n
      <4>1. n # 0 /\ n - 1 \in DrawnBlocks
        BY <2>1, <2>2, <2>3 DEF DrawnBlocks, Blocks, n
      <4>2. /\ (n - 1) * L \in Nat /\ (n - 1) * L + lights(n - 1) = c
            /\ lights(n - 1) \in 1 .. L
        BY <2>1, <2>3, <2>4, <4>1
      <4>3. c <= n * L
        <5>1. n * L = (n - 1) * L + L
          BY <2>1, <2>3
        <5> QED
          BY <2>1, <4>2, <5>1
      <4>4. i * L < n * L
        <5>1. n * L \in Nat
          BY <2>1, <2>3
        <5> QED
          BY <2>2, <3>1, <3>2, <4>3, <5>1
      <4> QED
        BY <2>1, <2>3, <3>1, <4>4, Multiples
    <3>4. i \in DrawnBlocks
      BY <2>1, <2>3, <3>1, <3>3 DEF DrawnBlocks, Blocks, n
    <3>5. x < i * L + lights(i)
      BY <2>1, <2>2, <2>3, <2>4, <3>1, <3>2, <3>4
    <3> QED
      BY <2>1, <2>4, <2>5, <3>1, <3>2, <3>4, <3>5
  <2>8. ASSUME NEW i \in DrawnBlocks, NEW x \in BlockLights(i)
        PROVE  x \in 0 .. (c - 1)
    BY <2>1, <2>2, <2>4, <2>5, <2>6
  <2>9. ASSUME NEW i \in DrawnBlocks, NEW j \in DrawnBlocks, i < j
        PROVE  BlockLights(i) \cap BlockLights(j) = {}
    <3>1. i * L + L <= j * L
      BY <2>1, <2>4, <2>9, Multiples
    <3> QED
      BY <2>1, <2>4, <2>5, <3>1
  <2>10. \A i \in DrawnBlocks : BlockLights(i) # {}
    <3> SUFFICES ASSUME NEW i \in DrawnBlocks PROVE i * L \in BlockLights(i)
      OBVIOUS
    <3> QED
      BY <2>1, <2>4, <2>5
  <2>11. UNION {BlockLights(i) : i \in DrawnBlocks} = 0 .. (c - 1)
    BY <2>7, <2>8
  <2>12. ASSUME NEW i \in DrawnBlocks, NEW j \in DrawnBlocks, i # j
         PROVE  BlockLights(i) \cap BlockLights(j) = {}
    <3>1. i < j \/ j < i
      BY <2>4, <2>12
    <3> QED
      BY <2>9, <3>1
  <2> QED
    BY <2>10, <2>11, <2>12 DEF c
<1> QED
  BY <1>1, LightsStart, LightsStep, PTL DEF LightsSpec

==============================================================================
