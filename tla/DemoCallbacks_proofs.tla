--------------------------- MODULE DemoCallbacks_proofs ---------------------------
(***************************************************************************)
(* No release calls into an unloaded library, for any number of loadings   *)
(* and any addresses of the state; and the demo's picture of keys and      *)
(* buttons, its text and its loading stay right together, for any set of   *)
(* keys.  First DemoLifecycle by itself, then the callbacks, which are     *)
(* shown to implement it.  Last the curve editor: what is stored about the *)
(* segments follows the waypoints, for any number of them and any lengths. *)
(***************************************************************************)
EXTENDS DemoCallbacks, CurveEditor, Sums, TLAPS

\* While the demo runs, the release functions of everything that its unload and
\* reload functions walk are those of the library in memory.  (Between a hot
\* unload and the next load they are not, but nothing is released then; and the
\* uniform buffers past the end of their array are never released at all.)
FunctionsAreCurrent ==
  phase = "running" => \A k \in live \cap Listed : releaseFrom[k] = library

\* The number 0, for a release function that is not set, is in range.
LEMMA NoLoadingIsALoading == 0 \in 0 .. MaxLoads
BY LifecycleConstants

\* The phase, the loading counts and the sets of objects keep their types.
THEOREM TypeCorrect == Spec => []TypeOK
<1>1. Init => TypeOK
  <2> SUFFICES ASSUME Init PROVE TypeOK
    OBVIOUS
  <2>1. releaseFrom \in [Kinds -> 0 .. MaxLoads]
    BY NoLoadingIsALoading DEF Init
  <2> QED
    BY <2>1, NoLoadingIsALoading DEF Init, TypeOK
<1>2. TypeOK /\ [Next]_vars => TypeOK'
  <2> SUFFICES ASSUME TypeOK, [Next]_vars PROVE TypeOK'
    OBVIOUS
  <2> USE DEF TypeOK, placeVars, handleVars
  <2>1. CASE UNCHANGED vars
    BY <2>1 DEF vars
  <2>2. CASE ColdLoad
    <3>1. library' \in 0 .. MaxLoads
      BY <2>2, LifecycleConstants DEF ColdLoad
    <3>2. releaseFrom' \in [Kinds -> 0 .. MaxLoads]
      BY <2>2, <3>1, NoLoadingIsALoading DEF ColdLoad
    <3>3. live' \subseteq Kinds
      BY <2>2 DEF ColdLoad, Kinds
    <3> QED
      BY <2>2, <3>1, <3>2, <3>3 DEF ColdLoad
  <2>3. CASE WindowResize
    BY <2>3 DEF WindowResize, Reload, CallsInto, SetRelease, Kinds
  <2>4. CASE ReloadShaders
    BY <2>4 DEF ReloadShaders, Reload, CallsInto, SetRelease, Kinds
  <2>5. CASE HotUnload
    BY <2>5 DEF HotUnload
  <2>6. CASE HotLoad
    <3>1. library' \in 0 .. MaxLoads
      BY <2>6, LifecycleConstants DEF HotLoad
    <3>2. releaseFrom' \in [Kinds -> 0 .. MaxLoads]
      BY <2>6, <3>1 DEF HotLoad
    <3> QED
      BY <2>6, <3>1, <3>2 DEF HotLoad
  <2>7. CASE ColdUnload
    <3>1. lost' \subseteq Kinds
      BY <2>7 DEF ColdUnload
    <3>2. releaseFrom' \in [Kinds -> 0 .. MaxLoads]
      BY <2>7, NoLoadingIsALoading DEF ColdUnload
    <3>3. staleCall' \in BOOLEAN
      BY <2>7 DEF ColdUnload, CallsInto
    <3> QED
      BY <2>7, <3>1, <3>2, <3>3 DEF ColdUnload
  <2> QED
    BY <2>1, <2>2, <2>3, <2>4, <2>5, <2>6, <2>7 DEF Next
<1> QED
  BY <1>1, <1>2, PTL DEF Spec

\* A reload in a running demo calls no old function, and what it makes anew has
\* the functions of the library in memory.
LEMMA ReloadIsCurrent ==
  ASSUME TypeOK, FunctionsAreCurrent, ~staleCall, phase = "running",
         NEW released \in SUBSET Listed, NEW made \in SUBSET Kinds,
         Reload(released, made), UNCHANGED <<phase, placeVars>>
  PROVE  FunctionsAreCurrent' /\ ~staleCall'
<1>1. \A k \in released \cap live : releaseFrom[k] = library
  BY DEF FunctionsAreCurrent
<1>2. ~staleCall'
  BY <1>1 DEF Reload, CallsInto
<1>3. ASSUME NEW k \in live' \cap Listed PROVE releaseFrom'[k] = library
  <2>1. k \in Kinds
    BY DEF Listed
  <2>2. CASE k \in live \ released
    BY <2>1, <2>2, <1>3 DEF Reload, SetRelease, FunctionsAreCurrent
  <2>3. CASE k \notin live \ released
    BY <2>1, <2>3, <1>3 DEF Reload, SetRelease
  <2> QED
    BY <2>2, <2>3
<1> QED
  BY <1>2, <1>3 DEF FunctionsAreCurrent, placeVars

\* Hot-builds, reloads, resizes and unloads in any order call no function of a
\* library that is gone.
THEOREM NoStaleCall == Spec => []NoCallIntoOldLibrary
<1> DEFINE Inv == FunctionsAreCurrent /\ ~staleCall
<1>1. Init => Inv
  BY DEF Init, FunctionsAreCurrent
<1>2. TypeOK /\ Inv /\ [Next]_vars => Inv'
  <2> SUFFICES ASSUME TypeOK, FunctionsAreCurrent, ~staleCall, [Next]_vars
               PROVE  FunctionsAreCurrent' /\ ~staleCall'
    OBVIOUS
  <2>1. CASE UNCHANGED vars
    BY <2>1 DEF vars, placeVars, handleVars, FunctionsAreCurrent
  <2>2. CASE ColdLoad
    BY <2>2 DEF ColdLoad, FunctionsAreCurrent, Listed, TypeOK
  <2>3. CASE WindowResize
    BY <2>3, ReloadIsCurrent DEF WindowResize, Listed, Kinds
  <2>4. CASE ReloadShaders
    BY <2>4, ReloadIsCurrent DEF ReloadShaders, Kinds
  <2>5. CASE HotUnload
    BY <2>5 DEF HotUnload, handleVars, FunctionsAreCurrent
  <2>6. CASE HotLoad
    BY <2>6 DEF HotLoad, Refreshed, FunctionsAreCurrent, Listed, TypeOK
  <2>7. CASE ColdUnload
    BY <2>7 DEF ColdUnload, CallsInto, Unloaded, FunctionsAreCurrent
  <2> QED
    BY <2>1, <2>2, <2>3, <2>4, <2>5, <2>6, <2>7 DEF Next
<1> QED
  BY <1>1, <1>2, TypeCorrect, PTL DEF Spec, NoCallIntoOldLibrary

\* Where hot-builds left the state in place, an unload leaves nothing in the
\* driver but the uniform buffers beyond the end of their array.
THEOREM UnloadFrees == Spec => UnloadFreesListed
<1> DEFINE Frees == phase' = "none" /\ pointers = block =>
                      lost' \subseteq lost \cup {"extraUniformBuffer"}
<1>1. TypeOK /\ [Next]_vars => [Frees]_vars
  <2> SUFFICES ASSUME TypeOK, Next, phase' = "none", pointers = block
               PROVE  lost' \subseteq lost \cup {"extraUniformBuffer"}
    OBVIOUS
  <2>1. ColdUnload
    BY DEF Next, ColdLoad, WindowResize, ReloadShaders, HotUnload, HotLoad, ColdUnload
  <2>2. lost' = lost \cup (live \ Listed)
    BY <2>1 DEF ColdUnload, Unloaded
  <2> QED
    BY <2>2 DEF TypeOK, Listed
<1> QED
  BY <1>1, TypeCorrect, PTL DEF Spec, UnloadFreesListed

------------------------------------------------------------------------------
(* Input, text and loading together.                                         *)

\* What is down in the demo is down at the device, or its release was missed; and
\* where no events come from, a key or button that is down was missed already.
InputInv ==
  /\ key \subseteq held \union missed
  /\ btn => pressed \/ "left" \in missed
  /\ ~active => key \subseteq missed
  /\ ~inside /\ btn => "left" \in missed
  /\ phase = "none" => key = {} /\ ~btn

\* The driver has the renderer's lists, and there is no renderer without a demo.
TextInv ==
  /\ lists = IF text THEN 1 ELSE 0
  /\ phase = "none" => ~text

\* The variables of input and text keep their types.
InputTypes ==
  /\ active \in BOOLEAN /\ inside \in BOOLEAN /\ pressed \in BOOLEAN
  /\ held \subseteq Keys /\ key \subseteq Keys /\ key0 \subseteq Keys
  /\ btn \in BOOLEAN /\ btn0 \in BOOLEAN
  /\ text \in BOOLEAN /\ textMode \in 0 .. 2
  /\ missed \subseteq Keys \union {"left"}
  /\ phase \in {"none", "running", "hot"}

IInv == InputTypes /\ InputInv /\ TextInv

\* What a step does to the phase: only loads and unloads change it.
LEMMA Phases ==
  ASSUME KeepInputAndText
  PROVE  phase' = "none" => phase = "none"
BY DEF KeepInputAndText, WindowResize, ReloadShaders, HotUnload, HotLoad

\* Every step of the callbacks is one of the lifecycle or leaves it alone.
LEMMA StepRefines == [CallbacksNext]_demoVars => [Next]_vars
<1> SUFFICES ASSUME [CallbacksNext]_demoVars PROVE [Next]_vars
  OBVIOUS
<1>1. CASE UNCHANGED demoVars
  BY <1>1 DEF demoVars
<1>2. CASE CallbacksNext
  <2>1. CASE \E k \in Keys : KeyDown(k) \/ KeyUp(k)
    BY <2>1 DEF KeyDown, KeyUp
  <2>2. CASE ButtonDown \/ ButtonUp \/ WindowDeactivate \/ WindowActivate \/ MouseLeave
              \/ MouseEnter \/ IdleUpdate \/ ToggleText
    BY <2>2 DEF ButtonDown, ButtonUp, WindowDeactivate, WindowActivate, MouseLeave, MouseEnter,
                IdleUpdate, ToggleText
  <2>3. CASE \E made \in BOOLEAN : ReloadText(made) \/ Load(made)
    BY <2>3 DEF ReloadText, Load, Next
  <2>4. CASE Unload \/ KeepInputAndText
    BY <2>4 DEF Unload, KeepInputAndText, Next
  <2> QED
    BY <1>2, <2>1, <2>2, <2>3, <2>4 DEF CallbacksNext
<1> QED
  BY <1>1, <1>2

\* So whatever the lifecycle keeps, it keeps under input events and text keys too.
THEOREM CallbacksImplementLifecycle == CallbacksSpec => Spec
<1>1. CallbacksInit => Init
  BY DEF CallbacksInit
<1> QED
  BY <1>1, StepRefines, PTL DEF CallbacksSpec, Spec

\* A window with no demo yet.
LEMMA InitIInv == CallbacksInit => IInv
<1>1. CallbacksInit => InputTypes
  <2>1. 0 \in 0 .. 2
    OBVIOUS
  <2> QED
    BY <2>1, Zenon DEF CallbacksInit, Init, InputTypes
<1>2. CallbacksInit => InputInv
  BY Zenon DEF CallbacksInit, InputInv
<1>3. CallbacksInit => TextInv
  BY SMT DEF CallbacksInit, TextInv
<1> QED
  BY <1>1, <1>2, <1>3 DEF IInv

\* What takes ms off the device: a running demo forgets that it missed any of them,
\* and one that is away has missed those it had on record.
LEMMA SwallowedMisses ==
  ASSUME InputTypes, InputInv, NEW ms \in SUBSET (Keys \union {"left"}), Swallowed(ms)
  PROVE  /\ missed' \subseteq Keys \union {"left"}
         /\ \A x : x \in missed /\ x \notin ms => x \in missed'
         /\ ~Running => missed \subseteq missed' /\ ms \intersect OnRecord \subseteq missed'
<1>1. OnRecord \subseteq Keys \union {"left"}
  BY DEF OnRecord, InputTypes
<1>2. CASE phase = "running"
  BY <1>2 DEF Swallowed, Running, InputTypes
<1>3. CASE phase = "hot"
  BY <1>1, <1>3 DEF Swallowed, InputTypes
<1>4. CASE phase = "none"
  <2>1. missed' = missed
    BY <1>4 DEF Swallowed, Running
  <2>2. OnRecord = {}
    BY <1>4 DEF InputInv, OnRecord
  <2> QED
    BY <2>1, <2>2 DEF InputTypes
<1> QED
  BY <1>2, <1>3, <1>4 DEF InputTypes

\* Keys and buttons, and what the window does about them.
LEMMA InputStep ==
  ASSUME IInv, \/ \E k \in Keys : KeyDown(k) \/ KeyUp(k)
               \/ ButtonDown \/ ButtonUp
               \/ WindowDeactivate \/ WindowActivate
               \/ MouseLeave \/ MouseEnter
               \/ IdleUpdate
  PROVE  IInv'
<1> USE DEF IInv
<1>1. phase' = phase /\ UNCHANGED textVars
  BY DEF KeyDown, KeyUp, ButtonDown, ButtonUp, WindowDeactivate, WindowActivate, MouseLeave,
         MouseEnter, IdleUpdate, vars
<1>2. TextInv'
  BY <1>1 DEF TextInv, textVars
<1>3. (\A x \in key : x \in OnRecord) /\ (btn => "left" \in OnRecord)
  BY DEF OnRecord
<1>4. \A k \in Keys : k # "left"
  BY CallbackConstants
<1>5. ASSUME NEW k \in Keys, KeyDown(k) PROVE InputTypes' /\ InputInv'
  BY <1>1, <1>4, <1>5 DEF KeyDown, InputTypes, InputInv, mouse, textVars, Running
<1>6. ASSUME NEW k \in Keys, KeyUp(k) PROVE InputTypes' /\ InputInv'
  <2>1. UNCHANGED <<active, inside, pressed, key0, btn, btn0>> /\ held' = held \ {k}
    BY <1>6 DEF KeyUp, mouse
  <2>2. k # "left"
    BY <1>4
  <2>3. active => Swallowed({k})
    BY <1>6 DEF KeyUp
  <2>4. ~active => missed' = missed /\ key' = key
    BY <1>6 DEF KeyUp
  <2>5. active => key' = IF Running THEN key \ {k} ELSE key
    BY <1>6 DEF KeyUp
  <2>6. /\ missed' \subseteq Keys \union {"left"}
        /\ \A x : x \in missed /\ x # k => x \in missed'
        /\ active /\ ~Running /\ k \in OnRecord => k \in missed'
    <3>1. CASE active
      BY <2>3, <3>1, SwallowedMisses
    <3>2. CASE ~active
      BY <2>4, <3>2 DEF InputTypes
    <3> QED
      BY <3>1, <3>2
  <2>7. InputTypes'
    BY <1>1, <2>1, <2>4, <2>5, <2>6 DEF InputTypes, textVars
  <2>8. key' \subseteq held' \union missed' /\ (~active' => key' \subseteq missed')
    <3>1. CASE active
      BY <1>3, <2>1, <2>5, <2>6, <3>1 DEF InputInv
    <3>2. CASE ~active
      BY <2>1, <2>4, <3>2 DEF InputInv
    <3> QED
      BY <3>1, <3>2
  <2>9. (btn' => pressed' \/ "left" \in missed') /\ (~inside' /\ btn' => "left" \in missed')
    BY <2>1, <2>2, <2>6 DEF InputInv
  <2>10. phase' = "none" => key' = {} /\ ~btn'
    BY <1>1, <2>1, <2>4, <2>5 DEF InputInv
  <2> QED
    BY <2>7, <2>8, <2>9, <2>10 DEF InputInv
<1>7. CASE ButtonDown
  BY <1>1, <1>2, <1>4, <1>7 DEF ButtonDown, InputTypes, InputInv, keyboard, textVars, Running
<1>8. CASE ButtonUp
  <2>1. UNCHANGED <<active, inside, held, key, key0, btn0>> /\ pressed' = FALSE
    BY <1>8 DEF ButtonUp, keyboard
  <2>2. CASE ~inside
    <3>1. btn' = btn /\ missed' = missed
      BY <1>8, <2>2 DEF ButtonUp
    <3>2. InputTypes'
      BY <1>1, <2>1, <3>1 DEF InputTypes, textVars
    <3> QED
      BY <1>1, <1>2, <2>1, <2>2, <3>1, <3>2 DEF InputInv
  <2>3. CASE inside
    <3>1. Swallowed({"left"})
      BY <1>8, <2>3 DEF ButtonUp
    <3>2. /\ missed' \subseteq Keys \union {"left"}
          /\ \A x \in Keys : x \in missed => x \in missed'
          /\ ~Running /\ btn => "left" \in missed'
      BY <1>3, <1>4, <3>1, SwallowedMisses
    <3>3. btn' = IF Running THEN FALSE ELSE btn
      BY <1>8, <2>3 DEF ButtonUp
    <3>4. btn' \in BOOLEAN /\ (btn' => ~Running /\ btn)
      BY <3>3 DEF InputTypes
    <3>5. InputTypes'
      BY <1>1, <2>1, <3>2, <3>4 DEF InputTypes, textVars
    <3>6. key' \subseteq held' \union missed' /\ (~active' => key' \subseteq missed')
      BY <2>1, <3>2 DEF InputInv, InputTypes
    <3>7. btn' => "left" \in missed'
      BY <3>2, <3>4
    <3>8. phase' = "none" => key' = {} /\ ~btn'
      BY <1>1, <2>1, <3>4 DEF InputInv
    <3> QED
      BY <1>2, <3>5, <3>6, <3>7, <3>8 DEF InputInv
  <2> QED
    BY <2>2, <2>3
<1>9. CASE WindowDeactivate
  <2>1. UNCHANGED <<inside, held, pressed, key0, btn0>> /\ active' = FALSE
    BY <1>9 DEF WindowDeactivate
  <2>2. Swallowed(Keys \union {"left"})
    BY <1>9 DEF WindowDeactivate
  <2>3. /\ missed' \subseteq Keys \union {"left"}
        /\ ~Running => \A x \in (Keys \union {"left"}) \intersect OnRecord : x \in missed'
    BY <2>2, SwallowedMisses
  <2>4. CASE Running
    <3>1. key' = {} /\ btn' = FALSE
      BY <1>9, <2>4 DEF WindowDeactivate, ResetInput
    <3>2. InputTypes'
      BY <1>1, <2>1, <2>3, <3>1 DEF InputTypes, textVars
    <3>3. InputInv'
      BY <3>1, Zenon DEF InputInv
    <3> QED
      BY <1>2, <3>2, <3>3
  <2>5. CASE ~Running
    <3>1. key' = key /\ btn' = btn
      BY <1>9, <2>5 DEF WindowDeactivate
    <3>2. InputTypes'
      BY <1>1, <2>1, <2>3, <3>1 DEF InputTypes, textVars
    <3>3. key' \subseteq missed'
      BY <1>3, <2>3, <2>5, <3>1 DEF InputTypes
    <3>4. btn' => "left" \in missed'
      BY <1>3, <2>3, <2>5, <3>1
    <3>5. phase' = "none" => key' = {} /\ ~btn'
      BY <1>1, <3>1 DEF InputInv
    <3> QED
      BY <1>2, <3>2, <3>3, <3>4, <3>5 DEF InputInv
  <2> QED
    BY <2>4, <2>5
<1>10. CASE WindowActivate
  BY <1>1, <1>2, <1>10 DEF WindowActivate, InputTypes, InputInv, keyboard, mouse, textVars
<1>11. CASE MouseLeave
  <2>1. UNCHANGED <<active, held, pressed, key, key0, btn0>> /\ inside /\ inside' = FALSE
    BY <1>11 DEF MouseLeave, keyboard
  <2>2. Swallowed({"left"})
    BY <1>11 DEF MouseLeave
  <2>3. /\ missed' \subseteq Keys \union {"left"}
        /\ \A x \in Keys : x \in missed => x \in missed'
        /\ ~Running /\ btn => "left" \in missed'
    BY <1>3, <1>4, <2>2, SwallowedMisses
  <2>4. btn' = IF Running THEN FALSE ELSE btn
    BY <1>11 DEF MouseLeave
  <2>5. btn' \in BOOLEAN /\ (btn' => ~Running /\ btn)
    BY <2>4 DEF InputTypes
  <2>6. InputTypes'
    BY <1>1, <2>1, <2>3, <2>5 DEF InputTypes, textVars
  <2>7. key' \subseteq held' \union missed' /\ (~active' => key' \subseteq missed')
    BY <2>1, <2>3 DEF InputInv, InputTypes
  <2>8. btn' => "left" \in missed'
    BY <2>3, <2>5
  <2>9. phase' = "none" => key' = {} /\ ~btn'
    BY <1>1, <2>1, <2>5 DEF InputInv
  <2> QED
    BY <1>2, <2>6, <2>7, <2>8, <2>9 DEF InputInv
<1>12. CASE MouseEnter
  BY <1>1, <1>2, <1>12 DEF MouseEnter, InputTypes, InputInv, keyboard, mouse, textVars
<1>13. CASE IdleUpdate
  BY <1>1, <1>2, <1>13 DEF IdleUpdate, InputTypes, InputInv, window, textVars
<1> QED
  BY <1>2, <1>5, <1>6, <1>7, <1>8, <1>9, <1>10, <1>11, <1>12, <1>13

\* Text keys, loads and unloads.
LEMMA LoadStep ==
  ASSUME IInv, \/ \E made \in BOOLEAN : ReloadText(made) \/ Load(made)
               \/ ToggleText \/ Unload \/ KeepInputAndText
  PROVE  IInv'
<1> USE DEF IInv
<1>1. ASSUME NEW made \in BOOLEAN, ReloadText(made) PROVE IInv'
  <2>1. phase' = phase /\ phase # "none" /\ UNCHANGED <<inputVars, textMode>>
    BY <1>1 DEF ReloadText, Running, vars
  <2>2. text' \in BOOLEAN
    BY <1>1 DEF ReloadText, ReleasedText, Initialized
  <2>3. InputInv' /\ InputTypes'
    BY <2>1, <2>2 DEF inputVars, window, keyboard, mouse, InputTypes, InputInv
  <2>4. lists' = IF text' THEN 1 ELSE 0
    BY <1>1, SMT DEF ReloadText, ReleasedText, Initialized, InputTypes, TextInv
  <2> QED
    BY <2>1, <2>3, <2>4 DEF TextInv
<1>2. ASSUME NEW made \in BOOLEAN, Load(made) PROVE IInv'
  <2>1. phase = "none" /\ phase' = "running"
    BY <1>2 DEF Load, ColdLoad
  <2>2. key' = {} /\ key0' = {} /\ btn' = FALSE /\ btn0' = FALSE /\ missed' = {} /\ UNCHANGED window
    BY <1>2 DEF Load
  <2>3. text' \in BOOLEAN /\ textMode' \in 0 .. 2
    BY <1>2 DEF Load, Initialized
  <2>4. InputTypes'
    BY <2>1, <2>2, <2>3 DEF InputTypes, window
  <2>5. InputInv'
    BY <2>1, <2>2, Zenon DEF InputInv
  <2>6. ~text /\ lists = 0
    BY <2>1 DEF TextInv
  <2>7. TextInv'
    BY <1>2, <2>1, <2>3, <2>6 DEF Load, Initialized, TextInv
  <2> QED
    BY <2>4, <2>5, <2>7
<1>3. CASE ToggleText
  <2>1. textMode' \in 0 .. 2
    BY <1>3 DEF ToggleText, NextTextMode, InputTypes
  <2> QED
    BY <1>3, <2>1 DEF ToggleText, vars, inputVars, window, keyboard, mouse, InputTypes, InputInv, TextInv
<1>4. CASE Unload
  <2>1. phase' = "none"
    BY <1>4 DEF Unload, ColdUnload
  <2>2. key' = {} /\ key0' = {} /\ btn' = FALSE /\ btn0' = FALSE /\ missed' = {} /\ UNCHANGED window
    BY <1>4 DEF Unload
  <2>3. text' = FALSE /\ textMode' \in 0 .. 2
    BY <1>4 DEF Unload, ReleasedText
  <2>4. InputTypes'
    BY <2>1, <2>2, <2>3 DEF InputTypes, window
  <2>5. InputInv'
    BY <2>1, <2>2, Zenon DEF InputInv
  <2>6. lists' = 0
    BY <1>4 DEF Unload, ReleasedText, InputTypes, TextInv
  <2>7. TextInv'
    BY <2>3, <2>6 DEF TextInv
  <2> QED
    BY <2>4, <2>5, <2>7
<1>5. CASE KeepInputAndText
  <2>1. phase' \in {"none", "running", "hot"}
    BY <1>5 DEF KeepInputAndText, WindowResize, ReloadShaders, HotUnload, HotLoad, InputTypes
  <2>2. UNCHANGED <<inputVars, textVars>>
    BY <1>5 DEF KeepInputAndText
  <2> QED
    BY <1>5, <2>1, <2>2, Phases DEF inputVars, textVars, window, keyboard, mouse, InputTypes, InputInv, TextInv
<1> QED
  BY <1>1, <1>2, <1>3, <1>4, <1>5

\* Every callback keeps the invariant.
LEMMA StepIInv == IInv /\ [CallbacksNext]_demoVars => IInv'
<1>1. IInv /\ UNCHANGED demoVars => IInv'
  BY DEF demoVars, vars, inputVars, textVars, window, keyboard, mouse, IInv, InputTypes, InputInv, TextInv
<1> QED
  BY <1>1, InputStep, LoadStep DEF CallbacksNext

\* The invariant holds throughout.
LEMMA Inductive == CallbacksSpec => []IInv
BY InitIInv, StepIInv, PTL DEF CallbacksSpec

\* All variables keep their types.
THEOREM CallbacksTypeCorrect == CallbacksSpec => []CallbacksTypeOK
<1>1. IInv /\ TypeOK => CallbacksTypeOK
  BY DEF IInv, InputTypes, TextInv, CallbacksTypeOK
<1> QED
  BY <1>1, Inductive, CallbacksImplementLifecycle, TypeCorrect, PTL

\* However focus, pointer, keys, hot-builds and loads follow one another, what the
\* demo takes to be down is down at the device or was lost to a hot-build.
THEOREM NoKeyIsStuck == CallbacksSpec => []NothingStaysDown
<1>1. IInv => NothingStaysDown
  BY DEF IInv, InputInv, NothingStaysDown
<1> QED
  BY <1>1, Inductive, PTL

\* The driver has the lists of the text renderer that is initialised and no others.
THEOREM TextIsAccounted == CallbacksSpec => []TextListsAreAccounted
<1>1. IInv => TextListsAreAccounted
  BY DEF IInv, TextInv, TextListsAreAccounted
<1> QED
  BY <1>1, Inductive, PTL

\* No release calls into an unloaded library, whatever else the window calls.
THEOREM CallbacksMakeNoStaleCall == CallbacksSpec => []NoCallIntoOldLibrary
BY CallbacksImplementLifecycle, NoStaleCall, PTL

\* An unload frees everything listed, whatever else the window calls.
THEOREM CallbacksUnloadFrees == CallbacksSpec => UnloadFreesListed
BY CallbacksImplementLifecycle, UnloadFrees, PTL

------------------------------------------------------------------------------
(* The curve editor, a component by itself: waypoints, the measures of their  *)
(* segments, and the follower.                                               *)

\* All three properties together are inductive: a deletion takes a length off
\* the total, which stays a natural number as the total has that length in it.
CurveInv == CurveTypeOK /\ MeasuresFollowWaypoints /\ FollowerReadsInside

\* There are finitely many places, and the total is a sum over them.
LEMMA PlacesAreFinite ==
  /\ IsFiniteSet(Index) /\ MaxWaypoints \in Nat \ {0}
  /\ \A n \in 0 .. MaxWaypoints : 0 .. n - 1 \subseteq Index
  /\ \A length, S : Total(length, S) = SumOver(length, S)
<1>1. MaxWaypoints \in Nat \ {0}
  BY CurveConstants
<1>2. IsFiniteSet(Index)
  BY <1>1, FS_Interval DEF Index
<1>3. \A n \in 0 .. MaxWaypoints : 0 .. n - 1 \subseteq Index
  BY <1>1 DEF Index
<1>4. \A length, S : Total(length, S) = SumOver(length, S)
  BY DEF Total, SumOver
<1> QED
  BY <1>1, <1>2, <1>3, <1>4

\* A segment is measured from points that are there, whatever its type.
LEMMA ArcLengthType ==
  ASSUME NEW waypoint \in [Index -> Points], NEW handle \in [Index -> Points],
         NEW n \in 1 .. MaxWaypoints - 1, NEW i \in 0 .. n - 1, NEW type
  PROVE  SegmentArcLength(i, type, waypoint, handle, n - 1) \in Nat
<1>1. MaxWaypoints \in Nat \ {0}
  BY CurveConstants
<1>2. /\ Later(0, i - 1) \in Index /\ i \in Index /\ i + 1 \in Index
      /\ Earlier(i + 2, n - 1) \in Index
  BY <1>1 DEF Later, Earlier, Index
<1>3. /\ waypoint[Later(0, i - 1)] \in Points /\ waypoint[i] \in Points
      /\ waypoint[i + 1] \in Points /\ waypoint[Earlier(i + 2, n - 1)] \in Points
      /\ handle[i] \in Points /\ handle[i + 1] \in Points
  BY <1>2
<1> QED
  BY <1>3, CurveConstants DEF SegmentArcLength

\* Nothing is measured at the start.
LEMMA CurveStarts == CurveInit => CurveInv
<1> SUFFICES ASSUME CurveInit PROVE CurveInv
  OBVIOUS
<1>1. MaxSpeed \in Nat \ {0} /\ MaxWaypoints \in Nat \ {0} /\ (MaxSpeed + 1) \div 2 \in 1 .. MaxSpeed
  BY CurveConstants
<1>2. CurveTypeOK
  <2>1. /\ 0 \in 0 .. MaxSpeed /\ 0 \in Nat /\ 0 \in 0 .. MaxWaypoints /\ 0 \in 0 .. TimeCap
        /\ 0 \in 0 .. MaxWaypoints - 1 /\ Origin \in Points /\ 0 \in {0, 1} /\ 1 \in {0, 1}
    BY <1>1, CurveConstants
  <2>2. /\ curveWaypoint \in [Index -> Points] /\ curveHandle \in [Index -> Points]
        /\ splineSegment \in [Index -> {0, 1}] /\ segmentSpeed \in [Index -> 0 .. MaxSpeed]
        /\ segmentLength \in [Index -> Nat]
    BY <2>1 DEF CurveInit
  <2> QED
    BY <1>1, <2>1, <2>2 DEF CurveInit, CurveTypeOK
<1>3. FollowerReadsInside
  BY <1>1 DEF CurveInit, FollowerReadsInside, Index
<1>4. lineTotalLength = Total(segmentLength, Index)
  <2>1. \A i \in Index \ {} : segmentLength[i] = 0
    BY DEF CurveInit
  <2>2. SumOver(segmentLength, Index) = SumOver(segmentLength, {})
    <3>1. \A i \in Index : segmentLength[i] \in Int
      BY <2>1
    <3> QED
      BY <2>1, <3>1, PlacesAreFinite, SumWithoutZeros
  <2> QED
    BY <2>2, PlacesAreFinite, SumEmpty DEF CurveInit
<1>5. {i \in Index : segmentSpeed[i] # 0} = Drawn
  BY DEF CurveInit, Drawn
<1> QED
  BY <1>2, <1>3, <1>4, <1>5 DEF CurveInv, MeasuresFollowWaypoints, CurveInit

\* A waypoint that is placed has the segments before it measured again.
LEMMA PlaceKeeps ==
  ASSUME CurveInv, NEW p \in Points, PlaceWaypoint(p),
         UNCHANGED <<demoMode, styleVars, clockVars, crashed>>, leftButton' \in {"up", "down", "clicked"}
  PROVE  CurveInv'
<1> DEFINE n == curveWaypointCount
           waypoint == [curveWaypoint EXCEPT ![n] = p]
           handle == [curveHandle EXCEPT ![n] = p]
           length == [i \in Index |->
                        IF i < n THEN SegmentArcLength(i, splineSegment[i], waypoint, handle, n - 1)
                                 ELSE segmentLength[i]]
<1>1. /\ CurveTypeOK /\ MeasuresFollowWaypoints /\ FollowerReadsInside
      /\ n < MaxWaypoints /\ curveWaypoint' = waypoint /\ curveHandle' = handle
      /\ curveWaypointCount' = n + 1
  BY DEF CurveInv, PlaceWaypoint
<1>2. n = 0 => UNCHANGED lengthVars
  BY DEF PlaceWaypoint
<1>3. n # 0 => /\ segmentSpeed' = [segmentSpeed EXCEPT ![n - 1] = animSpeed]
               /\ segmentLength' = length
               /\ lineTotalLength' = Total(length, 0 .. n - 1)
               /\ splineSegment' = [splineSegment EXCEPT ![n - 1] = splineType]
  BY DEF PlaceWaypoint
<1>4. /\ n \in 0 .. MaxWaypoints - 1 /\ MaxWaypoints \in Nat \ {0} /\ n \in Index
      /\ waypoint \in [Index -> Points] /\ handle \in [Index -> Points]
      /\ segmentLength \in [Index -> Nat]
  <2>1. n \in 0 .. MaxWaypoints /\ MaxWaypoints \in Nat \ {0}
    BY <1>1, CurveConstants DEF CurveTypeOK
  <2>2. n \in 0 .. MaxWaypoints - 1 /\ n \in Index
    BY <1>1, <2>1 DEF Index
  <2>3. /\ curveWaypoint \in [Index -> Points] /\ curveHandle \in [Index -> Points]
        /\ segmentLength \in [Index -> Nat]
    BY <1>1 DEF CurveTypeOK
  <2> QED
    BY <2>1, <2>2, <2>3
<1> HIDE DEF waypoint, handle
<1>5. ASSUME NEW i \in Index, n # 0 PROVE length[i] \in Nat
  <2>1. CASE i < n
    <3>1. i \in 0 .. n - 1 /\ n \in 1 .. MaxWaypoints - 1
      BY <1>4, <1>5, <2>1 DEF Index
    <3> QED
      BY <1>4, <2>1, <3>1, ArcLengthType
  <2>2. CASE ~(i < n)
    BY <1>4, <2>2
  <2> QED
    BY <2>1, <2>2
<1>6. n # 0 => \A i \in Index : i >= n => length[i] = 0
  <2> SUFFICES ASSUME n # 0, NEW i \in Index, i >= n PROVE length[i] = 0
    OBVIOUS
  <2>1. i \in Nat /\ ~(i < n) /\ i >= Later(1, n)
    BY <1>4 DEF Index, Later
  <2> QED
    BY <1>1, <2>1 DEF MeasuresFollowWaypoints
<1>7. n # 0 => /\ Total(length, 0 .. n - 1) \in Nat
               /\ Total(length, 0 .. n - 1) = Total(length, Index)
  <2> SUFFICES ASSUME n # 0
               PROVE  /\ Total(length, 0 .. n - 1) \in Nat
                      /\ Total(length, 0 .. n - 1) = Total(length, Index)
    OBVIOUS
  <2>1. /\ 0 .. n - 1 \in SUBSET Index /\ IsFiniteSet(0 .. n - 1) /\ IsFiniteSet(Index)
    <3>1. 0 .. n - 1 \in SUBSET Index
      BY <1>4 DEF Index
    <3>2. 0 \in Int /\ n - 1 \in Int
      BY <1>4
    <3> QED
      BY <3>1, <3>2, PlacesAreFinite, FS_Interval
  <2>2. \A i \in Index \ (0 .. n - 1) : length[i] = 0
    BY <1>4, <1>6 DEF Index
  <2>3. (\A i \in Index : length[i] \in Int) /\ (\A i \in 0 .. n - 1 : length[i] \in Nat)
    BY <1>5, <2>1
  <2> HIDE DEF length
  <2>4. SumOver(length, 0 .. n - 1) \in Nat
    BY <2>1, <2>3, SumType
  <2>5. SumOver(length, Index) = SumOver(length, 0 .. n - 1)
    BY <2>1, <2>2, <2>3, SumWithoutZeros
  <2> QED
    BY <2>4, <2>5, PlacesAreFinite
<1>8. segmentLength' \in [Index -> Nat] /\ lineTotalLength' \in Nat
  <2>1. CASE n = 0
    BY <1>1, <1>2, <2>1 DEF CurveTypeOK, lengthVars
  <2>2. CASE n # 0
    BY <1>3, <1>5, <1>7, <2>2
  <2> QED
    BY <2>1, <2>2
<1>9. splineSegment' \in [Index -> {0, 1}] /\ segmentSpeed' \in [Index -> 0 .. MaxSpeed]
  <2>1. CASE n = 0
    BY <1>1, <1>2, <2>1 DEF CurveTypeOK, lengthVars
  <2>2. CASE n # 0
    <3>1. /\ splineSegment \in [Index -> {0, 1}] /\ splineType \in {0, 1}
          /\ segmentSpeed \in [Index -> 0 .. MaxSpeed] /\ animSpeed \in 1 .. MaxSpeed
      BY <1>1 DEF CurveTypeOK
    <3>2. animSpeed \in 0 .. MaxSpeed
      BY <3>1, CurveConstants
    <3> QED
      BY <1>3, <2>2, <3>1, <3>2
  <2> QED
    BY <2>1, <2>2
<1>10. CurveTypeOK'
  <2>1. curveWaypointCount' \in 0 .. MaxWaypoints
    BY <1>1, <1>4
  <2> QED
    BY <1>1, <1>4, <1>8, <1>9, <2>1 DEF CurveTypeOK, styleVars, clockVars, Index
<1>11. FollowerReadsInside'
  BY <1>1 DEF FollowerReadsInside, clockVars, Index
<1>12. lineTotalLength' = Total(segmentLength, Index)'
  <2>1. CASE n = 0
    BY <1>1, <1>2, <2>1 DEF MeasuresFollowWaypoints, lengthVars
  <2>2. CASE n # 0
    <3> HIDE DEF length
    <3> QED
      BY <1>3, <1>7, <2>2
  <2> QED
    BY <2>1, <2>2
<1>13. \A i \in Index : i >= Later(1, curveWaypointCount') => segmentLength'[i] = 0
  <2> SUFFICES ASSUME NEW i \in Index, i >= Later(1, n + 1)
               PROVE  segmentLength'[i] = 0
    BY <1>1
  <2>1. i \in Nat /\ i >= Later(1, n) /\ i >= n
    BY <1>4 DEF Index, Later
  <2>2. segmentLength[i] = 0
    BY <1>1, <2>1 DEF MeasuresFollowWaypoints
  <2> QED
    BY <1>2, <1>3, <1>6, <2>1, <2>2 DEF lengthVars
<1>14. {i \in Index : segmentSpeed'[i] # 0} = 0 .. n - 1
  <2>1. {i \in Index : segmentSpeed[i] # 0} \in {0 .. n - 2, (0 .. n - 2) \cup {n - 1}}
    BY <1>1 DEF MeasuresFollowWaypoints, Drawn
  <2>2. CASE n = 0
    BY <1>2, <1>4, <2>1, <2>2 DEF lengthVars, Index
  <2>3. CASE n # 0
    <3>1. n - 1 \in Index /\ animSpeed # 0 /\ segmentSpeed \in [Index -> 0 .. MaxSpeed]
      <4>1. n - 1 \in Index
        BY <1>4, <2>3 DEF Index
      <4>2. animSpeed \in 1 .. MaxSpeed /\ segmentSpeed \in [Index -> 0 .. MaxSpeed]
        BY <1>1 DEF CurveTypeOK
      <4>3. animSpeed # 0
        BY <4>2, CurveConstants
      <4> QED
        BY <4>1, <4>2, <4>3
    <3>2. \A i \in Index : segmentSpeed'[i] # 0 <=> i = n - 1 \/ segmentSpeed[i] # 0
      BY <1>3, <2>3, <3>1
    <3>3. {i \in Index : segmentSpeed'[i] # 0} = {i \in Index : segmentSpeed[i] # 0} \cup {n - 1}
      BY <3>1, <3>2
    <3>4. (0 .. n - 2) \cup {n - 1} = 0 .. n - 1
      BY <1>4, <2>3
    <3> QED
      BY <2>1, <3>3, <3>4
  <2> QED
    BY <2>2, <2>3
<1>15. Drawn' = 0 .. n - 1
  BY <1>1, <1>4 DEF Drawn
<1>16. MeasuresFollowWaypoints'
  BY <1>12, <1>13, <1>14, <1>15 DEF MeasuresFollowWaypoints, Index, Later
<1> QED
  BY <1>10, <1>11, <1>16 DEF CurveInv

\* A waypoint that is deleted takes the length of its segment with it.
LEMMA DeleteKeeps ==
  ASSUME CurveInv, RightClick
  PROVE  CurveInv'
<1> DEFINE c == curveWaypointCount
<1>1. /\ CurveTypeOK /\ MeasuresFollowWaypoints /\ FollowerReadsInside
      /\ c \in 1 .. MaxWaypoints /\ c - 1 \in Index /\ MaxWaypoints \in Nat \ {0}
  <2>1. CurveTypeOK /\ MeasuresFollowWaypoints /\ FollowerReadsInside
    BY DEF CurveInv
  <2>2. c \in 0 .. MaxWaypoints /\ c > 0 /\ MaxWaypoints \in Nat \ {0}
    BY <2>1, CurveConstants DEF CurveTypeOK, RightClick
  <2>3. c \in 1 .. MaxWaypoints /\ c - 1 \in Index
    BY <2>2 DEF Index
  <2> QED
    BY <2>1, <2>2, <2>3
<1>2. /\ segmentSpeed' = [segmentSpeed EXCEPT ![c - 1] = 0]
      /\ lineTotalLength' = lineTotalLength - segmentLength[c - 1]
      /\ segmentLength' = [segmentLength EXCEPT ![c - 1] = 0]
      /\ curveWaypointCount' = c - 1 /\ leftButton' \in {"up", "down", "clicked"}
      /\ UNCHANGED <<demoMode, curveWaypoint, curveHandle, styleVars, splineSegment,
                     clockVars, crashed>>
  BY <1>1 DEF RightClick, NoDoubleClick, CurveTypeOK
<1>3. segmentLength \in [Index -> Nat] /\ segmentSpeed \in [Index -> 0 .. MaxSpeed]
  BY <1>1 DEF CurveTypeOK
<1>4. /\ lineTotalLength = SumOver(segmentLength, Index) /\ lineTotalLength \in Nat
  BY <1>1, PlacesAreFinite DEF MeasuresFollowWaypoints, CurveTypeOK
<1>5. lineTotalLength' \in Nat
  <2>1. segmentLength[c - 1] <= SumOver(segmentLength, Index)
    BY <1>1, <1>3, PlacesAreFinite, SumCovers
  <2> QED
    BY <1>1, <1>2, <1>3, <1>4, <2>1
<1>6. lineTotalLength' = SumOver(segmentLength', Index)
  <2> DEFINE length == [segmentLength EXCEPT ![c - 1] = 0]
  <2>1. /\ \A i \in Index : segmentLength[i] \in Int
        /\ length[c - 1] = 0 /\ \A i \in Index : i # c - 1 => length[i] = segmentLength[i]
    BY <1>1, <1>3
  <2> HIDE DEF length
  <2>2. SumOver(length, Index)
          = SumOver(segmentLength, Index) - segmentLength[c - 1] + length[c - 1]
    <3>1. length[c - 1] \in Int
      BY <2>1
    <3> QED
      BY <1>1, <2>1, <3>1, PlacesAreFinite, SumExcept
  <2>3. SumOver(length, Index) = lineTotalLength - segmentLength[c - 1]
    BY <1>1, <1>4, <2>1, <2>2
  <2> QED
    BY <1>2, <2>3 DEF length
<1>7. CurveTypeOK'
  <2>1. segmentLength' \in [Index -> Nat] /\ segmentSpeed' \in [Index -> 0 .. MaxSpeed]
    <3>1. 0 \in Nat /\ 0 \in 0 .. MaxSpeed
      BY CurveConstants
    <3> QED
      BY <1>2, <1>3, <3>1
  <2>2. curveWaypointCount' \in 0 .. MaxWaypoints
    BY <1>1, <1>2
  <2> QED
    BY <1>1, <1>2, <1>5, <2>1, <2>2 DEF CurveTypeOK, styleVars, clockVars, Index
<1>8. FollowerReadsInside'
  BY <1>1, <1>2 DEF FollowerReadsInside, clockVars, Index
<1>9. \A i \in Index : i >= Later(1, c - 1) => segmentLength'[i] = 0
  <2> SUFFICES ASSUME NEW i \in Index, i >= Later(1, c - 1), i # c - 1
               PROVE  segmentLength[i] = 0
    BY <1>1, <1>2, <1>3
  <2>1. i \in Nat /\ i >= Later(1, c)
    BY <1>1 DEF Index, Later
  <2> QED
    BY <1>1, <2>1 DEF MeasuresFollowWaypoints
<1>10. {i \in Index : segmentSpeed'[i] # 0} = 0 .. c - 2
  <2>1. {i \in Index : segmentSpeed[i] # 0} \in {0 .. c - 2, (0 .. c - 2) \cup {c - 1}}
    BY <1>1 DEF MeasuresFollowWaypoints, Drawn
  <2>2. \A i \in Index : segmentSpeed'[i] # 0 <=> i # c - 1 /\ segmentSpeed[i] # 0
    BY <1>1, <1>2, <1>3
  <2>3. {i \in Index : segmentSpeed'[i] # 0} = {i \in Index : segmentSpeed[i] # 0} \ {c - 1}
    BY <2>2
  <2>4. c - 1 \notin 0 .. c - 2
    BY <1>1
  <2> QED
    BY <2>1, <2>3, <2>4
<1>11. 0 .. c - 2 \in {0 .. c - 3, (0 .. c - 3) \cup {c - 2}}
  <2>1. CASE c = 1
    BY <2>1
  <2>2. CASE c > 1
    <3>1. 0 .. c - 2 = (0 .. c - 3) \cup {c - 2}
      BY <1>1, <2>2
    <3> QED
      BY <3>1
  <2> QED
    BY <1>1, <2>1, <2>2
<1>12. Drawn' = 0 .. c - 3 /\ curveWaypointCount' - 1 = c - 2
  BY <1>1, <1>2 DEF Drawn
<1>13. MeasuresFollowWaypoints'
  <2>1. lineTotalLength' = Total(segmentLength, Index)'
    BY <1>6, PlacesAreFinite
  <2> QED
    BY <1>2, <1>9, <1>10, <1>11, <1>12, <2>1 DEF MeasuresFollowWaypoints, Index, Later
<1> QED
  BY <1>7, <1>8, <1>13 DEF CurveInv

\* What neither places nor deletes a waypoint leaves the measures alone.
LEMMA MeasuresUntouched ==
  ASSUME CurveInv, CurveTypeOK', FollowerReadsInside',
         UNCHANGED <<curveWaypointCount, lengthVars>>
  PROVE  CurveInv'
<1>1. MeasuresFollowWaypoints'
  BY DEF CurveInv, MeasuresFollowWaypoints, lengthVars, Drawn
<1> QED
  BY <1>1 DEF CurveInv

\* The follower goes on to a segment that is drawn.
LEMMA UpdateKeeps ==
  ASSUME CurveInv, UpdateCurve
  PROVE  CurveInv'
<1>1. /\ CurveTypeOK /\ FollowerReadsInside /\ MaxWaypoints \in Nat \ {0} /\ TimeCap \in Nat
      /\ curveWaypointCount \in 2 .. MaxWaypoints
      /\ curveSegmentIndex \in Index /\ segmentSpeed[curveSegmentIndex] \in 0 .. MaxSpeed
      /\ MaxSpeed \in Nat /\ curveSegmentTime \in 0 .. TimeCap
  <2>1. CurveTypeOK /\ FollowerReadsInside /\ curveWaypointCount > 1
    BY DEF CurveInv, UpdateCurve
  <2>2. MaxWaypoints \in Nat \ {0} /\ TimeCap \in Nat /\ MaxSpeed \in Nat
    BY CurveConstants
  <2>3. /\ curveWaypointCount \in 0 .. MaxWaypoints /\ curveSegmentTime \in 0 .. TimeCap
        /\ curveSegmentIndex \in Index /\ segmentSpeed \in [Index -> 0 .. MaxSpeed]
    BY <2>1 DEF CurveTypeOK, Index
  <2>4. curveWaypointCount \in 2 .. MaxWaypoints
    BY <2>1, <2>2, <2>3
  <2> QED
    BY <2>1, <2>2, <2>3, <2>4
<1>2. UNCHANGED <<editVars, pointVars, styleVars, lengthVars, crashed>>
  BY DEF UpdateCurve
<1>3. NextSegment(curveSegmentIndex) \in 0 .. MaxWaypoints - 2
  <2> DEFINE k == curveWaypointCount - 1
             a == curveSegmentIndex + 1
  <2>1. k \in Nat \ {0} /\ a \in Nat /\ k - 1 = curveWaypointCount - 2
    BY <1>1 DEF Index
  <2>2. a % k \in 0 .. (curveWaypointCount - 2)
    <3> HIDE DEF a, k
    <3>1. a % k \in 0 .. k - 1
      BY <2>1
    <3> QED
      BY <2>1, <3>1
  <2> QED
    BY <1>1, <2>2 DEF NextSegment
<1>4. \/ curveSegmentIndex' = NextSegment(curveSegmentIndex) /\ curveSegmentTime' = 0
      \/ /\ curveSegmentIndex' = curveSegmentIndex
         /\ curveSegmentTime' = Earlier(curveSegmentTime + segmentSpeed[curveSegmentIndex], TimeCap)
  BY DEF UpdateCurve
<1>5. curveSegmentTime' \in 0 .. TimeCap
  BY <1>1, <1>4 DEF Earlier
<1>6. curveSegmentIndex' \in 0 .. MaxWaypoints - 1 /\ FollowerReadsInside'
  BY <1>1, <1>3, <1>4 DEF FollowerReadsInside, Index
<1>7. CurveTypeOK'
  BY <1>1, <1>2, <1>5, <1>6 DEF CurveTypeOK, editVars, pointVars, styleVars, lengthVars, Index
<1> QED
  BY <1>2, <1>6, <1>7, MeasuresUntouched DEF pointVars

\* Every step keeps the three.
LEMMA CurveSteps == CurveInv /\ [CurveNext]_curveVars => CurveInv'
<1> SUFFICES ASSUME CurveInv, [CurveNext]_curveVars PROVE CurveInv'
  OBVIOUS
<1>1. /\ CurveTypeOK /\ FollowerReadsInside
      /\ MaxWaypoints \in Nat \ {0} /\ MaxSpeed \in Nat \ {0}
  BY CurveConstants DEF CurveInv
<1>2. ASSUME NEW p \in Points, LeftClick(p) PROVE CurveInv'
  <2>1. CASE demoMode = 1 /\ curveWaypointCount < MaxWaypoints
    BY <1>2, <2>1, PlaceKeeps DEF LeftClick
  <2>2. CASE ~(demoMode = 1 /\ curveWaypointCount < MaxWaypoints)
    <3>1. CurveTypeOK' /\ FollowerReadsInside' /\ UNCHANGED <<curveWaypointCount, lengthVars>>
      BY <1>1, <1>2, <2>2
         DEF LeftClick, CurveTypeOK, FollowerReadsInside, pointVars, styleVars, lengthVars, clockVars, Index
    <3> QED
      BY <3>1, MeasuresUntouched
  <2> QED
    BY <2>1, <2>2
<1>3. ASSUME NEW p \in Points, MouseMove(p) PROVE CurveInv'
  <2>1. UNCHANGED <<curveWaypointCount, lengthVars>> /\ FollowerReadsInside'
    BY <1>1, <1>3 DEF MouseMove, FollowerReadsInside, clockVars, Index
  <2>2. /\ curveWaypoint' \in [Index -> Points] /\ curveHandle' \in [Index -> Points]
        /\ crashed' \in BOOLEAN
    BY <1>1, <1>3 DEF MouseMove, CurveTypeOK
  <2>3. CurveTypeOK'
    BY <1>1, <1>3, <2>1, <2>2 DEF MouseMove, CurveTypeOK, editVars, styleVars, lengthVars, clockVars, Index
  <2> QED
    BY <2>1, <2>3, MeasuresUntouched
<1>4. CASE RightClick
  BY <1>4, DeleteKeeps
<1>5. ASSUME \/ LeftDoubleClick \/ LeftRelease \/ MouseReset \/ KeyDemoMode \/ KeyStyle
             \/ UNCHANGED curveVars
      PROVE  CurveInv'
  <2>1. UNCHANGED <<pointVars, lengthVars, clockVars, crashed>>
    BY <1>5 DEF LeftDoubleClick, LeftRelease, MouseReset, KeyDemoMode, KeyStyle, curveVars
  <2>2. /\ leftButton' \in {"up", "down", "clicked"} /\ demoMode' \in {0, 1}
    <3>1. leftButton \in {"up", "down", "clicked"} /\ demoMode \in {0, 1}
      BY <1>1 DEF CurveTypeOK
    <3> QED
      BY <1>5, <3>1 DEF LeftDoubleClick, LeftRelease, MouseReset, KeyDemoMode, KeyStyle, curveVars, editVars
  <2>3. /\ splineType' \in {0, 1} /\ animSpeed' \in 1 .. MaxSpeed /\ updateAnimation' \in BOOLEAN
    <3>1. splineType \in {0, 1} /\ animSpeed \in 1 .. MaxSpeed /\ updateAnimation \in BOOLEAN
      BY <1>1 DEF CurveTypeOK
    <3>2. CASE UNCHANGED styleVars
      BY <3>1, <3>2 DEF styleVars
    <3>3. CASE KeyStyle
      <4>1. CASE updateAnimation' = ~updateAnimation /\ UNCHANGED <<splineType, animSpeed>>
        BY <3>1, <4>1
      <4>2. CASE \/ animSpeed > 1 /\ animSpeed' = animSpeed - 1
                 \/ animSpeed < MaxSpeed /\ animSpeed' = animSpeed + 1
        <5>1. animSpeed' \in 1 .. MaxSpeed
          BY <1>1, <3>1, <4>2
        <5>2. UNCHANGED <<splineType, updateAnimation>>
          BY <3>1, <3>3, <4>2 DEF KeyStyle
        <5> QED
          BY <3>1, <5>1, <5>2
      <4>3. CASE splineType' = 1 - splineType /\ UNCHANGED <<animSpeed, updateAnimation>>
        BY <3>1, <4>3
      <4> QED
        BY <3>3, <4>1, <4>2, <4>3 DEF KeyStyle
    <3> QED
      BY <1>5, <3>2, <3>3 DEF LeftDoubleClick, LeftRelease, MouseReset, KeyDemoMode, curveVars
  <2>4. CurveTypeOK' /\ FollowerReadsInside'
    BY <1>1, <2>1, <2>2, <2>3
       DEF CurveTypeOK, FollowerReadsInside, pointVars, lengthVars, clockVars, Index
  <2> QED
    BY <2>1, <2>4, MeasuresUntouched DEF pointVars
<1>6. CASE UpdateCurve
  BY <1>6, UpdateKeeps
<1> QED
  BY <1>2, <1>3, <1>4, <1>5, <1>6 DEF CurveNext, MouseStep

\* The curve editor keeps its invariant.
LEMMA CurveInvariant == CurveSpec => []CurveInv
<1> QED
  BY CurveStarts, CurveSteps, PTL DEF CurveSpec

\* Counts, lengths, speeds and the follower's index stay in range; a deletion
\* never makes the total negative (a3demoCB_mouseClick).
THEOREM CurveTypeCorrect == CurveSpec => []CurveTypeOK
<1>1. CurveInv => CurveTypeOK
  BY DEF CurveInv
<1> QED
  BY <1>1, CurveInvariant, PTL

\* Lengths, total and speeds follow the waypoints (a3demoCB_mouseClick).
THEOREM MeasuresFollow == CurveSpec => []MeasuresFollowWaypoints
<1>1. CurveInv => MeasuresFollowWaypoints
  BY DEF CurveInv
<1> QED
  BY <1>1, CurveInvariant, PTL

\* The follower reads inside the arrays (a3demo_update_curve).
THEOREM FollowerStaysInside == CurveSpec => []FollowerReadsInside
<1>1. CurveInv => FollowerReadsInside
  BY DEF CurveInv
<1> QED
  BY <1>1, CurveInvariant, PTL

================================================================================
