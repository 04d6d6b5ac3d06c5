---------------------------- MODULE DemoCallbacks ----------------------------
(***************************************************************************)
(* What the window calls while the demo comes and goes: keyboard, mouse    *)
(* and focus events, and the text that is drawn.  The demo keeps a picture *)
(* of keys and buttons that is only as good as the events it is told of:   *)
(* it is told of keys while the window is active, of buttons while the     *)
(* pointer is inside, and of nothing during a hot-build.                   *)
(***************************************************************************)
EXTENDS DemoLifecycle

CONSTANT Keys       \* virtual keys

ASSUME CallbackConstants == "left" \notin Keys

VARIABLES
  active, inside,   \* the window has the focus, the pointer is in it
  held, pressed,    \* keys and left button that are down at the device
  key, key0,        \* the demo's keyboard: now and at the last update
  btn, btn0,        \* its left mouse button
  text,             \* the text renderer is initialised (base # 0)
  lists,            \* sets of display lists in the driver
  textMode,
  missed            \* keys, and "left", whose event fell into a hot-build

window    == <<active, inside, held, pressed>>
keyboard  == <<key, key0>>
mouse     == <<btn, btn0>>
textVars  == <<text, lists, textMode>>
inputVars == <<window, keyboard, mouse, missed>>
demoVars  == <<vars, inputVars, textVars>>

Running  == phase = "running"
OnRecord == key \union (IF btn THEN {"left"} ELSE {})

CallbacksTypeOK ==
  /\ TypeOK
  /\ active \in BOOLEAN /\ inside \in BOOLEAN /\ pressed \in BOOLEAN
  /\ held \subseteq Keys /\ key \subseteq Keys /\ key0 \subseteq Keys
  /\ btn \in BOOLEAN /\ btn0 \in BOOLEAN
  /\ text \in BOOLEAN /\ lists \in 0 .. 2 /\ textMode \in 0 .. 2
  /\ missed \subseteq Keys \union {"left"}

CallbacksInit ==
  /\ Init
  /\ active = TRUE /\ inside = TRUE
  /\ held = {} /\ pressed = FALSE
  /\ key = {} /\ key0 = {} /\ btn = FALSE /\ btn0 = FALSE
  /\ text = FALSE /\ lists = 0 /\ textMode = 0
  /\ missed = {}

------------------------------------------------------------------------------
(* Keys and buttons.  An event changes the device; the callback that tells  *)
(* of it is called if the window gets the event and the demo is there.      *)

\* ms is on record in the demo, and the event that takes it off the record comes
\* during a hot-build.
Swallowed(ms) ==
  missed' = CASE phase = "hot" -> missed \union (ms \intersect OnRecord)
              [] Running       -> missed \ ms
              [] OTHER         -> missed

\* keyPress, and keyHold while it repeats.
KeyDown(k) ==
  /\ held' = held \union {k}
  /\ IF active /\ Running
       THEN key' = key \union {k} /\ missed' = missed \ {k}
       ELSE UNCHANGED <<key, missed>>
  /\ UNCHANGED <<vars, active, inside, pressed, key0, mouse, textVars>>

KeyUp(k) ==
  /\ k \in held /\ held' = held \ {k}
  /\ key' = IF active /\ Running THEN key \ {k} ELSE key
  /\ IF active THEN Swallowed({k}) ELSE UNCHANGED missed
  /\ UNCHANGED <<vars, active, inside, pressed, key0, mouse, textVars>>

\* mouseClick and mouseDoubleClick.
ButtonDown ==
  /\ ~pressed /\ pressed' = TRUE
  /\ IF inside /\ Running
       THEN btn' = TRUE /\ missed' = missed \ {"left"}
       ELSE UNCHANGED <<btn, missed>>
  /\ UNCHANGED <<vars, active, inside, held, keyboard, btn0, textVars>>

ButtonUp ==
  /\ pressed /\ pressed' = FALSE
  /\ btn' = IF inside /\ Running THEN FALSE ELSE btn
  /\ IF inside THEN Swallowed({"left"}) ELSE UNCHANGED missed
  /\ UNCHANGED <<vars, active, inside, held, keyboard, btn0, textVars>>

\* Slip: a3mouseReset is left out.
ResetOnlyKeys == key' = {} /\ UNCHANGED btn

\* a3keyboardReset and a3mouseReset: what is down is up, and the state of the
\* last update stays.
ResetInput == key' = {} /\ btn' = FALSE

WindowDeactivate ==
  /\ active /\ active' = FALSE
  /\ IF Running THEN ResetInput ELSE UNCHANGED <<key, btn>>
  /\ Swallowed(Keys \union {"left"})
  /\ UNCHANGED <<vars, inside, held, pressed, key0, btn0, textVars>>

\* Its callback does nothing.
WindowActivate ==
  /\ ~active /\ active' = TRUE
  /\ UNCHANGED <<vars, inside, held, pressed, keyboard, mouse, textVars, missed>>

MouseLeave ==
  /\ inside /\ inside' = FALSE
  /\ btn' = IF Running THEN FALSE ELSE btn
  /\ Swallowed({"left"})
  /\ UNCHANGED <<vars, active, held, pressed, keyboard, btn0, textVars>>

MouseEnter ==
  /\ ~inside /\ inside' = TRUE
  /\ UNCHANGED <<vars, active, held, pressed, keyboard, mouse, textVars, missed>>

\* a3demoCB_idle, when the timer has ticked: the input is read, then it becomes
\* that of the last update.
IdleUpdate ==
  /\ Running
  /\ key0' = key /\ btn0' = btn
  /\ UNCHANGED <<vars, window, key, btn, textVars, missed>>

------------------------------------------------------------------------------
(* Text.                                                                    *)

\* Slip: initialised twice, as "it does not reload" otherwise, without the
\* release in between.
InitializedTwice(made) == text' = made /\ lists' = IF made THEN lists + 2 ELSE lists

\* a3textInitialize: made, released, and made again; the driver may refuse.
Initialized(made) == text' = made /\ lists' = IF made THEN lists + 1 ELSE lists

\* a3textRelease.
ReleasedText == text' = FALSE /\ lists' = IF text THEN lists - 1 ELSE lists

\* 'T': text that could not be made before is made now.
ReloadText(made) ==
  /\ Running /\ active
  /\ IF text THEN ReleasedText ELSE Initialized(made)
  /\ UNCHANGED <<vars, inputVars, textMode>>

\* Slip: the mode after the last is not the first.
NextTextModeNoWrap == textMode + 1

\* Off, controls and data in turn (textModeCount is 3).
NextTextMode == (textMode + 1) % 3

\* 't'.
ToggleText ==
  /\ Running /\ active
  /\ textMode' = NextTextMode
  /\ UNCHANGED <<vars, inputVars, text, lists>>

------------------------------------------------------------------------------
(* Loading and unloading, with what they do to input and text.              *)

\* A new state is zero, whatever is held at the device.
Load(made) ==
  /\ ColdLoad
  /\ key' = {} /\ key0' = {} /\ btn' = FALSE /\ btn0' = FALSE
  /\ missed' = {}
  /\ Initialized(made) /\ textMode' = 1
  /\ UNCHANGED window

\* The state is gone, and its picture of the input with it.
Unload ==
  /\ ColdUnload
  /\ key' = {} /\ key0' = {} /\ btn' = FALSE /\ btn0' = FALSE
  /\ missed' = {}
  /\ ReleasedText /\ textMode' = 0
  /\ UNCHANGED window

\* The others keep the state, or copy it as it is.
KeepInputAndText ==
  /\ WindowResize \/ ReloadShaders \/ HotUnload \/ HotLoad
  /\ UNCHANGED <<inputVars, textVars>>

CallbacksNext ==
  \/ \E k \in Keys : KeyDown(k) \/ KeyUp(k)
  \/ ButtonDown \/ ButtonUp
  \/ WindowDeactivate \/ WindowActivate
  \/ MouseLeave \/ MouseEnter
  \/ IdleUpdate
  \/ \E made \in BOOLEAN : ReloadText(made) \/ Load(made)
  \/ ToggleText
  \/ Unload
  \/ KeepInputAndText

CallbacksSpec == CallbacksInit /\ [][CallbacksNext]_demoVars

------------------------------------------------------------------------------
(* Properties.                                                              *)

\* "active controls will freeze and you'll get strange behaviors": what the demo
\* takes to be down is down at the device, wherever focus and pointer have been
\* in the meantime, unless the event was lost to a hot-build.
NothingStaysDown ==
  Running => /\ key \subseteq held \union missed
             /\ btn => pressed \/ "left" \in missed

\* The driver has the lists of the text renderer that is initialised and no
\* others, through reloads of the text, hot-builds and unloads, and the demo
\* leaves none behind.
TextListsAreAccounted ==
  /\ lists = IF text THEN 1 ELSE 0
  /\ phase = "none" => lists = 0

==============================================================================
