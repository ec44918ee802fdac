---------------------------- MODULE PointerInput ----------------------------
(***************************************************************************)
(* One pointer for two devices: source/input.c turns the touch screen and a *)
(* cursor moved by the controller into the motion events of a single        *)
(* pointer.  A step is one input_feed, which reads what the devices report  *)
(* since the last frame and sends the game up to three events.  Positions   *)
(* are left out.                                                            *)
(***************************************************************************)
EXTENDS Naturals, Sequences, Functions

CONSTANTS Fingers, NoFinger

VARIABLES
  docked,     \* g_previous_docked_state: TRUE, FALSE, or "unset"
  cursor,     \* g_cursor_visible: "unset", "hidden" or "shown"
  pressed,    \* g_controller_pressed
  touch,      \* g_touch_active with g_touch_finger_id, NoFinger when inactive
  buttonA,    \* the A button as of the last padUpdate
  down,       \* what the game was told: a gesture has begun and not ended
  broken,     \* the last feed began inside a gesture, or moved or ended outside
  cut         \* the console was docked under a touch; until all is released

pointerVars == <<docked, cursor, pressed, touch, buttonA, down, broken, cut>>

Unset == "unset"
DockStates == {"docked", "handheld"}

PointerInit ==
  /\ docked = Unset /\ cursor = Unset
  /\ pressed = FALSE /\ touch = NoFinger /\ buttonA = FALSE
  /\ down = FALSE /\ broken = FALSE /\ cut = FALSE

\* The state one feed works on, with what the game has made of its events so far.
State == [cursor |-> cursor, pressed |-> pressed, touch |-> touch,
          down |-> down, broken |-> FALSE]

GameDown(d, action) == IF action = "move" THEN d ELSE action = "down"
Wrong(d, action) == IF action = "down" THEN d ELSE ~d
Inject(s, action) == [s EXCEPT !.down = GameDown(@, action),
                               !.broken = @ \/ Wrong(s.down, action)]
ReleaseController(s) ==
  IF s.pressed THEN [Inject(s, "up") EXCEPT !.pressed = FALSE] ELSE s

-----------------------------------------------------------------------------
(***************************************************************************)
(* The parts of input_feed, each a function of the state.                   *)
(***************************************************************************)
\* A change of mode shows the cursor on the television; the first frame also
\* hides it on the handheld.
NoticeMode(s, dock) ==
  IF dock # docked /\ (s.cursor = Unset \/ dock = "docked")
  THEN [s EXCEPT !.cursor = IF dock = "docked" THEN "shown" ELSE "hidden"]
  ELSE s

Plus(s, pushed) == IF pushed THEN [s EXCEPT !.cursor = "shown"] ELSE s
Minus(s, pushed) ==
  IF pushed THEN [ReleaseController(s) EXCEPT !.cursor = "hidden"] ELSE s

\* Mutant: a touch does not end the press of A.
UpdateTouchKeepsPress(s, fingers) ==
  IF s.touch # NoFinger
  THEN IF s.touch \in Range(fingers) THEN Inject(s, "move")
       ELSE [Inject(s, "up") EXCEPT !.touch = NoFinger]
  ELSE IF fingers # <<>>
       THEN Inject([s EXCEPT !.touch = Head(fingers)], "down") ELSE s

\* update_touch_input: fingers lists the touches, oldest report first.
UpdateTouch(s, fingers) ==
  IF s.touch # NoFinger
  THEN IF s.touch \in Range(fingers) THEN Inject(s, "move")
       ELSE [Inject(s, "up") EXCEPT !.touch = NoFinger]
  ELSE IF fingers # <<>>
       THEN Inject([ReleaseController(s) EXCEPT !.touch = Head(fingers)], "down")
       ELSE s
TouchBusy(before, after) == before.touch # NoFinger \/ after.touch # NoFinger

\* update_controller_cursor: held is A now, was is A one frame ago.
UpdateController(s, held, was) ==
  IF held THEN IF ~was THEN [Inject(s, "down") EXCEPT !.pressed = TRUE]
               ELSE IF s.pressed THEN Inject(s, "move") ELSE s
  ELSE IF was THEN ReleaseController(s) ELSE s

UpdateCursor(s, held) ==
  IF s.cursor = "shown" THEN UpdateController(s, held, buttonA) ELSE s
UpdateDevices(s, dock, fingers, held) ==
  IF dock = "docked" THEN UpdateCursor(s, held)
  ELSE LET after == UpdateTouch(s, fingers)
       IN IF TouchBusy(s, after) THEN after ELSE UpdateCursor(after, held)

-----------------------------------------------------------------------------
FingerLists == {<<>>} \cup {<<f>> : f \in Fingers}
                 \cup {l \in Fingers \X Fingers : l[1] # l[2]}

Feed(dock, fingers, held, plus, minus) ==
  LET s == UpdateDevices(Minus(Plus(NoticeMode(State, dock), plus), minus),
                         dock, fingers, held)
  IN /\ docked' = dock /\ buttonA' = held
     /\ cursor' = s.cursor /\ pressed' = s.pressed /\ touch' = s.touch
     /\ down' = s.down /\ broken' = s.broken
     /\ cut' = IF dock = "docked" /\ touch # NoFinger THEN TRUE
               ELSE cut /\ (pressed \/ touch # NoFinger \/ down)

PointerNext == \E dock \in DockStates, fingers \in FingerLists, held, plus, minus \in BOOLEAN :
          Feed(dock, fingers, held, plus, minus)

PointerSpec == PointerInit /\ [][PointerNext]_pointerVars

-----------------------------------------------------------------------------
(***************************************************************************)
(* The game follows one pointer: it never gets a second begin inside a      *)
(* gesture, nor a move or an end outside one; what it believes is what      *)
(* input.c believes, the two devices never both hold the pointer, and a     *)
(* press of A is over when A is up.                                         *)
(* Docking the console while a finger is down leaves the touch open and     *)
(* stops reading it, and everything until both are released again is        *)
(* excepted: there A begins a gesture inside the touch, and the end of the  *)
(* press is missed when the screen takes over again.                        *)
(***************************************************************************)
OnePointer ==
  ~cut => /\ ~broken
          /\ down <=> (pressed \/ touch # NoFinger)
          /\ ~(pressed /\ touch # NoFinger)
          /\ pressed => buttonA
=============================================================================
