----------------------------- MODULE EngineInput -----------------------------
(***************************************************************************)
(* What the player presses, on its way through one turn of Engine::tick(): *)
(* GLFW's callbacks while prerender() polls, the gamepad read after it,    *)
(* the binds a source (a key, a mouse button, a button of the pad) has,    *)
(* the receivers of a bind, and the camera, which moves every turn by what *)
(* it was last told.                                                       *)
(*                                                                         *)
(* Axes are in percent, as GLFW reports them.  GLFW, the window of the     *)
(* developer's console and the page under the pointer are external.        *)
(***************************************************************************)
EXTENDS Integers, Sequences, Functions

CONSTANTS
  Keys, MouseButtons,  \* the sources a player has, by the names scripts use
  UnusedKeys,     \* other names in the engine's tables, of sources this player leaves alone
  gamepadButtons,      \* the buttons of the pad, in the order the loop compares them
  Sticks,         \* the positions the sticks are seen in, functions of Axes
  InitScripts,    \* what main.egg's init() registers before the first turn
  TeamScripts,    \* what teamInit() registers, 100 ms later
  Objects,        \* the script objects made then, which some of these registrations name
  NoObject,       \* for the registrations that name none
  DeltaTimes,     \* how long a turn can take, in quarters of a second
  MinZoomLevel, MaxZoomLevel

Axes == <<"LEFT_AXIS_X", "LEFT_AXIS_Y", "RIGHT_AXIS_X", "RIGHT_AXIS_Y">>

\* axisToBinding: for each axis the button of a positive and of a negative value.
axisToBinding == <<
  <<"left-joystick-d-pad-right",  "left-joystick-d-pad-left">>,
  <<"left-joystick-d-pad-down",   "left-joystick-d-pad-up">>,
  <<"right-joystick-d-pad-right", "right-joystick-d-pad-left">>,
  <<"right-joystick-d-pad-down",  "right-joystick-d-pad-up">> >>
correspondingAxis == <<2, 1, 4, 3>>

INVALID_BUTTON == "invalid"
DPad(i) == {axisToBinding[i][1], axisToBinding[i][2]}
DPads   == UNION {DPad(i) : i \in 1 .. Len(Axes)}
Buttons == Range(gamepadButtons)
Sources == Keys \cup MouseButtons \cup Buttons \cup DPads
axesToEnum == {"left-axis-x", "left-axis-y", "right-axis-x", "right-axis-y",
               "mouse-axis-x", "mouse-axis-y"}

\* The binds Engine::initialize() gives to the camera and the chunk container.
Defaults == {
  <<"=", "camera.zoomIn">>, <<"-", "camera.zoomOut">>,
  <<"w", "camera.up">>, <<"s", "camera.down">>, <<"a", "camera.left">>, <<"d", "camera.right">>,
  <<"left-mouse-button", "chunk.mouseSelectTile">>,
  <<"right-mouse-button", "chunk.mouseRightClickTile">>,
  <<"b-button", "chunk.selectTile">>}

Directions  == {"camera.up", "camera.down", "camera.left", "camera.right"}
CameraBinds == Directions \cup {"camera.zoomIn", "camera.zoomOut"}
CameraKeys  == {"=", "-", "w", "s", "a", "d"}

ASSUME InputAssumption ==
  /\ gamepadButtons \in Seq(STRING)
  /\ \A i, j \in 1 .. Len(gamepadButtons) : gamepadButtons[i] = gamepadButtons[j] => i = j
  /\ UnusedKeys \cap Sources = {}
  /\ Keys \cap MouseButtons = {} /\ (Keys \cup MouseButtons) \cap (Buttons \cup DPads) = {}
  /\ Buttons \cap (DPads \cup CameraKeys) = {}
  /\ Sticks \subseteq [1 .. Len(Axes) -> -100 .. 100]
  /\ DeltaTimes \subseteq Nat \ {0}
  /\ MinZoomLevel \in Nat /\ MaxZoomLevel \in Nat /\ MinZoomLevel <= MaxZoomLevel

Registration == [object : Objects \cup {NoObject}, bind : STRING, key : STRING, callback : STRING]
scripts == InitScripts \o TeamScripts

\* What the scripts of the game keep to, and registering does not see to: none gives a
\* source a bind that it has, a callback to two binds, or a bind of the camera to
\* anything.
ASSUME ScriptAssumption ==
  /\ InitScripts \in Seq(Registration) /\ TeamScripts \in Seq(Registration)
  /\ \A i \in 1 .. Len(scripts) :
       scripts[i].bind \notin CameraBinds /\ <<scripts[i].key, scripts[i].bind>> \notin Defaults
  /\ \A i, j \in 1 .. Len(scripts) :
       /\ scripts[i].key = scripts[j].key /\ scripts[i].bind = scripts[j].bind => i = j
       /\ scripts[i].object = scripts[j].object /\ scripts[i].callback = scripts[j].callback
            => scripts[i].bind = scripts[j].bind

VARIABLES
  phase,      \* of the turn: "poll", "tick"
  binds,      \* keyToKeybind, buttonToMousebind and gamepadToBind: the binds of a source
  callbacks,  \* bindToTSCallback and bindToTSObjectCallback, <<object, function>>
  team,       \* teamInit() has run
  alive,      \* objects whose objectWrapper is not null
  held,       \* keys and mouse buttons the player has down
  focused,    \* a window of the developer's console has the focus
  pointer,    \* what the mouse is over, and whether it is a button it was pressed on
  pad,        \* hasGamepad and gamepad, as the last poll left them
  lastGamepadButtons, axisDPadCounters,
  camera,     \* Camera: its keyMapping and zoom level
  heard,      \* history: what the receivers of each source have been told
  excused     \* history: sources whose last event was kept from the game

inputVars == <<phase, binds, callbacks, team, alive, held, focused, pointer, pad,
          lastGamepadButtons, axisDPadCounters, camera, heard, excused>>

world  == <<held, focused, pointer>>
tables == <<binds, callbacks, team, alive>>
padVars == <<pad, lastGamepadButtons, axisDPadCounters>>

------------------------------------------------------------------------------
(* Registering.                                                            *)

\* A bind that is in the list already is pushed again; the callbacks of a bind are
\* a set, and are called whichever source the bind was given.  An axis tells the camera
\* only, and nobody presses an unused key, so the lists of their binds are left out; what
\* scripts name with one is called for the other sources of the bind.
registerTSKeybind(t, r) ==
  [binds |-> IF r.key \in Sources THEN [t.binds EXCEPT ![r.key] = Append(@, r.bind)] ELSE t.binds,
   callbacks |-> IF r.key \in Sources \cup UnusedKeys \cup axesToEnum
                 THEN t.callbacks \cup {<<r.bind, r.object, r.callback>>} ELSE t.callbacks]

\* One registration after the other.
Registered(t, rs) ==
  LET after[n \in 0 .. Len(rs)] ==
        IF n = 0 THEN t ELSE registerTSKeybind(after[n - 1], rs[n])
  IN after[Len(rs)]

\* No source has two.
DefaultBinds == [s \in Sources |->
  LET given == {d[2] : d \in {e \in Defaults : e[1] = s}}
  IN IF given = {} THEN <<>> ELSE <<CHOOSE b \in given : TRUE>>]

\* The callbacks of a bind, but those of objects that have been deleted.  registerBind()
\* has made the camera a listener to the binds OnBind names, and the chunk container to
\* the others.
Called(bind) == {<<c[2], c[3]>> : c \in {d \in callbacks : d[1] = bind /\ d[2] \in alive \cup {NoObject}}}

------------------------------------------------------------------------------
(* The camera.                                                             *)

setZoomLevel(l) == IF l < MinZoomLevel THEN MinZoomLevel
                   ELSE IF l > MaxZoomLevel THEN MaxZoomLevel ELSE l

\* A press and a release that write the flag of a direction the same way.
OnBind_IgnoresRelease(c, bind, pressed) ==
  IF bind \in Directions THEN [c EXCEPT !.moves = @ \cup {bind}] ELSE c

OnBind(c, bind, pressed) ==
  IF bind = "camera.zoomIn" THEN
    IF pressed
    THEN [c EXCEPT !.zoomLevel = setZoomLevel(@ - 1), !.zoomInRepeating = 1, !.zoomInTimer = 0]
    ELSE [c EXCEPT !.zoomInRepeating = 0]
  ELSE IF bind = "camera.zoomOut" THEN
    IF pressed
    THEN [c EXCEPT !.zoomLevel = setZoomLevel(@ + 1), !.zoomOutRepeating = 1, !.zoomOutTimer = 0]
    ELSE [c EXCEPT !.zoomOutRepeating = 0]
  ELSE IF bind \in Directions THEN
    [c EXCEPT !.moves = IF pressed THEN @ \cup {bind} ELSE @ \ {bind}]
  ELSE c

\* The binds of a source, in the order they were given to it.
OnBinds(c, bs, pressed) ==
  LET after[n \in 0 .. Len(bs)] == IF n = 0 THEN c ELSE OnBind(after[n - 1], bs[n], pressed)
  IN after[Len(bs)]

\* The axes that drive the camera; zoomAxis has a dead zone of its own.
OnAxes(c, x, y, zoom) ==
  [c EXCEPT !.xAxis = x, !.yAxis = y,
            !.zoomAxis = IF zoom > 20 THEN ((zoom - 20) * 100) \div 80
                         ELSE IF zoom < -20 THEN -(((-zoom - 20) * 100) \div 80) ELSE 0]

RepeatDelay == 2    \* 0.5 s
Later(timer, dt) ==   \* only compared with the delay
  IF timer + dt > RepeatDelay THEN RepeatDelay + 1 ELSE timer + dt

\* A zoom level is passed in the time a step of the repeat or the stick takes.
Zoomed(c, dt) ==
  LET l == IF c.zoomInRepeating = 2 THEN setZoomLevel(c.zoomLevel - dt)
           ELSE IF c.zoomOutRepeating = 2 THEN setZoomLevel(c.zoomLevel + dt) ELSE c.zoomLevel
  IN IF c.zoomAxis > 10 THEN setZoomLevel(l - dt)
     ELSE IF c.zoomAxis < -10 THEN setZoomLevel(l + dt) ELSE l

Repeats(repeating, timer) == IF repeating = 1 /\ timer > RepeatDelay THEN 2 ELSE repeating

\* see(), and the speed it adds to the position while nothing pans it.
See(c, dt) ==
  LET in  == Later(c.zoomInTimer, dt)
      out == Later(c.zoomOutTimer, dt)
      z == [c EXCEPT !.zoomInTimer = in, !.zoomInRepeating = Repeats(@, in),
                     !.zoomOutTimer = out, !.zoomOutRepeating = Repeats(@, out)]
  IN [z EXCEPT !.zoomLevel = Zoomed(z, dt)]

Toward(c, plus, minus) == (IF plus \in c.moves THEN 100 ELSE 0) - (IF minus \in c.moves THEN 100 ELSE 0)

Moves(c) ==
  <<Toward(c, "camera.right", "camera.left") + c.xAxis,
    Toward(c, "camera.up", "camera.down") + c.yAxis>>

------------------------------------------------------------------------------
(* Telling the receivers of a source.  The history keeps which sources     *)
(* they have been told are down, those told twice or released unpressed    *)
(* with no excuse, whether one event has called a receiver twice, and the  *)
(* time since the last press of the key that zooms in.                     *)

Announce(st, s, pressed) ==
  LET bs == binds[s]
      h  == st.heard
      twice == \E i, j \in 1 .. Len(bs) :
                 i < j /\ (bs[i] = bs[j] \/ Called(bs[i]) \cap Called(bs[j]) # {})
  IN [st EXCEPT
       !.camera = OnBinds(@, bs, pressed),
       !.heard = [told  |-> IF pressed THEN h.told \cup {s} ELSE h.told \ {s},
                  odd   |-> IF (pressed <=> s \in h.told) /\ s \notin st.excused
                            THEN h.odd \cup {s} ELSE h.odd,
                  twice |-> h.twice \/ twice,
                  since |-> IF pressed /\ "camera.zoomIn" \in Range(bs) THEN 0 ELSE h.since],
       !.excused = @ \ {s}]

St == [camera |-> camera, heard |-> heard, excused |-> excused, counters |-> axisDPadCounters,
       pad |-> pad]

Tells(st) == camera' = st.camera /\ heard' = st.heard /\ excused' = st.excused

\* The receivers are not told of an event of s.
Withheld(st, s) == [st EXCEPT !.excused = @ \cup {s}]
Kept(s) == Tells(Withheld(St, s))

\* glfwGetGamepadState() clears the state it is given when there is no pad.
NoPad == [has |-> FALSE, axes |-> [i \in 1 .. Len(Axes) |-> 0], buttons |-> {}]

InputInit ==
  /\ phase = "poll"
  /\ LET t == Registered([binds |-> DefaultBinds, callbacks |-> {}], InitScripts)
     IN binds = t.binds /\ callbacks = t.callbacks
  /\ team = FALSE /\ alive = {}
  /\ held = {} /\ focused = FALSE
  /\ pointer = [over |-> "page", pressed |-> FALSE]
  /\ pad = NoPad
  /\ lastGamepadButtons = {}
  /\ axisDPadCounters = [i \in 1 .. Len(Axes) |-> INVALID_BUTTON]
  /\ camera = [moves |-> {}, zoomLevel |-> setZoomLevel(3),
               zoomInRepeating |-> 0, zoomOutRepeating |-> 0, zoomInTimer |-> 0, zoomOutTimer |-> 0,
               xAxis |-> 0, yAxis |-> 0, zoomAxis |-> 0]
  /\ heard = [told |-> {}, odd |-> {}, twice |-> FALSE, since |-> 0]
  /\ excused = {}

------------------------------------------------------------------------------
(* glfwPollEvents(), in prerender().                                       *)

\* GLFW reports a press, repeats of it, and a release, also when the window loses
\* the focus.
Moved(s, action) ==
  /\ (action = "press") <=> (s \notin held)
  /\ held' = IF action = "press" THEN held \cup {s}
             ELSE IF action = "release" THEN held \ {s} ELSE held

onKeyPress(k, action) ==
  /\ phase = "poll"
  /\ Moved(k, action)
  /\ IF action = "repeat" THEN Tells(St)
     ELSE IF focused THEN Kept(k) ELSE Tells(Announce(St, k, action = "press"))
  /\ UNCHANGED <<phase, tables, focused, pointer, padVars>>

\* litehtml clicks the element that is let go where it was pressed; the onClick of a
\* "button" returns nothing, which keeps the release from the game.
Clicks(action) == action = "release" /\ pointer = [over |-> "button", pressed |-> TRUE]

onMousePress(b, action) ==
  /\ phase = "poll"
  /\ action # "repeat" /\ Moved(b, action)
  /\ IF Clicks(action) \/ focused THEN Kept(b) ELSE Tells(Announce(St, b, action = "press"))
  /\ pointer' = [pointer EXCEPT !.pressed = action = "press" /\ pointer.over = "button"]
  /\ UNCHANGED <<phase, tables, focused, padVars>>

onMouseMove(e) ==
  /\ phase = "poll"
  /\ e # pointer.over
  /\ pointer' = [over |-> e, pressed |-> FALSE]
  /\ UNCHANGED <<phase, tables, held, focused, padVars, camera, heard, excused>>

Focus ==
  /\ phase = "poll"
  /\ focused' = ~focused
  /\ UNCHANGED <<phase, tables, held, pointer, padVars, camera, heard, excused>>

------------------------------------------------------------------------------
(* The pad, after prerender().                                             *)

Abs(v) == IF v < 0 THEN -v ELSE v

AxisValue(p, i) ==
  LET v == IF Axes[i] \in {"LEFT_AXIS_Y", "RIGHT_AXIS_Y"} THEN -p.axes[i] ELSE p.axes[i]
  IN IF Abs(v) < 7 THEN 0 ELSE v

Tilted(p, i) == Abs(p.axes[i]) > 90 /\ Abs(p.axes[correspondingAxis[i]]) < 30
TiltButton(p, i) == axisToBinding[i][IF p.axes[i] < 0 THEN 2 ELSE 1]
Tilt(p, i) == IF Tilted(p, i) THEN TiltButton(p, i) ELSE INVALID_BUTTON

MoveAxes(st) ==
  [st EXCEPT !.camera = OnAxes(@, AxisValue(st.pad, 1), AxisValue(st.pad, 2), AxisValue(st.pad, 4))]

\* Each axis keeps the button that its stick is tilted to.
Recorded(st, i, b) == [st EXCEPT !.counters[i] = b]

\* A stick that is pushed right over lets the old button go, and only records the new.
SimulateDPad_ForgetsOld(st, i) ==
  LET old == st.counters[i]
      b   == Tilt(st.pad, i)
      told == IF b # INVALID_BUTTON /\ old = INVALID_BUTTON THEN Announce(st, b, TRUE)
              ELSE IF b = INVALID_BUTTON /\ old # b THEN Announce(st, old, FALSE) ELSE st
  IN Recorded(told, i, b)

SimulateDPad(st, i) ==
  LET old == st.counters[i]
      b   == Tilt(st.pad, i)
      released == Announce(st, old, FALSE)
      told == IF b = old THEN st
              ELSE IF old = INVALID_BUTTON THEN Announce(st, b, TRUE)
              ELSE IF b = INVALID_BUTTON THEN released ELSE Withheld(released, b)
  IN Recorded(told, i, b)

\* The buttons that are not as they were.
ButtonEdges(st) ==
  LET after[n \in 0 .. Len(gamepadButtons)] ==
        IF n = 0 THEN st
        ELSE LET b == gamepadButtons[n] IN
             IF b \in st.pad.buttons <=> b \in lastGamepadButtons THEN after[n - 1]
             ELSE Announce(after[n - 1], b, b \in st.pad.buttons)
  IN after[Len(gamepadButtons)]

\* The sticks, one axis after the other, then the buttons.
HandlePad(st) ==
  ButtonEdges(SimulateDPad(SimulateDPad(SimulateDPad(SimulateDPad(MoveAxes(st), 1), 2), 3), 4))

\* The rest of the poll, and the pad as it is then.
ReadPad_KeepsNoButtons(p) ==
  /\ phase = "poll" /\ phase' = "tick"
  /\ pad' = p
  /\ LET st == IF p.has THEN HandlePad([St EXCEPT !.pad = p]) ELSE St
     IN Tells(st) /\ axisDPadCounters' = st.counters
  /\ UNCHANGED <<tables, world, lastGamepadButtons>>

ReadPad(p) ==
  /\ phase = "poll" /\ phase' = "tick"
  /\ pad' = p
  /\ LET st == IF p.has THEN HandlePad([St EXCEPT !.pad = p]) ELSE St
     IN Tells(st) /\ axisDPadCounters' = st.counters
  /\ lastGamepadButtons' = IF p.has THEN p.buttons ELSE lastGamepadButtons
  /\ UNCHANGED <<tables, world>>

Poll ==
  \/ ReadPad(NoPad)
  \/ \E axes \in Sticks, buttons \in SUBSET Buttons :
       ReadPad([has |-> TRUE, axes |-> axes, buttons |-> buttons])

\* prerender() returns before it polls when the swapchain is out of date; what the
\* pad was is handled again.
RefusedPoll == ReadPad(pad)

------------------------------------------------------------------------------
(* esTick(), where scripts run, and Camera::see().                         *)

\* The schedule that has run is not taken off the list.
teamInit_Again ==
  /\ phase = "tick"
  /\ team' = TRUE
  /\ LET t == Registered([binds |-> binds, callbacks |-> callbacks], TeamScripts)
     IN binds' = t.binds /\ callbacks' = t.callbacks
  /\ alive' = Objects
  /\ UNCHANGED <<phase, world, padVars, camera, heard, excused>>

teamInit ==
  /\ phase = "tick" /\ ~team
  /\ team' = TRUE
  /\ LET t == Registered([binds |-> binds, callbacks |-> callbacks], TeamScripts)
     IN binds' = t.binds /\ callbacks' = t.callbacks
  /\ alive' = Objects
  /\ UNCHANGED <<phase, world, padVars, camera, heard, excused>>

\* Scripts run in the tick, and in the poll too, where a click or a bind calls them.
deleteObject(o) ==
  /\ o \in alive
  /\ alive' = alive \ {o}
  /\ UNCHANGED <<phase, binds, callbacks, team, world, padVars, camera, heard, excused>>

\* A turn that took over a second moves nothing.
see(deltaTime) ==
  LET dt == IF deltaTime > 4 THEN 0 ELSE deltaTime
  IN /\ phase = "tick" /\ phase' = "poll"
     /\ camera' = See(camera, dt)
     /\ heard' = [heard EXCEPT !.since = Later(@, dt)]
     /\ UNCHANGED <<tables, world, padVars, excused>>

InputNext ==
  \/ \E k \in Keys, action \in {"press", "repeat", "release"} : onKeyPress(k, action)
  \/ \E b \in MouseButtons, action \in {"press", "release"} : onMousePress(b, action)
  \/ \E e \in {"page", "button"} : onMouseMove(e)
  \/ Focus \/ Poll \/ RefusedPoll
  \/ teamInit \/ \E o \in Objects : deleteObject(o)
  \/ \E dt \in DeltaTimes : see(dt)

\* The loop always comes to its next phase, which nothing blocks; the player need do
\* nothing.
NextPhase == [poll |-> "tick", tick |-> "poll"]
InputFairness == WF_phase(phase' = NextPhase[phase])

InputSpec == InputInit /\ [][InputNext]_inputVars /\ InputFairness

------------------------------------------------------------------------------
(* What a key of the keyboard is bound to, and what the player does to it. *)

BoundTo(bind) == {s \in Sources : bind \in Range(binds[s])}
Excused(bind) == BoundTo(bind) \cap excused # {}

\* The camera does what the player is doing: a direction is on exactly while its key
\* is down, zooming in repeats only for a key held longer than the delay since it was
\* pressed, and the axes are those of the stick.  What the console kept from the game,
\* and a pad that is gone, are the only excuses.
CameraTruthful ==
  phase = "tick" =>
    /\ \A d \in Directions :
         ~Excused(d) => (d \in camera.moves <=> BoundTo(d) \cap held # {})
    /\ ~Excused("camera.zoomIn") =>
         (camera.zoomInRepeating # 0 <=> BoundTo("camera.zoomIn") \cap held # {})
    /\ camera.zoomInRepeating = 2 => heard.since > RepeatDelay
    /\ pad.has => camera.xAxis = AxisValue(pad, 1) /\ camera.yAxis = AxisValue(pad, 2)

\* No receiver is told of a press twice or of a release without a press, whatever the
\* order of polls, unplugged pads and sticks, but after an event that was kept back:
\* by the console, by a click, or by a stick pushed from one side right to the other.
EventsAlternate == heard.odd = {}

\* A button that has been announced is still pressed: a key or a mouse button the game
\* was not kept from, a button of the pad that is there, and a simulated one only while
\* its stick is tilted that way, so that none stays pressed when a stick is let go.
ToldIsHeld ==
  phase = "tick" =>
    /\ \A s \in (Keys \cup MouseButtons) \ excused : s \in heard.told <=> s \in held
    /\ pad.has =>
         /\ heard.told \cap Buttons = pad.buttons
         /\ \A i \in 1 .. Len(Axes) : \A s \in DPad(i) \cap heard.told :
              s = Tilt(pad, i)

\* One event calls a callback once, although a source has several binds, a bind has
\* several callbacks, and scripts register theirs when the game runs; for scripts that
\* give a bind to a source once, which registering does not see to.
OncePerEvent == ~heard.twice

LetGo ==
  /\ (held \cup excused) \cap Keys = {}
  /\ pad.has /\ \A i \in 1 .. Len(Axes) : AxisValue(pad, i) = 0

Still == Moves(camera) = <<0, 0>> /\ See(camera, 1).zoomLevel = camera.zoomLevel

\* A camera everybody has let go of comes to rest, in position and zoom.
StopsWhenLetGo == <>[]LetGo => <>[](phase = "tick" => Still)
==============================================================================
