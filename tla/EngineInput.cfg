SPECIFICATION InputSpec
CONSTANTS
  object = object
  NoObject = NoObject
  Objects = {object}
  Keys = {"w", "="}
  UnusedKeys = {"q", "]"}
  MouseButtons = {"left-mouse-button"}
  gamepadButtons <- MCButtons
  Sticks <- MCSticks
  InitScripts <- MCInitScripts
  TeamScripts <- MCTeamScripts
  DeltaTimes = {3, 5}
  MinZoomLevel = 2
  MaxZoomLevel = 3
INVARIANTS CameraTruthful EventsAlternate ToldIsHeld OncePerEvent
PROPERTY StopsWhenLetGo
