---------------------------- MODULE MCEngineInput ----------------------------
(* Three positions of the sticks; what main.egg and team.egg register for  *)
(* the sources of the instance, and one registration for an object, which  *)
(* the engine offers and those two do not use.                             *)
EXTENDS EngineInput

CONSTANT object

MCButtons == <<"right-button">>

MCSticks == {<<0, 5, 0, 0>>, <<100, 0, 100, 0>>, <<-100, 0, 0, 100>>}

Script(o, bind, key, callback) == [object |-> o, bind |-> bind, key |-> key, callback |-> callback]

MCInitScripts ==
  <<Script(NoObject, "chunk.rotateClockwise", "q", "onRotateClockwise"),
    Script(NoObject, "chunk.rotateClockwise", "right-joystick-d-pad-left", "onRotateClockwise"),
    Script(NoObject, "chunk.rotateCounterClockwise", "right-joystick-d-pad-right", "onRotateCounterClockwise"),
    Script(NoObject, "editor.mouseDown", "left-mouse-button", "onEditorMouseDown")>>

MCTeamScripts ==
  <<Script(NoObject, "team.selectNextCharacter", "]", "selectNextCharacter"),
    Script(NoObject, "team.selectNextCharacter", "right-button", "selectNextCharacter"),
    Script(object, "team.selectPreviousCharacter", "left-mouse-button", "selectPreviousCharacter")>>
==============================================================================
