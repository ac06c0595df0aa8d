------------------------------- MODULE Battle -------------------------------
(***************************************************************************)
(* The game: two teams of units on tiles, action points, abilities,        *)
(* overwatch, and the two selections (a character of one's own, a target)  *)
(* that the scripts and the container share.  Every input of the player is *)
(* one call from the engine's loop, and runs to its end.                   *)
(*                                                                         *)
(* Geometry is given: how many steps one tile is from another (TileSet),   *)
(* from where a unit is in full cover, and where a grenade can be thrown   *)
(* (Raycast, QuadraticRaycast).  A roll may hit or miss.  The path a unit  *)
(* was last asked for is kept, or that there was none, even when its       *)
(* points come back: the move that this refuses changes nothing, and is a  *)
(* stuttering step here.  The interpreter of the scripts is external: a    *)
(* reference to what was deleted is null, and what is called on null does  *)
(* nothing.                                                                *)
(***************************************************************************)
EXTENDS Integers, Sequences, SequencesExt

CONSTANTS
  Players, Aliens,   \* the units of each team, in the order of the team
  Tiles,
  Start,             \* the tile of each unit
  Steps,             \* Steps[<<p, q>>]: the length of a shortest path
  FullCover,         \* the <<p, q>> such that a unit on p is in full cover from q
  InThrow,           \* the <<p, q>> such that a grenade can be thrown from p to q
  BlastOf,           \* BlastOf[p]: p and the eight tiles around it
  MaxMoves, MaxSprint, MaxHealth,               \* 5, 15 and 7 in the scripts
  ShotDamage, GrenadeDamage, OverwatchDamage    \* 5, 3 and 2

Units == ToSet(Players) \cup ToSet(Aliens)

NoUnit == "no unit"
NoTile == "no tile"

SNAPSHOT  == "Snapshot"
TRAINED   == "Trained Shot"
OVERWATCH == "Overwatch"
GRENADE   == "Grenade"
Abilities == {SNAPSHOT, TRAINED, OVERWATCH, GRENADE}
NoAbility == "no ability"
Nothing   == [owner |-> NoUnit, name |-> NoAbility]

ASSUME BattleAssumption ==
  /\ Players \in Seq(Units) /\ Aliens \in Seq(Units)
  /\ NoUnit \notin Units /\ NoTile \notin Tiles
  /\ ToSet(Players) \cap ToSet(Aliens) = {}
  /\ Start \in [Units -> Tiles]
  /\ \A u, v \in Units : u # v => Start[u] # Start[v]
  /\ Steps \in [Tiles \X Tiles -> Nat]
  /\ \A p, q \in Tiles : Steps[<<p, q>>] = 0 <=> p = q
  /\ BlastOf \in [Tiles -> SUBSET Tiles]
  /\ MaxMoves \in Nat /\ MaxSprint \in Nat /\ MaxMoves <= MaxSprint
  /\ MaxHealth \in Nat \ {0}
  /\ {ShotDamage, GrenadeDamage, OverwatchDamage} \subseteq Nat \ {0}

VARIABLES
  game,         \* the units, the map of positions and the selections: see Init
  playerTeam    \* whose turn it is: "Player" or "Alien"

vars == <<game, playerTeam>>

Init ==
  /\ game =
       [unit |-> [u \in Units |->
          [alive |-> TRUE, tile |-> Start[u], health |-> MaxHealth, ap |-> 2,
           overwatch |-> FALSE,
           grenade |-> TRUE,    \* its abilities still have the grenade
           walked |-> 0,        \* history: steps since the points were restored
           met |-> FALSE]],     \* history: another unit has stood on its tile
        positionToCharacter |->
          [p \in Tiles |-> IF \E u \in Units : Start[u] = p
                           THEN CHOOSE u \in Units : Start[u] = p ELSE NoUnit],
        selected |-> NoUnit,    \* selectedCharacter
        target |-> NoUnit,      \* $Unit::SelectedTarget
        chosen |-> Nothing,     \* $Unit::SelectedAbility
        ability |-> NoAbility,  \* selectedAbility of the selected character
        button |-> FALSE,       \* the button that uses it can be pressed
        aim |-> NoTile]         \* where the chosen grenade is to be thrown
  /\ playerTeam = "Player"

teamOf(u) == IF u \in ToSet(Players) THEN "Player" ELSE "Alien"

-----------------------------------------------------------------------------
(* What the handlers are made of: each takes a game and returns the next.  *)

moves(ap) == IF ap = 2 THEN MaxMoves ELSE 0

\* Mutant: a unit without points still has the sprint that one point leaves.
sprintMoves_Kept(ap) == IF ap = 2 THEN MaxSprint ELSE MaxSprint - MaxMoves

\* setAP(), of the moves and sprintMoves that go with the points.
sprintMoves(ap) ==
  CASE ap = 2 -> MaxSprint
    [] ap = 1 -> MaxSprint - MaxMoves
    [] ap = 0 -> 0

has(g, u, a) == a \in Abilities /\ (a = GRENADE => g.unit[u].grenade)

cost(g, u, a) ==
  CASE a = SNAPSHOT             -> 1
    [] a \in {TRAINED, GRENADE} -> 2
    [] a = OVERWATCH            -> IF g.unit[u].ap = 0 THEN 1 ELSE g.unit[u].ap

exposed(g, u, v) == <<g.unit[v].tile, g.unit[u].tile>> \notin FullCover

usable(g, u, a) ==
  /\ g.unit[u].ap >= cost(g, u, a)
  /\ a \in {SNAPSHOT, TRAINED} => g.target # NoUnit /\ exposed(g, u, g.target)

selectAbility(g, u, a) ==
  [g EXCEPT !.ability = a,
            !.button  = usable(g, u, a),
            !.chosen  = [owner |-> u, name |-> a],
            !.aim     = IF /\ a = GRENADE /\ g.chosen.name = GRENADE
                           /\ g.unit[u].ap >= cost(g, u, a)
                        THEN @ ELSE NoTile]

\* updateUI(), of the selected character: its destinations are computed anew, and its
\* ability is the one that was chosen last, by whatever unit, if it has it.
Refreshed(g) ==
  IF g.selected = NoUnit THEN g
  ELSE IF has(g, g.selected, g.chosen.name)
       THEN selectAbility(g, g.selected, g.chosen.name)
       ELSE [g EXCEPT !.ability = NoAbility, !.button = FALSE]

\* Mutant: the interface is left as it is.
addAP_Silent(g, u, n) ==
  [g EXCEPT !.unit[u].ap = IF @ >= n THEN @ - n ELSE 0]

\* addAP(-n).
addAP(g, u, n) ==
  LET h == [g EXCEPT !.unit[u].ap = IF @ >= n THEN @ - n ELSE 0] IN
  IF g.selected = u THEN Refreshed(h) ELSE h

\* What is left of a unit that is deleted.
Dead == [alive |-> FALSE, tile |-> NoTile, health |-> 0, ap |-> 0, overwatch |-> FALSE,
         grenade |-> FALSE, walked |-> 0, met |-> FALSE]

\* The container's selection, of which only a living character has an ability to show.
NowSelected(g, u) ==
  [g EXCEPT !.selected = u, !.ability = NoAbility, !.button = FALSE]

\* addHealth(-n) of each.
Wounded(g, who, n) ==
  [u \in Units |-> IF u \notin who THEN g.unit[u]
                   ELSE IF g.unit[u].health <= n THEN Dead
                   ELSE [g.unit[u] EXCEPT !.health = @ - n]]

\* Mutant: a unit that dies stays in the map.
Hurt_StaysInMap(g, who, n) ==
  LET dead == {u \in who : g.unit[u].health <= n} IN
  [(IF g.selected \in dead THEN NowSelected(g, NoUnit) ELSE g) EXCEPT
     !.unit = Wounded(g, who, n)]

\* Mutant: the container goes on with the dead character.
Hurt_StaysSelected(g, who, n) ==
  LET dead == {u \in who : g.unit[u].health <= n} IN
  [g EXCEPT
     !.unit = Wounded(g, who, n),
     !.positionToCharacter = [p \in Tiles |->
        IF \E u \in dead : g.unit[u].tile = p THEN NoUnit ELSE @[p]]]

\* addHealth(-n) of each, and kill(): the destructors take the unit out of its team, out
\* of the selection, and whoever is at its position out of the map.
Hurt(g, who, n) ==
  LET dead == {u \in who : g.unit[u].health <= n} IN
  [(IF g.selected \in dead THEN NowSelected(g, NoUnit) ELSE g) EXCEPT
     !.unit = Wounded(g, who, n),
     !.positionToCharacter = [p \in Tiles |->
        IF \E u \in dead : g.unit[u].tile = p THEN NoUnit ELSE @[p]]]

\* updateCharacterPosition() and setPosition().
Placed(g, u, p) ==
  LET others == {v \in Units \ {u} : g.unit[v].alive /\ g.unit[v].tile = p} IN
  [g EXCEPT
     !.unit = [v \in Units |->
        IF v = u THEN [g.unit[v] EXCEPT !.tile = p, !.met = @ \/ others # {},
                                        !.walked = @ + Steps[<<g.unit[u].tile, p>>]]
        ELSE IF v \in others THEN [g.unit[v] EXCEPT !.met = TRUE] ELSE g.unit[v]],
     !.positionToCharacter = [@ EXCEPT ![g.unit[u].tile] = NoUnit, ![p] = u]]

\* Mutant: a unit fires at its own team.
Fired_Friends(g, v, u, hits) ==
  IF \/ ~g.unit[v].alive \/ ~g.unit[v].overwatch \/ v = u
     \/ g.unit[u].alive /\ ~exposed(g, v, u)
  THEN g
  ELSE LET h == [g EXCEPT !.unit[v].overwatch = FALSE] IN
       IF v \in hits /\ g.unit[u].alive THEN Hurt(h, {u}, OverwatchDamage) ELSE h

\* What v, when its turn comes, does about u, which has moved.  A unit that is dead has no
\* team, so those of its own team that come later fire as well, at nothing.
Fired(g, v, u, hits) ==
  IF \/ ~g.unit[v].alive \/ ~g.unit[v].overwatch
     \/ g.unit[u].alive /\ (teamOf(v) = teamOf(u) \/ ~exposed(g, v, u))
  THEN g
  ELSE LET h == [g EXCEPT !.unit[v].overwatch = FALSE] IN
       IF v \in hits /\ g.unit[u].alive THEN Hurt(h, {u}, OverwatchDamage) ELSE h

\* fireOverwatch(), over the teams and their units.
Overwatched(g, u, hits) ==
  LET order == Players \o Aliens
      after[n \in 0 .. Len(order)] ==
        IF n = 0 THEN g ELSE Fired(after[n - 1], order[n], u, hits)
  IN after[Len(order)]

\* Unit::move of the selected character u, which the script's setPosition() ends.
Moved(g, u, p, hits) ==
  LET n == Steps[<<g.unit[u].tile, p>>]
      ap == g.unit[u].ap
      arrive(h) == Overwatched(Refreshed(Placed(h, u, p)), u, hits)
  IN IF n <= moves(ap) THEN arrive(addAP(g, u, 1))
     ELSE IF n <= sprintMoves(ap) THEN arrive(addAP(g, u, 2))
     ELSE g

\* selectCharacter(), onDeSelect() and onSelect().
Selected(g, u) ==
  LET h == NowSelected(g, u) IN
      IF u = NoUnit THEN h
     ELSE Refreshed(IF h.chosen = Nothing THEN selectAbility(h, u, SNAPSHOT) ELSE h)

selectTarget(g, u) == Refreshed([g EXCEPT !.target = u])

\* onSelectTile() of the chosen ability, which only a grenade has.  It asks for the
\* points and the position of its owner, which need not be the selected character.
Aimed(g, p) ==
  LET owner == g.chosen.owner IN
  IF /\ g.selected # NoUnit
     /\ g.chosen.name = GRENADE
     /\ g.unit[owner].alive
     /\ g.unit[owner].ap >= cost(g, owner, GRENADE)
     /\ <<g.unit[owner].tile, p>> \in InThrow
  THEN [g EXCEPT !.aim = p] ELSE g

\* use() of the abilities of the selected character u.  A shot is paid for, then rolled.
Shot(g, u, hit) ==
  LET paid == addAP(g, u, cost(g, u, g.ability)) IN
  IF hit /\ g.target # NoUnit THEN Hurt(paid, {g.target}, ShotDamage) ELSE paid

Watching(g, u) ==
  [addAP(g, u, cost(g, u, OVERWATCH)) EXCEPT !.unit[u].overwatch = TRUE]

\* A grenade explodes, is paid for, if the thrower has survived it, and is gone.
Thrown(g, u) ==
  LET struck == {g.positionToCharacter[p] : p \in BlastOf[g.aim]} \cap Units
      blown  == Hurt(g, struck, GrenadeDamage)
      paid   == IF blown.unit[u].alive THEN addAP(blown, u, cost(blown, u, GRENADE)) ELSE blown
  IN Refreshed([paid EXCEPT !.unit[u].grenade = FALSE, !.chosen = Nothing, !.aim = NoTile])

Used(g, hit) ==
  CASE g.ability \in {SNAPSHOT, TRAINED}            -> Shot(g, g.selected, hit)
    [] g.ability = OVERWATCH                       -> Watching(g, g.selected)
    [] g.ability = GRENADE /\ g.aim # NoTile       -> Thrown(g, g.selected)
    [] g.ability = GRENADE /\ g.aim = NoTile       -> g

\* What follows use(), for the button and for the gamepad.
AfterUse(g) ==
  IF g.target = NoUnit \/ ~g.unit[g.target].alive THEN selectTarget(g, NoUnit) ELSE g

-----------------------------------------------------------------------------
(* The inputs. *)

\* onSelectTile(), not browsing.
ClickTile(p) ==
  /\ LET u == game.positionToCharacter[p] IN
     game' = IF u = NoUnit THEN Aimed(game, p)
             ELSE IF teamOf(u) = playerTeam THEN Selected(game, u)
             ELSE Aimed(selectTarget(game, u), p)
  /\ UNCHANGED playerTeam

\* onRightClickTile().
RightClickTile(p, hits) ==
  /\ game.selected # NoUnit
  /\ game' = Moved(game, game.selected, p, hits)
  /\ UNCHANGED playerTeam

\* onGamepadPressTile().
GamepadPressTile(p, hits) ==
  /\ game.selected # NoUnit
  /\ game.positionToCharacter[p] = NoUnit
  /\ game' = IF game.chosen.name = GRENADE THEN Aimed(game, p)
             ELSE Moved(game, game.selected, p, hits)
  /\ UNCHANGED playerTeam

\* AbilityUseButtonElement::onClick.
UseByButton(hit) ==
  /\ game.button
  /\ game.selected # NoUnit /\ game.ability # NoAbility
  /\ game' = AfterUse(Used(game, hit))
  /\ UNCHANGED playerTeam

\* onGamepadUseAbility().
UseByGamepad(hit) ==
  /\ game.selected # NoUnit /\ game.ability # NoAbility
  /\ usable(game, game.selected, game.ability)
  /\ game' = AfterUse(Used(game, hit))
  /\ UNCHANGED playerTeam

\* AbilityElement::onClick, selectNextAbility() and selectPreviousAbility().
ChooseAbility(a) ==
  /\ game.selected # NoUnit /\ has(game, game.selected, a)
  /\ game' = selectAbility(game, game.selected, a)
  /\ UNCHANGED playerTeam

\* The icons and the index of a team are those of the last refresh: the number of one
\* may be past the end of a team that has lost a unit, or is the smaller one.
PastEnd ==
  \/ Len(Players) # Len(Aliens)
  \/ \E u \in Units : ~game.unit[u].alive

\* SoldierElement::onClick, selectNextCharacter() and selectPreviousCharacter().
SelectCharacter(u) ==
  /\ IF u = NoUnit THEN PastEnd ELSE game.unit[u].alive /\ teamOf(u) = playerTeam
  /\ game' = Selected(game, u)
  /\ UNCHANGED playerTeam

\* EnemyIconElement::onClick.
TargetEnemy(u) ==
  /\ IF u = NoUnit THEN PastEnd ELSE game.unit[u].alive /\ teamOf(u) # playerTeam
  /\ game' = selectTarget(game, u)
  /\ UNCHANGED playerTeam

Restored(g, who) ==
  LET h == [g EXCEPT !.unit = [u \in Units |->
              IF u \in who /\ @[u].alive THEN [@[u] EXCEPT !.ap = 2, !.walked = 0] ELSE @[u]]]
  IN IF g.selected \in who THEN Refreshed(h) ELSE h

\* endTurn().
EndTurn ==
  /\ game' = Restored(game, Units)
  /\ UNCHANGED playerTeam

\* resetUnitAP().
ResetUnitAP ==
  /\ game.selected # NoUnit
  /\ game' = Restored(game, {game.selected})
  /\ UNCHANGED playerTeam

\* SwitchTeamElement::onClick, and the onStartTurn() of the overwatch of each unit.
SwitchTeam ==
  /\ playerTeam' = IF playerTeam = "Player" THEN "Alien" ELSE "Player"
  /\ LET g == selectTarget(Selected(game, NoUnit), NoUnit) IN
     game' = [g EXCEPT !.unit = [u \in Units |->
                [g.unit[u] EXCEPT !.overwatch = @ /\ ~(game.unit[u].alive /\ teamOf(u) = playerTeam')]]]

OnOverwatch == {u \in Units : game.unit[u].overwatch}

Next ==
  \/ \E p \in Tiles : ClickTile(p)
  \/ \E p \in Tiles, hits \in SUBSET OnOverwatch : RightClickTile(p, hits)
  \/ \E p \in Tiles, hits \in SUBSET OnOverwatch : GamepadPressTile(p, hits)
  \/ \E hit \in BOOLEAN : UseByButton(hit)
  \/ \E hit \in BOOLEAN : UseByGamepad(hit)
  \/ \E a \in Abilities : ChooseAbility(a)
  \/ \E u \in Units \cup {NoUnit} : SelectCharacter(u)
  \/ \E u \in Units \cup {NoUnit} : TargetEnemy(u)
  \/ EndTurn
  \/ ResetUnitAP
  \/ SwitchTeam

Spec == Init /\ [][Next]_vars

-----------------------------------------------------------------------------
(* Properties. *)

UnitRecord ==
  [alive : BOOLEAN, tile : Tiles, health : 0 .. MaxHealth, ap : 0 .. 2,
   overwatch : BOOLEAN, grenade : BOOLEAN,
   walked : Nat, met : BOOLEAN]

\* Every part of the game is of its kind, and a unit is alive exactly if it has health.
TypeOK ==
  /\ game.unit \in [Units -> UnitRecord \cup {Dead}]
  /\ \A u \in Units : game.unit[u].alive <=> game.unit[u].health > 0
  /\ game.positionToCharacter \in [Tiles -> Units \cup {NoUnit}]
  /\ game.ability \in Abilities \cup {NoAbility}
  /\ game.button \in BOOLEAN
  /\ game.aim \in Tiles \cup {NoTile}
  /\ playerTeam \in {"Player", "Alien"}

\* The map of positions holds no character that is dead, which it would be a pointer
\* to freed memory, or elsewhere; and every living one is in it, unless it has once
\* shared its tile with another: the second to come takes the entry, and whoever
\* leaves or dies first removes it.
MapAgrees ==
  /\ \A p \in Tiles : LET u == game.positionToCharacter[p] IN
       u # NoUnit => game.unit[u].alive /\ game.unit[u].tile = p
  /\ \A u \in Units : game.unit[u].alive /\ ~game.unit[u].met =>
       game.positionToCharacter[game.unit[u].tile] = u

\* The units, the map that finds them and the interface's references stay of their
\* kind, and the map and the units agree.
MapConsistent == TypeOK /\ MapAgrees

\* The selected character is alive and of the team whose turn it is, the target alive
\* and of the other, through deaths by shots, grenades (one's own too) and overwatch.
SelectionsValid ==
  /\ game.selected # NoUnit =>
       game.unit[game.selected].alive /\ teamOf(game.selected) = playerTeam
  /\ game.target # NoUnit =>
       game.unit[game.target].alive /\ teamOf(game.target) # playerTeam

\* AbilityUseButtonElement uses the ability without asking whether it is usable: it
\* relies on the button being refreshed by everything that could change that.
ButtonTruthful ==
  game.button /\ game.selected # NoUnit =>
    game.ability # NoAbility /\ usable(game, game.selected, game.ability)

\* Whatever moves and sprints a unit spends its points on, it goes no further than one
\* sprint until they are restored.
WalkedWithinSprint == \A u \in Units : game.unit[u].walked <= MaxSprint

\* Overwatch is lost at the start of the unit's turn, or to an enemy that moves, or,
\* for units of the second team, when one of its own has died moving.
OverwatchLostTo ==
  [][\A u \in Units :
       game.unit[u].overwatch /\ game'.unit[u].alive /\ ~game'.unit[u].overwatch =>
         \/ playerTeam' # playerTeam /\ teamOf(u) = playerTeam'
         \/ teamOf(u) # playerTeam
         \/ teamOf(u) = "Alien" /\ game.selected # NoUnit /\ ~game'.unit[game.selected].alive]_vars
=============================================================================
