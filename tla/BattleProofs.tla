---------------------------- MODULE BattleProofs ----------------------------
(***************************************************************************)
(* Proofs about the game of module Battle: the map of positions and the    *)
(* units agree, the two selections are alive and of the right team, the    *)
(* button that uses an ability tells the truth, no unit walks further than *)
(* its points let it, and overwatch is lost to its causes only.            *)
(***************************************************************************)
EXTENDS Battle, WellFoundedInduction, TLAPS

(***************************************************************************)
(* The inductive invariant.  The invariants of Battle are about the state; *)
(* here they are about a game, since a step is made of helpers that take   *)
(* one and return the next.                                                *)
(***************************************************************************)

\* Every part of a game is of its kind.
GameRec ==
  [unit : [Units -> UnitRecord \cup {Dead}],
   positionToCharacter : [Tiles -> Units \cup {NoUnit}],
   selected : Units \cup {NoUnit},
   target : Units \cup {NoUnit},
   chosen : [owner : Units \cup {NoUnit}, name : Abilities \cup {NoAbility}],
   ability : Abilities \cup {NoAbility},
   button : BOOLEAN,
   aim : Tiles \cup {NoTile}]

\* How far a unit with these points may have walked since they were restored.
WalkOK(ap, walked) ==
  /\ walked <= MaxSprint
  /\ ap = 2 => walked = 0
  /\ ap = 1 => walked <= MaxMoves

\* A unit is as it was deleted, or alive, on a tile, and within its walk.
UnitOK(r) ==
  IF r.alive THEN r \in UnitRecord /\ r.health > 0 /\ WalkOK(r.ap, r.walked)
  ELSE r = Dead

\* The map and the units agree: MapAgrees of Battle, and what keeps it true when a unit
\* leaves a tile that another stands on: both have met.
BoardOK(unit, map) ==
  /\ \A u \in Units : UnitOK(unit[u])
  /\ \A p \in Tiles : map[p] # NoUnit => unit[map[p]].alive /\ unit[map[p]].tile = p
  /\ \A u \in Units : unit[u].alive /\ ~unit[u].met => map[unit[u].tile] = u
  /\ \A u, v \in Units :
       u # v /\ unit[u].alive /\ unit[v].alive /\ unit[u].tile = unit[v].tile => unit[u].met

GameOK(g) == g \in GameRec /\ BoardOK(g.unit, g.positionToCharacter)

SelectedOK(g, team) ==
  g.selected # NoUnit => g.unit[g.selected].alive /\ teamOf(g.selected) = team

TargetOK(g, team) ==
  g.target # NoUnit => g.unit[g.target].alive /\ teamOf(g.target) # team

Truthful(g) ==
  g.button /\ g.selected # NoUnit =>
    g.ability # NoAbility /\ usable(g, g.selected, g.ability)

AllOK(g, team) ==
  GameOK(g) /\ SelectedOK(g, team) /\ TargetOK(g, team) /\ Truthful(g)

IInv == playerTeam \in {"Player", "Alien"} /\ AllOK(game, playerTeam)

-----------------------------------------------------------------------------
(* Games and units. *)

\* The names are apart from what they name, and every unit has a team.
LEMMA Names ==
  /\ NoUnit \notin Units /\ NoTile \notin Tiles /\ NoAbility \notin Abilities
  /\ \A u \in Units : teamOf(u) \in {"Player", "Alien"}
  /\ Start \in [Units -> Tiles]
  /\ MaxMoves \in Nat /\ MaxSprint \in Nat /\ MaxMoves <= MaxSprint
  /\ MaxHealth \in Nat /\ MaxHealth > 0
  /\ ShotDamage \in Nat \ {0} /\ GrenadeDamage \in Nat \ {0} /\ OverwatchDamage \in Nat \ {0}
BY BattleAssumption DEF teamOf, NoAbility, Abilities, SNAPSHOT, TRAINED, OVERWATCH, GRENADE

\* What is known of the parts of a game, one by one.
LEMMA Parts ==
  ASSUME NEW g \in GameRec
  PROVE  /\ g.unit \in [Units -> UnitRecord \cup {Dead}]
         /\ g.positionToCharacter \in [Tiles -> Units \cup {NoUnit}]
         /\ g.selected \in Units \cup {NoUnit} /\ g.target \in Units \cup {NoUnit}
         /\ g.chosen.owner \in Units \cup {NoUnit} /\ g.chosen.name \in Abilities \cup {NoAbility}
         /\ g.ability \in Abilities \cup {NoAbility}
         /\ g.button \in BOOLEAN
         /\ g.aim \in Tiles \cup {NoTile}
BY DEF GameRec

\* What is known of a unit that is alive.
LEMMA Living ==
  ASSUME NEW r, UnitOK(r), r.alive
  PROVE  /\ r \in UnitRecord /\ r.tile \in Tiles /\ r.health \in Nat /\ r.health > 0
         /\ r.health <= MaxHealth
         /\ r.ap \in 0 .. 2 /\ r.walked \in Nat /\ WalkOK(r.ap, r.walked)
         /\ r.alive \in BOOLEAN /\ r.overwatch \in BOOLEAN /\ r.grenade \in BOOLEAN
         /\ r.met \in BOOLEAN
<1>1. r \in UnitRecord /\ r.health > 0 /\ WalkOK(r.ap, r.walked)
  BY DEF UnitOK
<1>2. QED
  BY <1>1, Names DEF UnitRecord

\* What is known of one that is not.
LEMMA Dying ==
  /\ ~Dead.alive /\ Dead.tile = NoTile /\ ~Dead.overwatch /\ ~Dead.grenade /\ Dead.ap = 0
  /\ Dead.walked = 0 /\ Dead.health = 0 /\ UnitOK(Dead)
  /\ \A r : UnitOK(r) /\ ~r.alive => r = Dead
BY DEF Dead, UnitOK

-----------------------------------------------------------------------------
(* The interface: helpers that leave the units and the map alone. *)

\* h is g but for what the interface shows of the selected character.
Shown(g, h) ==
  /\ h \in GameRec
  /\ h.unit = g.unit /\ h.positionToCharacter = g.positionToCharacter
  /\ h.selected = g.selected /\ h.target = g.target

\* An ability costs one point or two.
LEMMA Costs ==
  ASSUME NEW g \in GameRec, NEW u \in Units, NEW a \in Abilities, UnitOK(g.unit[u])
  PROVE  cost(g, u, a) \in {1, 2} /\ g.unit[u].ap \in 0 .. 2
<1>1. g.unit[u].ap \in 0 .. 2
  BY Living, Dying DEF UnitOK
<1>2. a = SNAPSHOT => cost(g, u, a) = 1
  BY Zenon DEF cost, SNAPSHOT, TRAINED, OVERWATCH, GRENADE
<1>3. a \in {TRAINED, GRENADE} => cost(g, u, a) = 2
  BY Zenon DEF cost, SNAPSHOT, TRAINED, OVERWATCH, GRENADE
<1>4. a = OVERWATCH => cost(g, u, a) = IF g.unit[u].ap = 0 THEN 1 ELSE g.unit[u].ap
  BY Zenon DEF cost, SNAPSHOT, TRAINED, OVERWATCH, GRENADE
<1>5. a \in {SNAPSHOT, TRAINED, OVERWATCH, GRENADE}
  BY DEF Abilities
<1>6. QED
  BY <1>1, <1>2, <1>3, <1>4, <1>5

\* Whether an ability is usable depends on the points of the unit and on where it and the
\* target are.
LEMMA UsableOf ==
  ASSUME NEW g, NEW h, NEW u, NEW a, g.target = h.target,
         g.unit[u].ap = h.unit[u].ap, g.unit[u].tile = h.unit[u].tile,
         g.target # NoUnit => g.unit[g.target].tile = h.unit[g.target].tile
  PROVE  usable(g, u, a) = usable(h, u, a)
<1>1. cost(g, u, a) = cost(h, u, a)
  BY Zenon DEF cost
<1>2. g.target # NoUnit => exposed(g, u, g.target) = exposed(h, u, h.target)
  BY DEF exposed
<1>3. QED
  BY <1>1, <1>2 DEF usable

\* Choosing an ability shows it, and whether it is usable.
LEMMA Selecting ==
  ASSUME NEW g \in GameRec, NEW u \in Units, NEW a \in Abilities
  PROVE  LET h == selectAbility(g, u, a) IN
         Shown(g, h) /\ h.ability = a /\ h.button = usable(g, u, a)
<1> DEFINE h == selectAbility(g, u, a)
           aim == IF /\ a = GRENADE /\ g.chosen.name = GRENADE
                     /\ g.unit[u].ap >= cost(g, u, a)
                  THEN g.aim ELSE NoTile
<1>1. usable(g, u, a) \in BOOLEAN
  BY DEF usable
<1>2. aim \in Tiles \cup {NoTile}
  BY Parts
<1>3. h = [g EXCEPT !.ability = a, !.button = usable(g, u, a),
                    !.chosen = [owner |-> u, name |-> a], !.aim = aim]
  BY DEF selectAbility
<1> HIDE DEF aim, h
<1>4. h \in GameRec
  <2>1. [owner |-> u, name |-> a] \in [owner : Units \cup {NoUnit}, name : Abilities \cup {NoAbility}]
    OBVIOUS
  <2>2. QED
    BY <1>1, <1>2, <1>3, <2>1 DEF GameRec
<1>5. h.ability = a /\ h.button = usable(g, u, a)
  BY <1>3 DEF GameRec
<1>6. /\ h.unit = g.unit /\ h.positionToCharacter = g.positionToCharacter
      /\ h.selected = g.selected /\ h.target = g.target
  BY <1>3 DEF GameRec
<1>7. QED
  BY <1>4, <1>5, <1>6 DEF Shown, h

\* After a refresh, the button tells the truth.
LEMMA Refreshing ==
  ASSUME NEW g \in GameRec
  PROVE  Shown(g, Refreshed(g)) /\ Truthful(Refreshed(g))
<1>1. CASE g.selected = NoUnit
  BY <1>1 DEF Refreshed, Shown, Truthful
<1>2. CASE g.selected # NoUnit /\ has(g, g.selected, g.chosen.name)
  <2> DEFINE a == g.chosen.name
             h == selectAbility(g, g.selected, a)
  <2>1. g.selected \in Units /\ a \in Abilities
    BY <1>2, Parts DEF has
  <2>2. Shown(g, h) /\ h.ability = a /\ h.button = usable(g, g.selected, a)
    BY <2>1, Selecting
  <2>3. Refreshed(g) = h
    BY <1>2 DEF Refreshed
  <2> HIDE DEF h
  <2>4. usable(h, h.selected, h.ability) = usable(g, g.selected, a)
    BY <2>2, UsableOf DEF Shown
  <2>5. QED
    BY <2>1, <2>2, <2>3, <2>4, Names DEF Truthful
<1>3. CASE g.selected # NoUnit /\ ~has(g, g.selected, g.chosen.name)
  <2> DEFINE h == [g EXCEPT !.ability = NoAbility, !.button = FALSE]
  <2>1. Refreshed(g) = h
    BY <1>3 DEF Refreshed
  <2>2. h \in GameRec /\ h.button = FALSE
    BY DEF GameRec
  <2>3. /\ h.unit = g.unit /\ h.positionToCharacter = g.positionToCharacter
        /\ h.selected = g.selected /\ h.target = g.target
    BY DEF GameRec
  <2>4. QED
    BY <2>1, <2>2, <2>3 DEF Shown, Truthful
<1>4. QED
  BY <1>1, <1>2, <1>3

\* What is only shown leaves the rest in order.
LEMMA ShownOK ==
  ASSUME NEW g, NEW h, Shown(g, h), NEW team
  PROVE  /\ GameOK(g) => GameOK(h)
         /\ SelectedOK(g, team) => SelectedOK(h, team)
         /\ TargetOK(g, team) => TargetOK(h, team)
BY DEF Shown, GameOK, SelectedOK, TargetOK

-----------------------------------------------------------------------------
(* The board: helpers that change units. *)

\* Whatever else becomes of the units, the board agrees while they stay where they are.
LEMMA SamePlaces ==
  ASSUME NEW unit, NEW new, NEW map \in [Tiles -> Units \cup {NoUnit}], BoardOK(unit, map),
         \A v \in Units : /\ UnitOK(new[v])
                          /\ new[v].alive = unit[v].alive
                          /\ new[v].tile = unit[v].tile
                          /\ new[v].met = unit[v].met
  PROVE  BoardOK(new, map)
<1>1. \A p \in Tiles : map[p] # NoUnit => new[map[p]].alive /\ new[map[p]].tile = p
  BY DEF BoardOK
<1>2. \A u \in Units : new[u].alive /\ ~new[u].met => map[new[u].tile] = u
  BY DEF BoardOK
<1>3. \A u, v \in Units :
        u # v /\ new[u].alive /\ new[v].alive /\ new[u].tile = new[v].tile => new[u].met
  BY DEF BoardOK
<1>4. QED
  BY <1>1, <1>2, <1>3 DEF BoardOK

\* A game with other units, in the same places.
LEMMA UnitsChanged ==
  ASSUME NEW g, GameOK(g), NEW new \in [Units -> UnitRecord \cup {Dead}],
         \A v \in Units : /\ UnitOK(new[v])
                          /\ new[v].alive = g.unit[v].alive
                          /\ new[v].tile = g.unit[v].tile
                          /\ new[v].met = g.unit[v].met
  PROVE  LET h == [g EXCEPT !.unit = new] IN
         /\ GameOK(h) /\ h.unit = new
         /\ h.positionToCharacter = g.positionToCharacter
         /\ h.selected = g.selected /\ h.target = g.target
         /\ \A team : /\ SelectedOK(g, team) => SelectedOK(h, team)
                      /\ TargetOK(g, team) => TargetOK(h, team)
<1> DEFINE h == [g EXCEPT !.unit = new]
<1>1. g \in GameRec /\ BoardOK(g.unit, g.positionToCharacter)
  BY DEF GameOK
<1>2. h \in GameRec
  BY <1>1 DEF GameRec
<1>3. /\ h.unit = new /\ h.positionToCharacter = g.positionToCharacter
      /\ h.selected = g.selected /\ h.target = g.target
  BY <1>1 DEF GameRec
<1>4. BoardOK(new, g.positionToCharacter)
  BY <1>1, SamePlaces, Parts
<1> HIDE DEF h
<1>5. GameOK(h)
  BY <1>2, <1>3, <1>4 DEF GameOK
<1>6. g.selected \in Units \cup {NoUnit} /\ g.target \in Units \cup {NoUnit}
  BY <1>1, Parts
<1>7. ASSUME NEW team
      PROVE  /\ SelectedOK(g, team) => SelectedOK(h, team)
             /\ TargetOK(g, team) => TargetOK(h, team)
  BY <1>3, <1>6 DEF SelectedOK, TargetOK
<1>8. QED
  BY <1>3, <1>5, <1>7 DEF h

\* What addAP(-n) leaves of the points.
Left(ap, n) == IF ap >= n THEN ap - n ELSE 0

\* s is what has become of the unit r, which has paid n points.
Pays(r, s, n) ==
  /\ s.alive = r.alive /\ s.tile = r.tile /\ s.walked = r.walked
  /\ s.overwatch = r.overwatch /\ s.ap = Left(r.ap, n)

\* Points that are spent leave a unit within its walk.
LEMMA Spent ==
  ASSUME NEW r, UnitOK(r), r.alive, NEW n \in {1, 2}
  PROVE  LET s == [r EXCEPT !.ap = Left(@, n)] IN
         /\ UnitOK(s) /\ s \in UnitRecord /\ s.alive /\ s.tile = r.tile /\ s.met = r.met
         /\ s.ap = Left(r.ap, n) /\ s.walked = r.walked /\ s.overwatch = r.overwatch
         /\ s.health = r.health /\ s.alive = r.alive
<1> DEFINE s == [r EXCEPT !.ap = Left(@, n)]
<1>1. /\ r \in UnitRecord /\ r.health \in Nat /\ r.health > 0
      /\ r.ap \in 0 .. 2 /\ r.walked \in Nat /\ WalkOK(r.ap, r.walked)
  BY Living
<1>2. PICK left \in 0 .. 2 : left = Left(r.ap, n)
  BY <1>1 DEF Left
<1>3. s = [r EXCEPT !.ap = left]
  BY <1>1, <1>2 DEF UnitRecord
<1> HIDE DEF s
<1>4. /\ s \in UnitRecord /\ s.ap = left /\ s.walked = r.walked /\ s.alive = r.alive
      /\ s.tile = r.tile /\ s.met = r.met /\ s.overwatch = r.overwatch /\ s.health = r.health
  BY <1>1, <1>3 DEF UnitRecord
<1>5. WalkOK(left, r.walked)
  BY <1>1, <1>2, Names DEF WalkOK, Left
<1>6. UnitOK(s)
  BY <1>1, <1>4, <1>5 DEF UnitOK
<1>7. QED
  BY <1>2, <1>4, <1>6 DEF s

\* The selected character pays: nothing else on the board changes, and the button is refreshed.
LEMMA Paying ==
  ASSUME NEW g, GameOK(g), NEW u \in Units, g.selected = u, g.unit[u].alive, NEW n, n \in {1, 2}
  PROVE  LET h == addAP(g, u, n) IN
         /\ GameOK(h) /\ Truthful(h)
         /\ h.selected = g.selected /\ h.target = g.target
         /\ Pays(g.unit[u], h.unit[u], n)
         /\ \A v \in Units \ {u} : h.unit[v] = g.unit[v]
         /\ \A team : /\ SelectedOK(g, team) => SelectedOK(h, team)
                      /\ TargetOK(g, team) => TargetOK(h, team)
<1> DEFINE new == [g.unit EXCEPT ![u].ap = Left(@, n)]
           k == [g EXCEPT !.unit = new]
<1>1. g \in GameRec /\ g.unit \in [Units -> UnitRecord \cup {Dead}] /\ \A v \in Units : UnitOK(g.unit[v])
  BY Parts DEF GameOK, BoardOK
<1>2. addAP(g, u, n) = Refreshed(k)
  <2>1. addAP(g, u, n) = LET j == [g EXCEPT !.unit[u].ap = Left(@, n)] IN Refreshed(IF g.selected = u THEN j ELSE j)
    BY DEF addAP, Left
  <2>2. [g EXCEPT !.unit[u].ap = Left(@, n)] = k
    BY <1>1 DEF GameRec
  <2>3. QED
    BY <2>1, <2>2
<1>3. /\ UnitOK(new[u]) /\ new[u] \in UnitRecord /\ new[u].alive = g.unit[u].alive
      /\ new[u].tile = g.unit[u].tile /\ new[u].met = g.unit[u].met
      /\ new[u].walked = g.unit[u].walked /\ new[u].ap = Left(g.unit[u].ap, n)
      /\ new[u].overwatch = g.unit[u].overwatch
  <2>1. new[u] = [g.unit[u] EXCEPT !.ap = Left(@, n)]
    BY <1>1
  <2>2. UnitOK(g.unit[u])
    BY <1>1
  <2> DEFINE s == [g.unit[u] EXCEPT !.ap = Left(@, n)]
  <2>3. /\ UnitOK(s) /\ s \in UnitRecord /\ s.alive = g.unit[u].alive
        /\ s.tile = g.unit[u].tile /\ s.met = g.unit[u].met
        /\ s.walked = g.unit[u].walked /\ s.ap = Left(g.unit[u].ap, n)
        /\ s.overwatch = g.unit[u].overwatch
    BY <2>2, Spent
  <2>4. QED
    BY <2>1, <2>3
<1>4. \A v \in Units \ {u} : new[v] = g.unit[v]
  BY <1>1
<1>5. new \in [Units -> UnitRecord \cup {Dead}]
  BY <1>1, <1>3, <1>4
<1> HIDE DEF new
<1>6. /\ GameOK(k) /\ k.unit = new /\ k.positionToCharacter = g.positionToCharacter
      /\ k.selected = g.selected /\ k.target = g.target
      /\ \A team : /\ SelectedOK(g, team) => SelectedOK(k, team)
                   /\ TargetOK(g, team) => TargetOK(k, team)
  <2>1. \A v \in Units : /\ UnitOK(new[v])
                         /\ new[v].alive = g.unit[v].alive
                         /\ new[v].tile = g.unit[v].tile
                         /\ new[v].met = g.unit[v].met
    BY <1>1, <1>3, <1>4
  <2>2. QED
    BY <2>1, <1>5, UnitsChanged
<1> HIDE DEF k
<1>7. Shown(k, Refreshed(k)) /\ Truthful(Refreshed(k))
  BY <1>6, Refreshing DEF GameOK
<1> DEFINE h == addAP(g, u, n)
<1> HIDE DEF h
<1>8. /\ Shown(k, h) /\ Truthful(h) /\ h.unit = new /\ h.selected = g.selected /\ h.target = g.target
  BY <1>2, <1>6, <1>7 DEF Shown, h
<1>9. /\ GameOK(h)
      /\ \A team : /\ SelectedOK(g, team) => SelectedOK(h, team)
                   /\ TargetOK(g, team) => TargetOK(h, team)
  BY <1>6, <1>8, ShownOK
<1>10. QED
  BY <1>3, <1>4, <1>8, <1>9 DEF h, Pays

\* A unit that is hurt is deleted, or has less health and is else as it was.
LEMMA Wounds ==
  ASSUME NEW g, GameOK(g), NEW who \in SUBSET Units, NEW n \in Nat \ {0}
  PROVE  /\ Wounded(g, who, n) \in [Units -> UnitRecord \cup {Dead}]
         /\ \A v \in Units : LET s == Wounded(g, who, n)[v] IN
              /\ UnitOK(s)
              /\ v \notin who => s = g.unit[v]
              /\ v \in who /\ g.unit[v].health <= n => s = Dead
              /\ v \notin who \/ ~(g.unit[v].health <= n) =>
                   /\ s.alive = g.unit[v].alive /\ s.tile = g.unit[v].tile
                   /\ s.ap = g.unit[v].ap /\ s.met = g.unit[v].met
                   /\ s.overwatch = g.unit[v].overwatch
<1>1. g.unit \in [Units -> UnitRecord \cup {Dead}] /\ \A v \in Units : UnitOK(g.unit[v])
  BY Parts DEF GameOK, BoardOK
<1>2. ASSUME NEW v \in Units
      PROVE  LET s == Wounded(g, who, n)[v] IN
              /\ s \in UnitRecord \cup {Dead}
              /\ UnitOK(s)
              /\ v \notin who => s = g.unit[v]
              /\ v \in who /\ g.unit[v].health <= n => s = Dead
              /\ v \notin who \/ ~(g.unit[v].health <= n) =>
                   /\ s.alive = g.unit[v].alive /\ s.tile = g.unit[v].tile
                   /\ s.ap = g.unit[v].ap /\ s.met = g.unit[v].met
                   /\ s.overwatch = g.unit[v].overwatch
  <2> DEFINE r == g.unit[v]
             s == Wounded(g, who, n)[v]
  <2>1. r \in UnitRecord \cup {Dead} /\ UnitOK(r)
    BY <1>1
  <2>2. s = IF v \notin who THEN r ELSE IF r.health <= n THEN Dead ELSE [r EXCEPT !.health = @ - n]
    BY DEF Wounded
  <2> HIDE DEF r, s
  <2>3. CASE v \notin who \/ r.health <= n
    BY <2>1, <2>2, <2>3, Dying DEF r, s
  <2>4. CASE v \in who /\ ~(r.health <= n)
    <3>1. r.alive
      BY <2>1, <2>4, Dying
    <3>2. /\ r \in UnitRecord /\ r.health \in Nat /\ r.health > 0 /\ r.health <= MaxHealth
          /\ WalkOK(r.ap, r.walked)
      BY <2>1, <3>1, Living
    <3>3. PICK left \in Nat : left = r.health - n /\ left > 0 /\ left <= MaxHealth
      BY <2>4, <3>2, Names
    <3>4. s = [r EXCEPT !.health = left]
      BY <2>2, <2>4, <3>2, <3>3 DEF UnitRecord
    <3>5. /\ s \in UnitRecord /\ s.health = left /\ s.alive = r.alive /\ s.tile = r.tile /\ s.ap = r.ap
          /\ s.met = r.met /\ s.overwatch = r.overwatch /\ s.walked = r.walked
      BY <3>2, <3>3, <3>4, Names DEF UnitRecord
    <3>6. UnitOK(s)
      BY <3>1, <3>2, <3>3, <3>5 DEF UnitOK
    <3>7. QED
      BY <2>4, <3>5, <3>6 DEF r, s
  <2>5. QED
    BY <2>3, <2>4
<1>3. Wounded(g, who, n) = [v \in Units |-> Wounded(g, who, n)[v]]
  BY DEF Wounded
<1>4. Wounded(g, who, n) \in [Units -> UnitRecord \cup {Dead}]
  BY <1>2, <1>3
<1>5. QED
  BY <1>2, <1>4

\* The map after units have been hurt: who has died is out of it.
Cleared(g, dead) ==
  [p \in Tiles |-> IF \E u \in dead : g.unit[u].tile = p THEN NoUnit ELSE g.positionToCharacter[p]]

\* Units can be hurt, and die, without harm to the map and to the selection; and to the
\* button, if the target is still alive.
LEMMA Hurting ==
  ASSUME NEW g, GameOK(g), NEW who \in SUBSET Units, NEW n \in Nat \ {0}
  PROVE  LET h == Hurt(g, who, n) IN
         /\ GameOK(h)
         /\ h.target = g.target /\ h.selected \in {g.selected, NoUnit}
         /\ h.selected = NoUnit \/ h.unit[h.selected].alive = g.unit[h.selected].alive
         /\ g.selected # NoUnit /\ h.unit[g.selected].alive => h.selected = g.selected
         /\ \A team : SelectedOK(g, team) => SelectedOK(h, team)
         /\ \A v \in Units : /\ v \notin who => h.unit[v] = g.unit[v]
                             /\ h.unit[v].alive => /\ g.unit[v].alive
                                                   /\ h.unit[v].overwatch = g.unit[v].overwatch
         /\ Truthful(g) /\ (g.target = NoUnit \/ h.unit[g.target].alive) => Truthful(h)
<1> DEFINE dead == {u \in who : g.unit[u].health <= n}
           k == IF g.selected \in dead THEN NowSelected(g, NoUnit) ELSE g
           new == Wounded(g, who, n)
           map == Cleared(g, dead)
           h == Hurt(g, who, n)
<1>1. /\ g \in GameRec /\ g.unit \in [Units -> UnitRecord \cup {Dead}]
      /\ g.positionToCharacter \in [Tiles -> Units \cup {NoUnit}]
      /\ g.selected \in Units \cup {NoUnit} /\ g.target \in Units \cup {NoUnit}
      /\ \A v \in Units : UnitOK(g.unit[v])
      /\ BoardOK(g.unit, g.positionToCharacter)
  BY Parts DEF GameOK, BoardOK
<1>2. /\ new \in [Units -> UnitRecord \cup {Dead}]
      /\ \A v \in Units : /\ UnitOK(new[v])
                          /\ v \notin who => new[v] = g.unit[v]
                          /\ v \in dead => new[v] = Dead
                          /\ v \notin dead => /\ new[v].alive = g.unit[v].alive
                                              /\ new[v].tile = g.unit[v].tile
                                              /\ new[v].ap = g.unit[v].ap
                                              /\ new[v].met = g.unit[v].met
                                              /\ new[v].overwatch = g.unit[v].overwatch
  BY Wounds
<1>3. /\ k \in GameRec /\ k.positionToCharacter = g.positionToCharacter /\ k.target = g.target
      /\ k.selected = IF g.selected \in dead THEN NoUnit ELSE g.selected
      /\ k.button => g.selected \notin dead
      /\ g.selected \notin dead => k = g
  BY <1>1 DEF NowSelected, GameRec
<1>4. h = [k EXCEPT !.unit = new, !.positionToCharacter = map]
  BY <1>3 DEF Hurt, Cleared
<1>5. /\ map \in [Tiles -> Units \cup {NoUnit}]
      /\ \A p \in Tiles : map[p] = IF \E u \in dead : g.unit[u].tile = p THEN NoUnit
                                   ELSE g.positionToCharacter[p]
  BY <1>1 DEF Cleared
<1> HIDE DEF k, new, map, h
<1>6. /\ h \in GameRec /\ h.unit = new /\ h.positionToCharacter = map
      /\ h.selected = k.selected /\ h.target = k.target /\ h.button = k.button /\ h.ability = k.ability
  BY <1>2, <1>3, <1>4, <1>5 DEF GameRec
<1>7. BoardOK(new, map)
  <2>1. ASSUME NEW p \in Tiles, map[p] # NoUnit
        PROVE  new[map[p]].alive /\ new[map[p]].tile = p
    <3>1. /\ map[p] = g.positionToCharacter[p] /\ map[p] \in Units
          /\ ~\E u \in dead : g.unit[u].tile = p
      BY <1>1, <1>5, <2>1
    <3>2. g.unit[map[p]].alive /\ g.unit[map[p]].tile = p
      BY <1>1, <2>1, <3>1 DEF BoardOK
    <3>3. map[p] \notin dead
      BY <3>1, <3>2
    <3>4. QED
      BY <1>2, <3>1, <3>2, <3>3
  <2>2. ASSUME NEW v \in Units, new[v].alive
        PROVE  /\ v \notin dead /\ g.unit[v].alive /\ new[v].tile = g.unit[v].tile
               /\ new[v].met = g.unit[v].met
    BY <1>2, <2>2, Dying
  <2>3. ASSUME NEW v \in Units, new[v].alive, ~new[v].met
        PROVE  map[new[v].tile] = v
    <3>1. g.positionToCharacter[g.unit[v].tile] = v /\ g.unit[v].tile \in Tiles
      BY <1>1, <2>2, <2>3, Living DEF BoardOK
    <3>2. ~\E u \in dead : g.unit[u].tile = g.unit[v].tile
      <4>1. SUFFICES ASSUME NEW u \in dead, g.unit[u].tile = g.unit[v].tile PROVE FALSE
        OBVIOUS
      <4>2. u # v /\ u \in Units
        BY <2>2, <2>3
      <4>3. g.unit[u].alive
        BY <1>1, <3>1, <4>1, <4>2, Dying, Names
      <4>4. QED
        BY <1>1, <2>2, <2>3, <4>1, <4>2, <4>3 DEF BoardOK
    <3>3. QED
      BY <1>5, <2>2, <2>3, <3>1, <3>2
  <2>4. ASSUME NEW u \in Units, NEW v \in Units,
               u # v, new[u].alive, new[v].alive, new[u].tile = new[v].tile
        PROVE  new[u].met
    BY <1>1, <2>2, <2>4 DEF BoardOK
  <2>5. QED
    BY <1>2, <2>1, <2>3, <2>4 DEF BoardOK
<1>8. GameOK(h)
  BY <1>6, <1>7 DEF GameOK
<1>9. h.selected = NoUnit \/ (h.selected = g.selected /\ g.selected \in Units \ dead)
  BY <1>1, <1>3, <1>6
<1>10. h.selected = NoUnit \/ h.unit[h.selected].alive = g.unit[h.selected].alive
  BY <1>2, <1>6, <1>9
<1>11. \A team : SelectedOK(g, team) => SelectedOK(h, team)
  BY <1>9, <1>10 DEF SelectedOK
<1>12. \A v \in Units : /\ v \notin who => h.unit[v] = g.unit[v]
                        /\ h.unit[v].alive => /\ g.unit[v].alive
                                              /\ h.unit[v].overwatch = g.unit[v].overwatch
  BY <1>2, <1>6, Dying
<1>13. ASSUME Truthful(g), g.target = NoUnit \/ h.unit[g.target].alive
       PROVE  Truthful(h)
  <2>1. SUFFICES ASSUME h.button, h.selected # NoUnit
                 PROVE  h.ability # NoAbility /\ usable(h, h.selected, h.ability)
    BY DEF Truthful
  <2>2. k = g /\ h.selected = g.selected /\ g.selected \in Units \ dead
    BY <1>3, <1>6, <1>9, <2>1
  <2>3. g.ability # NoAbility /\ usable(g, g.selected, g.ability)
    BY <1>6, <1>13, <2>1, <2>2 DEF Truthful
  <2>4. usable(g, g.selected, g.ability) = usable(h, g.selected, g.ability)
    <3>1. g.unit[g.selected].ap = h.unit[g.selected].ap /\ g.unit[g.selected].tile = h.unit[g.selected].tile
      BY <1>2, <1>6, <2>2
    <3>2. g.target # NoUnit => g.unit[g.target].tile = h.unit[g.target].tile
      BY <1>1, <1>2, <1>6, <1>13, Dying
    <3>3. QED
      BY <1>3, <1>6, <3>1, <3>2, UsableOf
  <2>5. QED
    BY <1>6, <2>2, <2>3, <2>4
<1>14. h.target = g.target /\ h.selected \in {g.selected, NoUnit}
  BY <1>3, <1>6, <1>9
<1>15. g.selected # NoUnit /\ h.unit[g.selected].alive => h.selected = g.selected
  BY <1>1, <1>2, <1>3, <1>6, Dying
<1>16. QED
  BY <1>8, <1>10, <1>11, <1>12, <1>13, <1>14, <1>15 DEF h

\* A unit that arrives on a tile is found there; the units of that tile, and it, have met;
\* and whoever it leaves behind had met it.
LEMMA Placing ==
  ASSUME NEW g, GameOK(g), NEW u \in Units, g.unit[u].alive, NEW p \in Tiles,
         WalkOK(g.unit[u].ap, g.unit[u].walked + Steps[<<g.unit[u].tile, p>>])
  PROVE  LET h == Placed(g, u, p) IN
         /\ GameOK(h)
         /\ h.selected = g.selected /\ h.target = g.target
         /\ \A v \in Units : /\ h.unit[v].alive = g.unit[v].alive
                             /\ h.unit[v].overwatch = g.unit[v].overwatch
         /\ \A team : /\ SelectedOK(g, team) => SelectedOK(h, team)
                      /\ TargetOK(g, team) => TargetOK(h, team)
<1> DEFINE others == {v \in Units \ {u} : g.unit[v].alive /\ g.unit[v].tile = p}
           new == [v \in Units |->
                     IF v = u THEN [g.unit[v] EXCEPT !.tile = p, !.met = @ \/ others # {},
                                      !.walked = @ + Steps[<<g.unit[u].tile, p>>]]
                     ELSE IF v \in others THEN [g.unit[v] EXCEPT !.met = TRUE] ELSE g.unit[v]]
           map == [g.positionToCharacter EXCEPT ![g.unit[u].tile] = NoUnit, ![p] = u]
           h == Placed(g, u, p)
<1>1. /\ g \in GameRec /\ g.unit \in [Units -> UnitRecord \cup {Dead}]
      /\ g.positionToCharacter \in [Tiles -> Units \cup {NoUnit}]
      /\ g.selected \in Units \cup {NoUnit} /\ g.target \in Units \cup {NoUnit}
      /\ \A v \in Units : UnitOK(g.unit[v])
      /\ BoardOK(g.unit, g.positionToCharacter)
  BY Parts DEF GameOK, BoardOK
<1>2. h = [g EXCEPT !.unit = new, !.positionToCharacter = map]
  BY DEF Placed
<1>3. /\ UnitOK(new[u]) /\ new[u] \in UnitRecord /\ new[u].alive = g.unit[u].alive
      /\ new[u].tile = p /\ new[u].overwatch = g.unit[u].overwatch
      /\ new[u].met = (g.unit[u].met \/ others # {})
  <2> DEFINE r == g.unit[u]
             s == new[u]
  <2>1. /\ r \in UnitRecord /\ r.tile \in Tiles /\ r.health \in Nat /\ r.health > 0
        /\ r.walked \in Nat /\ r.met \in BOOLEAN
    BY <1>1, Living
  <2>2. Steps[<<r.tile, p>>] \in Nat
    BY <2>1, BattleAssumption
  <2>3. PICK walked \in Nat : walked = r.walked + Steps[<<r.tile, p>>] /\ WalkOK(r.ap, walked)
    BY <2>1, <2>2
  <2>4. PICK met \in BOOLEAN : met = (r.met \/ others # {})
    BY <2>1
  <2>5. s = [r EXCEPT !.tile = p, !.met = met, !.walked = walked]
    BY <2>1, <2>3, <2>4 DEF UnitRecord
  <2> HIDE DEF s, r, others
  <2>6. /\ s \in UnitRecord /\ s.tile = p /\ s.met = met /\ s.walked = walked
        /\ s.alive = r.alive /\ s.ap = r.ap /\ s.health = r.health /\ s.overwatch = r.overwatch
    BY <2>1, <2>5 DEF UnitRecord
  <2>7. UnitOK(s)
    BY <2>1, <2>3, <2>6 DEF UnitOK, r
  <2>8. QED
    BY <2>4, <2>6, <2>7 DEF s, r
<1>4. ASSUME NEW v \in Units, v # u
      PROVE  /\ new[v] \in UnitRecord \cup {Dead} /\ UnitOK(new[v])
             /\ new[v].alive = g.unit[v].alive /\ new[v].tile = g.unit[v].tile
             /\ new[v].overwatch = g.unit[v].overwatch
             /\ v \in others => new[v].met
             /\ v \notin others => new[v].met = g.unit[v].met
  <2>1. CASE v \notin others
    BY <1>1, <1>4, <2>1
  <2>2. CASE v \in others
    <3> DEFINE r == g.unit[v]
               s == new[v]
    <3>1. /\ r \in UnitRecord /\ r.health > 0 /\ WalkOK(r.ap, r.walked) /\ r.alive
      BY <1>1, <2>2, Living
    <3>2. s = [r EXCEPT !.met = TRUE]
      BY <1>4, <2>2
    <3> HIDE DEF r, s
    <3>3. /\ s \in UnitRecord /\ s.met = TRUE /\ s.tile = r.tile /\ s.walked = r.walked
          /\ s.alive = r.alive /\ s.ap = r.ap /\ s.health = r.health /\ s.overwatch = r.overwatch
      BY <3>1, <3>2 DEF UnitRecord
    <3>4. UnitOK(s)
      BY <3>1, <3>3 DEF UnitOK
    <3>5. QED
      BY <2>2, <3>3, <3>4 DEF r, s
  <2>3. QED
    BY <2>1, <2>2
<1>5. new \in [Units -> UnitRecord \cup {Dead}]
  BY <1>3, <1>4
<1>6. g.unit[u].tile \in Tiles
  BY <1>1, Living
<1>7. /\ map \in [Tiles -> Units \cup {NoUnit}] /\ map[p] = u
      /\ \A q \in Tiles \ {p} : map[q] = IF q = g.unit[u].tile THEN NoUnit ELSE g.positionToCharacter[q]
  BY <1>1, <1>6
<1> HIDE DEF new, map, h
<1>8. /\ h \in GameRec /\ h.unit = new /\ h.positionToCharacter = map
      /\ h.selected = g.selected /\ h.target = g.target
  BY <1>1, <1>2, <1>5, <1>7 DEF GameRec
<1>9. BoardOK(new, map)
  <2>1. ASSUME NEW q \in Tiles, map[q] # NoUnit
        PROVE  new[map[q]].alive /\ new[map[q]].tile = q
    <3>1. CASE q = p
      BY <1>3, <1>7, <3>1
    <3>2. CASE q # p
      <4>1. q # g.unit[u].tile /\ map[q] = g.positionToCharacter[q] /\ map[q] \in Units
        BY <1>1, <1>7, <2>1, <3>2
      <4>2. g.unit[map[q]].alive /\ g.unit[map[q]].tile = q
        BY <1>1, <2>1, <4>1 DEF BoardOK
      <4>3. map[q] # u
        BY <4>1, <4>2
      <4>4. QED
        BY <1>4, <4>1, <4>2, <4>3
    <3>3. QED
      BY <3>1, <3>2
  <2>2. ASSUME NEW v \in Units, new[v].alive, ~new[v].met
        PROVE  map[new[v].tile] = v
    <3>1. CASE v = u
      BY <1>3, <1>7, <3>1
    <3>2. CASE v # u
      <4>1. /\ v \notin others /\ g.unit[v].alive /\ new[v].tile = g.unit[v].tile
            /\ ~g.unit[v].met
        BY <1>4, <2>2, <3>2
      <4>2. g.positionToCharacter[g.unit[v].tile] = v /\ g.unit[v].tile \in Tiles
        BY <1>1, <4>1, Living DEF BoardOK
      <4>3. g.unit[v].tile # p
        BY <3>2, <4>1
      <4>4. g.unit[v].tile # g.unit[u].tile
        BY <1>1, <3>2, <4>1 DEF BoardOK
      <4>5. QED
        BY <1>7, <4>1, <4>2, <4>3, <4>4
    <3>3. QED
      BY <3>1, <3>2
  <2>3. ASSUME NEW v \in Units, NEW w \in Units,
               v # w, new[v].alive, new[w].alive, new[v].tile = new[w].tile
        PROVE  new[v].met
    <3>1. CASE v = u
      <4>1. w \in others
        BY <1>3, <1>4, <2>3, <3>1
      <4>2. QED
        BY <1>3, <3>1, <4>1
    <3>2. CASE w = u
      <4>1. v \in others
        BY <1>3, <1>4, <2>3, <3>2
      <4>2. QED
        BY <1>4, <2>3, <3>2, <4>1
    <3>3. CASE v # u /\ w # u
      <4>1. g.unit[v].met
        BY <1>1, <1>4, <2>3, <3>3 DEF BoardOK
      <4>2. QED
        BY <1>4, <3>3, <4>1
    <3>4. QED
      BY <3>1, <3>2, <3>3
  <2>4. QED
    BY <1>3, <1>4, <2>1, <2>2, <2>3 DEF BoardOK
<1>10. GameOK(h)
  BY <1>8, <1>9 DEF GameOK
<1>11. \A v \in Units : h.unit[v].alive = g.unit[v].alive /\ h.unit[v].overwatch = g.unit[v].overwatch
  BY <1>3, <1>4, <1>8
<1>12. ASSUME NEW team
       PROVE  /\ SelectedOK(g, team) => SelectedOK(h, team)
              /\ TargetOK(g, team) => TargetOK(h, team)
  BY <1>1, <1>8, <1>11 DEF SelectedOK, TargetOK
<1>13. QED
  BY <1>8, <1>10, <1>11, <1>12 DEF h

-----------------------------------------------------------------------------
(* Overwatch. *)

\* What every helper asks of a game while u, of this team, is the one that acts.
Acting(g, u, team) == AllOK(g, team) /\ g.selected \in {u, NoUnit}

\* One unit more, or one less, is on overwatch.
LEMMA OverwatchSet ==
  ASSUME NEW g, NEW team, AllOK(g, team), NEW v \in Units, g.unit[v].alive, NEW b \in BOOLEAN
  PROVE  LET h == [g EXCEPT !.unit[v].overwatch = b] IN
         /\ AllOK(h, team)
         /\ h.selected = g.selected /\ h.target = g.target
         /\ h.unit[v].alive = g.unit[v].alive /\ (h.unit[v].overwatch <=> b)
         /\ \A w \in Units \ {v} : h.unit[w] = g.unit[w]
<1> DEFINE new == [g.unit EXCEPT ![v].overwatch = b]
           h == [g EXCEPT !.unit[v].overwatch = b]
<1>1. /\ g \in GameRec /\ g.unit \in [Units -> UnitRecord \cup {Dead}]
      /\ g.selected \in Units \cup {NoUnit} /\ g.target \in Units \cup {NoUnit}
      /\ \A w \in Units : UnitOK(g.unit[w])
      /\ GameOK(g)
  BY Parts DEF AllOK, GameOK, BoardOK
<1>2. h = [g EXCEPT !.unit = new]
  BY <1>1 DEF GameRec
<1>3. /\ UnitOK(new[v]) /\ new[v] \in UnitRecord /\ new[v].alive = g.unit[v].alive
      /\ new[v].tile = g.unit[v].tile /\ new[v].met = g.unit[v].met /\ new[v].ap = g.unit[v].ap
      /\ new[v].overwatch = b
  <2> DEFINE r == g.unit[v]
             s == [r EXCEPT !.overwatch = b]
  <2>1. r \in UnitRecord /\ r.health > 0 /\ WalkOK(r.ap, r.walked)
    BY <1>1, Living
  <2>2. new[v] = s
    BY <1>1
  <2> HIDE DEF r, new
  <2>3. /\ s \in UnitRecord /\ s.overwatch = b /\ s.tile = r.tile /\ s.walked = r.walked
        /\ s.alive = r.alive /\ s.ap = r.ap /\ s.health = r.health /\ s.met = r.met
    BY <2>1 DEF UnitRecord
  <2> HIDE DEF s
  <2>4. UnitOK(s)
    BY <2>1, <2>3 DEF UnitOK, r
  <2>5. QED
    BY <2>2, <2>3, <2>4 DEF r
<1>4. \A w \in Units \ {v} : new[w] = g.unit[w]
  BY <1>1
<1>5. new \in [Units -> UnitRecord \cup {Dead}]
  BY <1>1, <1>3, <1>4
<1>6. h.button = g.button /\ h.ability = g.ability
  BY <1>1, <1>2 DEF GameRec
<1> HIDE DEF new
<1>7. /\ GameOK(h) /\ h.unit = new /\ h.selected = g.selected /\ h.target = g.target
      /\ SelectedOK(g, team) => SelectedOK(h, team)
      /\ TargetOK(g, team) => TargetOK(h, team)
  <2>1. \A w \in Units : /\ UnitOK(new[w])
                         /\ new[w].alive = g.unit[w].alive
                         /\ new[w].tile = g.unit[w].tile
                         /\ new[w].met = g.unit[w].met
    BY <1>1, <1>3, <1>4
  <2> HIDE DEF h
  <2>2. QED
    BY <2>1, <1>1, <1>2, <1>5, UnitsChanged
<1> HIDE DEF h
<1>8. Truthful(h)
  <2>1. SUFFICES ASSUME h.button, h.selected # NoUnit
                 PROVE  h.ability # NoAbility /\ usable(h, h.selected, h.ability)
    BY DEF Truthful
  <2>2. g.selected \in Units /\ g.ability # NoAbility /\ usable(g, g.selected, g.ability)
    BY <1>1, <1>6, <1>7, <2>1 DEF AllOK, Truthful
  <2>3. \A w \in Units : new[w].ap = g.unit[w].ap /\ new[w].tile = g.unit[w].tile
    BY <1>3, <1>4
  <2>4. usable(g, g.selected, g.ability) = usable(h, g.selected, g.ability)
    <3>1. h.unit = new /\ g.target = h.target /\ g.target \in Units \cup {NoUnit}
      BY <1>1, <1>7
    <3>2. g.unit[g.selected].ap = h.unit[g.selected].ap /\ g.unit[g.selected].tile = h.unit[g.selected].tile
      BY <2>2, <2>3, <3>1
    <3>3. g.target # NoUnit => g.unit[g.target].tile = h.unit[g.target].tile
      BY <2>3, <3>1
    <3>4. QED
      BY <3>1, <3>2, <3>3, UsableOf
  <2>5. QED
    BY <1>6, <1>7, <2>2, <2>4
<1>9. AllOK(h, team)
  BY <1>7, <1>8 DEF AllOK
<1>10. QED
  BY <1>3, <1>4, <1>7, <1>9 DEF h

\* What one unit does about one that has moved: the game stays in order, and it is the
\* only one that can lose its overwatch, to an enemy, or to one that is dead.
LEMMA Firing ==
  ASSUME NEW g, NEW team, NEW u \in Units, teamOf(u) = team, Acting(g, u, team),
         NEW v \in Units, NEW hits
  PROVE  LET h == Fired(g, v, u, hits) IN
         /\ Acting(h, u, team)
         /\ g.unit[u].alive /\ teamOf(v) = team => h = g
         /\ \A w \in Units : h.unit[w].alive =>
              /\ g.unit[w].alive
              /\ w = v \/ h.unit[w].overwatch = g.unit[w].overwatch
              /\ h.unit[w].overwatch # g.unit[w].overwatch =>
                   teamOf(w) # team \/ ~g.unit[u].alive
<1> DEFINE holds == \/ ~g.unit[v].alive \/ ~g.unit[v].overwatch
                    \/ g.unit[u].alive /\ (teamOf(v) = teamOf(u) \/ ~exposed(g, v, u))
           k == [g EXCEPT !.unit[v].overwatch = FALSE]
           h == Fired(g, v, u, hits)
<1>1. h = IF holds THEN g
          ELSE IF v \in hits /\ g.unit[u].alive THEN Hurt(k, {u}, OverwatchDamage) ELSE k
  BY DEF Fired
<1>2. g.unit[u].alive /\ teamOf(v) = team => holds
  OBVIOUS
<1>3. ~holds => g.unit[v].alive /\ (teamOf(v) # team \/ ~g.unit[u].alive)
  OBVIOUS
<1> HIDE DEF holds, h, k
<1>4. CASE holds
  BY <1>1, <1>4 DEF h
<1>5. CASE ~holds
  <2>1. /\ AllOK(k, team) /\ k.selected = g.selected /\ k.target = g.target
        /\ k.unit[v].alive = g.unit[v].alive
        /\ \A w \in Units \ {v} : k.unit[w] = g.unit[w]
    BY <1>3, <1>5, OverwatchSet DEF Acting, k
  <2>2. CASE h = k
    <3>1. Acting(h, u, team)
      BY <2>1, <2>2 DEF Acting
    <3>2. ASSUME NEW w \in Units, h.unit[w].alive
          PROVE  /\ g.unit[w].alive
                 /\ w = v \/ h.unit[w].overwatch = g.unit[w].overwatch
                 /\ h.unit[w].overwatch # g.unit[w].overwatch =>
                      teamOf(w) # team \/ ~g.unit[u].alive
      BY <1>3, <1>5, <2>1, <2>2, <3>2
    <3>3. QED
      BY <1>2, <1>5, <3>1, <3>2 DEF h
  <2>3. CASE h = Hurt(k, {u}, OverwatchDamage)
    <3>1. /\ GameOK(k) /\ SelectedOK(k, team) /\ TargetOK(k, team) /\ Truthful(k)
          /\ k.target \in Units \cup {NoUnit}
      BY <2>1, Parts DEF AllOK, GameOK
    <3>2. k.target # u
      BY <3>1, Names DEF TargetOK
    <3>3. OverwatchDamage \in Nat \ {0} /\ {u} \in SUBSET Units
      BY Names
    <3>4. /\ GameOK(h) /\ h.target = k.target /\ h.selected \in {k.selected, NoUnit}
          /\ \A t : SelectedOK(k, t) => SelectedOK(h, t)
          /\ \A w \in Units : /\ w \notin {u} => h.unit[w] = k.unit[w]
                              /\ h.unit[w].alive => /\ k.unit[w].alive
                                                    /\ h.unit[w].overwatch = k.unit[w].overwatch
          /\ Truthful(k) /\ (k.target = NoUnit \/ h.unit[k.target].alive) => Truthful(h)
      <4> DEFINE who == {u}
                 n == OverwatchDamage
      <4>1. GameOK(k) /\ who \in SUBSET Units /\ n \in Nat \ {0}
        BY <3>1, <3>3
      <4> HIDE DEF who, n
      <4>2. LET j == Hurt(k, who, n) IN
            /\ GameOK(j) /\ j.target = k.target /\ j.selected \in {k.selected, NoUnit}
            /\ \A t : SelectedOK(k, t) => SelectedOK(j, t)
            /\ \A w \in Units : /\ w \notin who => j.unit[w] = k.unit[w]
                                /\ j.unit[w].alive => /\ k.unit[w].alive
                                                      /\ j.unit[w].overwatch = k.unit[w].overwatch
            /\ Truthful(k) /\ (k.target = NoUnit \/ j.unit[k.target].alive) => Truthful(j)
        BY <4>1, Hurting
      <4>3. QED
        BY <2>3, <4>2 DEF who, n
    <3>5. TargetOK(h, team)
      BY <3>1, <3>2, <3>4 DEF TargetOK
    <3>6. Acting(h, u, team)
      <4>1. k.target = NoUnit \/ h.unit[k.target].alive
        BY <3>4, <3>5 DEF TargetOK
      <4>2. QED
        BY <2>1, <3>1, <3>4, <3>5, <4>1 DEF Acting, AllOK
    <3>7. ASSUME NEW w \in Units, h.unit[w].alive
          PROVE  /\ g.unit[w].alive
                 /\ w = v \/ h.unit[w].overwatch = g.unit[w].overwatch
                 /\ h.unit[w].overwatch # g.unit[w].overwatch =>
                      teamOf(w) # team \/ ~g.unit[u].alive
      BY <1>3, <1>5, <2>1, <3>4, <3>7
    <3>8. QED
      BY <1>2, <1>5, <3>6, <3>7 DEF h
  <2>4. QED
    BY <1>1, <1>5, <2>2, <2>3
<1>6. QED
  BY <1>4, <1>5

\* A set of numbers has a least one.
LEMMA Least ==
  ASSUME NEW S \in SUBSET Nat, S # {}
  PROVE  \E n \in S : \A m \in S : n <= m
<1> DEFINE R == {ss \in Nat \X Nat : ss[1] < ss[2]}
<1>1. R = OpToRel(<, Nat)
  BY DEF OpToRel
<1>2. IsWellFoundedOn(R, Nat)
  BY <1>1, NatLessThanWellFounded
<1> HIDE DEF R
<1>3. PICK n \in S : \A m \in S : <<m, n>> \notin R
  BY <1>2, WFMin
<1>4. ASSUME NEW m \in S PROVE n <= m
  <2>1. m \in Nat /\ n \in Nat /\ <<m, n>> \notin R
    BY <1>3
  <2>2. m < n => <<m, n>> \in R
    BY <2>1 DEF R
  <2>3. QED
    BY <2>1, <2>2
<1>5. QED
  BY <1>4

\* The order in which the units fire.
Order == Players \o Aliens

\* The units of the first team come first.
LEMMA Ordered ==
  /\ Len(Order) \in Nat
  /\ \A n \in 1 .. Len(Order) : Order[n] \in Units /\
       Order[n] \in IF n <= Len(Players) THEN ToSet(Players) ELSE ToSet(Aliens)
<1>1. Players \in Seq(Units) /\ Aliens \in Seq(Units)
  BY BattleAssumption
<1>2. /\ Len(Order) = Len(Players) + Len(Aliens)
      /\ \A n \in 1 .. Len(Order) : Order[n] = IF n <= Len(Players) THEN Players[n] ELSE Aliens[n - Len(Players)]
  BY <1>1 DEF Order
<1>3. Len(Players) \in Nat /\ Len(Aliens) \in Nat
  BY <1>1
<1>4. DOMAIN Players = 1 .. Len(Players) /\ DOMAIN Aliens = 1 .. Len(Aliens)
  BY <1>1
<1>5. ASSUME NEW n \in 1 .. Len(Order)
      PROVE  Order[n] \in IF n <= Len(Players) THEN ToSet(Players) ELSE ToSet(Aliens)
  <2>1. CASE n <= Len(Players)
    BY <1>2, <1>3, <1>4, <2>1 DEF ToSet
  <2>2. CASE ~(n <= Len(Players))
    <3>1. n - Len(Players) \in 1 .. Len(Aliens)
      BY <1>2, <1>3, <2>2
    <3>2. QED
      BY <1>2, <1>4, <2>2, <3>1 DEF ToSet
  <2>3. QED
    BY <2>1, <2>2
<1>6. QED
  BY <1>2, <1>3, <1>5 DEF Units

\* f records the game after each of the first m units of the order has fired.
Fires(f, m, g, u, hits) ==
  f = [n \in 0 .. m |-> IF n = 0 THEN g ELSE Fired(f[n - 1], Order[n], u, hits)]

\* There is such a record for every m: the equation in Overwatched defines a function.
LEMMA FiresExists ==
  ASSUME NEW g, NEW u, NEW hits, NEW m \in Nat
  PROVE  \E f : Fires(f, m, g, u, hits)
<1> DEFINE S == {n \in Nat : ~\E f : Fires(f, n, g, u, hits)}
<1>1. SUFFICES ASSUME S # {} PROVE FALSE
  OBVIOUS
<1>2. PICK n \in S : \A k \in S : n <= k
  BY <1>1, Least
<1>3. CASE n = 0
  <2> DEFINE f == [k \in 0 .. 0 |-> g]
  <2>1. f = [k \in 0 .. 0 |-> IF k = 0 THEN g ELSE Fired(f[k - 1], Order[k], u, hits)]
    OBVIOUS
  <2>2. Fires(f, 0, g, u, hits)
    BY <2>1 DEF Fires
  <2>3. QED
    BY <1>3, <2>2
<1>4. CASE n # 0
  <2>1. n - 1 \in Nat /\ n - 1 \notin S /\ n \in Nat
    BY <1>2, <1>4
  <2>2. PICK f : Fires(f, n - 1, g, u, hits)
    BY <2>1
  <2> DEFINE h == [k \in 0 .. n |-> IF k <= n - 1 THEN f[k] ELSE Fired(f[n - 1], Order[n], u, hits)]
  <2>3. \A k \in 0 .. n - 1 : f[k] = IF k = 0 THEN g ELSE Fired(f[k - 1], Order[k], u, hits)
    BY <2>2 DEF Fires
  <2>4. ASSUME NEW k \in 0 .. n
        PROVE  h[k] = IF k = 0 THEN g ELSE Fired(h[k - 1], Order[k], u, hits)
    <3>1. CASE k = 0
      BY <2>1, <2>3, <3>1
    <3>2. CASE k # 0 /\ k <= n - 1
      <4>1. k - 1 \in 0 .. n /\ k - 1 <= n - 1 /\ k \in 0 .. n - 1
        BY <2>1, <3>2
      <4>2. h[k] = f[k] /\ h[k - 1] = f[k - 1]
        BY <3>2, <4>1
      <4>3. QED
        BY <2>3, <3>2, <4>1, <4>2
    <3>3. CASE k = n
      <4>1. n - 1 \in 0 .. n /\ ~(n <= n - 1)
        BY <2>1
      <4>2. h[n] = Fired(f[n - 1], Order[n], u, hits) /\ h[n - 1] = f[n - 1]
        BY <2>1, <4>1
      <4>3. QED
        BY <1>4, <3>3, <4>2
    <3>4. QED
      BY <2>1, <3>1, <3>2, <3>3
  <2>5. h = [k \in 0 .. n |-> h[k]]
    OBVIOUS
  <2> HIDE DEF h
  <2>6. h = [k \in 0 .. n |-> IF k = 0 THEN g ELSE Fired(h[k - 1], Order[k], u, hits)]
    BY <2>4, <2>5
  <2>7. QED
    BY <2>6 DEF Fires
<1>5. QED
  BY <1>3, <1>4

\* So the game that Overwatched returns is the last of such a record.
LEMMA Recorded ==
  ASSUME NEW g, NEW u, NEW hits
  PROVE  \E f : Fires(f, Len(Order), g, u, hits) /\ Overwatched(g, u, hits) = f[Len(Order)]
<1> DEFINE L == Len(Players \o Aliens)
           f == CHOOSE f : f = [n \in 0 .. L |->
                  IF n = 0 THEN g ELSE Fired(f[n - 1], (Players \o Aliens)[n], u, hits)]
<1>1. Overwatched(g, u, hits) = f[L]
  BY DEF Overwatched
<1>2. PICK h : Fires(h, L, g, u, hits)
  BY FiresExists, Ordered DEF Order
<1>3. Fires(f, L, g, u, hits)
  BY <1>2 DEF Fires, Order
<1>4. QED
  BY <1>1, <1>3 DEF Order

\* What the fire of some of the units leaves of g: u is still alive while only its own team
\* has been asked, and an overwatch is lost to an enemy, or for the death of one's own.
FireKeeps(g, h, u, team, n) ==
  /\ Acting(h, u, team)
  /\ n <= Len(Players) /\ team = "Player" => h.unit[u].alive
  /\ \A w \in Units : h.unit[w].alive =>
       /\ g.unit[w].alive
       /\ g.unit[w].overwatch /\ ~h.unit[w].overwatch =>
            teamOf(w) # team \/ (teamOf(w) = "Alien" /\ ~h.unit[u].alive)

\* That holds after each of them, and so at the end.
LEMMA Overwatching ==
  ASSUME NEW g, NEW team, NEW u \in Units, teamOf(u) = team, Acting(g, u, team),
         g.unit[u].alive, NEW hits
  PROVE  FireKeeps(g, Overwatched(g, u, hits), u, team, Len(Order))
<1>1. PICK f : Fires(f, Len(Order), g, u, hits) /\ Overwatched(g, u, hits) = f[Len(Order)]
  BY Recorded
<1>2. \A n \in 0 .. Len(Order) : f[n] = IF n = 0 THEN g ELSE Fired(f[n - 1], Order[n], u, hits)
  BY <1>1 DEF Fires
<1> DEFINE S == {n \in 0 .. Len(Order) : ~FireKeeps(g, f[n], u, team, n)}
<1>3. S = {}
  <2>1. SUFFICES ASSUME S # {} PROVE FALSE
    OBVIOUS
  <2>2. PICK n \in S : \A k \in S : n <= k
    <3>1. S \in SUBSET Nat
      BY Ordered
    <3> HIDE DEF S
    <3>2. QED
      BY <2>1, <3>1, Least
  <2>3. n \in 0 .. Len(Order) /\ Len(Order) \in Nat /\ n \in Nat /\ ~FireKeeps(g, f[n], u, team, n)
    BY <2>2, Ordered
  <2>4. CASE n = 0
    <3>1. f[n] = g
      BY <1>2, <2>3, <2>4
    <3>2. FireKeeps(g, g, u, team, n)
      BY DEF FireKeeps
    <3>3. QED
      BY <2>3, <3>1, <3>2
  <2>5. CASE n # 0
    <3> DEFINE k == f[n - 1]
               v == Order[n]
               h == f[n]
    <3>1. n - 1 \in 0 .. Len(Order) /\ n - 1 \notin S /\ n \in 1 .. Len(Order)
      BY <2>2, <2>3, <2>5
    <3>2. FireKeeps(g, k, u, team, n - 1)
      BY <3>1
    <3>3. h = Fired(k, v, u, hits)
      BY <1>2, <2>3, <2>5
    <3>4. v \in Units /\ v \in IF n <= Len(Players) THEN ToSet(Players) ELSE ToSet(Aliens)
      BY <3>1, Ordered
    <3> HIDE DEF k, v, h, S
    <3>5. /\ Acting(h, u, team)
          /\ k.unit[u].alive /\ teamOf(v) = team => h = k
          /\ \A w \in Units : h.unit[w].alive =>
               /\ k.unit[w].alive
               /\ w = v \/ h.unit[w].overwatch = k.unit[w].overwatch
               /\ h.unit[w].overwatch # k.unit[w].overwatch =>
                    teamOf(w) # team \/ ~k.unit[u].alive
      BY <3>2, <3>3, <3>4, Firing DEF FireKeeps
    <3>6. Len(Players) \in Nat
      BY BattleAssumption
    <3>7. n <= Len(Players) /\ team = "Player" => h.unit[u].alive
      <4>1. SUFFICES ASSUME n <= Len(Players), team = "Player" PROVE h.unit[u].alive
        OBVIOUS
      <4>2. teamOf(v) = "Player" /\ n - 1 <= Len(Players)
        BY <2>3, <3>4, <3>6, <4>1 DEF teamOf
      <4>3. QED
        BY <3>2, <3>5, <4>1, <4>2 DEF FireKeeps
    <3>8. ASSUME NEW w \in Units, h.unit[w].alive
          PROVE  /\ g.unit[w].alive
                 /\ g.unit[w].overwatch /\ ~h.unit[w].overwatch =>
                      teamOf(w) # team \/ (teamOf(w) = "Alien" /\ ~h.unit[u].alive)
      <4>1. k.unit[w].alive /\ g.unit[w].alive
        BY <3>2, <3>5, <3>8 DEF FireKeeps
      <4>2. SUFFICES ASSUME g.unit[w].overwatch, ~h.unit[w].overwatch, teamOf(w) = team
                     PROVE  teamOf(w) = "Alien" /\ ~h.unit[u].alive
        BY <4>1
      <4>3. CASE ~k.unit[w].overwatch
        <5>1. teamOf(w) = "Alien" /\ ~k.unit[u].alive
          BY <3>2, <4>1, <4>2, <4>3 DEF FireKeeps
        <5>2. QED
          BY <3>5, <5>1
      <4>4. CASE k.unit[w].overwatch
        <5>1. w = v /\ ~k.unit[u].alive
          BY <3>5, <3>8, <4>2, <4>4
        <5>2. ~h.unit[u].alive
          BY <3>5, <5>1
        <5>3. teamOf(w) = "Alien"
          <6>1. SUFFICES ASSUME team = "Player" PROVE FALSE
            BY <4>2, Names
          <6>2. ~(n - 1 <= Len(Players))
            BY <3>2, <5>1, <6>1 DEF FireKeeps
          <6>3. ~(n <= Len(Players))
            BY <2>3, <3>6, <6>2
          <6>4. v \in ToSet(Aliens) /\ v \notin ToSet(Players)
            BY <3>4, <6>3, BattleAssumption
          <6>5. teamOf(v) = "Alien"
            BY <6>4 DEF teamOf
          <6>6. QED
            BY <4>2, <5>1, <6>1, <6>5
        <5>4. QED
          BY <5>2, <5>3
      <4>5. QED
        BY <4>3, <4>4
    <3>9. FireKeeps(g, h, u, team, n)
      BY <3>5, <3>7, <3>8 DEF FireKeeps
    <3>10. QED
      BY <2>3, <3>9 DEF h
  <2>6. QED
    BY <2>4, <2>5
<1>4. Len(Order) \in 0 .. Len(Order)
  BY Ordered
<1>5. QED
  BY <1>1, <1>3, <1>4

-----------------------------------------------------------------------------
(* The inputs. *)

\* h comes of g with no more units alive, and none of them has lost its overwatch.
Keeps(g, h) ==
  \A w \in Units : h.unit[w].alive =>
    g.unit[w].alive /\ (g.unit[w].overwatch => h.unit[w].overwatch)

\* A refresh, of a game that is in order.
LEMMA Refreshes ==
  ASSUME NEW g, GameOK(g)
  PROVE  LET h == Refreshed(g) IN
         /\ GameOK(h) /\ Truthful(h) /\ Keeps(g, h)
         /\ h.unit = g.unit /\ h.selected = g.selected /\ h.target = g.target
         /\ \A team : /\ SelectedOK(g, team) => SelectedOK(h, team)
                      /\ TargetOK(g, team) => TargetOK(h, team)
<1>1. Shown(g, Refreshed(g)) /\ Truthful(Refreshed(g))
  BY Refreshing DEF GameOK
<1>2. QED
  BY <1>1, ShownOK DEF Shown, Keeps

\* How far the points that a unit has let it go, and what is left of them.
LEMMA Strides ==
  ASSUME NEW ap \in 0 .. 2, NEW walked \in Nat, WalkOK(ap, walked), NEW n \in Nat
  PROVE  /\ n <= moves(ap) => WalkOK(Left(ap, 1), walked + n)
         /\ n <= sprintMoves(ap) => WalkOK(Left(ap, 2), walked + n)
<1>1. MaxMoves \in Nat /\ MaxSprint \in Nat /\ MaxMoves <= MaxSprint
  BY Names
<1>2. CASE ap = 2
  <2>1. sprintMoves(ap) = MaxSprint
    BY <1>2 DEF sprintMoves
  <2>2. QED
    BY <1>1, <1>2, <2>1 DEF moves, WalkOK, Left
<1>3. CASE ap = 1
  <2>1. sprintMoves(ap) = MaxSprint - MaxMoves
    BY <1>3 DEF sprintMoves
  <2>2. QED
    BY <1>1, <1>3, <2>1 DEF moves, WalkOK, Left
<1>4. CASE ap = 0
  <2>1. sprintMoves(ap) = 0
    BY <1>4 DEF sprintMoves
  <2>2. QED
    BY <1>1, <1>4, <2>1 DEF moves, WalkOK, Left
<1>5. QED
  BY <1>2, <1>3, <1>4

\* A move that is paid for, up to the fire that it draws.
LEMMA Arriving ==
  ASSUME NEW g, NEW team, AllOK(g, team), NEW u \in Units, g.selected = u,
         NEW p \in Tiles, NEW hits, NEW n, n \in {1, 2},
         WalkOK(Left(g.unit[u].ap, n), g.unit[u].walked + Steps[<<g.unit[u].tile, p>>])
  PROVE  LET h == Overwatched(Refreshed(Placed(addAP(g, u, n), u, p)), u, hits) IN
         FireKeeps(g, h, u, team, Len(Order))
<1> DEFINE paid == addAP(g, u, n)
           there == Placed(paid, u, p)
           shown == Refreshed(there)
           h == Overwatched(shown, u, hits)
<1>1. /\ GameOK(g) /\ SelectedOK(g, team) /\ TargetOK(g, team)
      /\ g.unit[u].alive /\ teamOf(u) = team
      /\ g.unit \in [Units -> UnitRecord \cup {Dead}] /\ \A v \in Units : UnitOK(g.unit[v])
  BY Names, Parts DEF AllOK, SelectedOK, GameOK, BoardOK
<1>2. /\ GameOK(paid) /\ SelectedOK(paid, team) /\ TargetOK(paid, team) /\ paid.selected = u
  BY <1>1, Paying
<1>3. /\ paid.unit[u].alive = g.unit[u].alive /\ paid.unit[u].tile = g.unit[u].tile
      /\ paid.unit[u].walked = g.unit[u].walked /\ paid.unit[u].ap = Left(g.unit[u].ap, n)
      /\ paid.unit[u].overwatch = g.unit[u].overwatch
      /\ \A v \in Units \ {u} : paid.unit[v] = g.unit[v]
  <2>1. Pays(g.unit[u], paid.unit[u], n) /\ \A v \in Units \ {u} : paid.unit[v] = g.unit[v]
    BY <1>1, Paying
  <2> HIDE DEF paid
  <2>2. QED
    BY <2>1 DEF Pays
<1> HIDE DEF paid
<1>4. /\ GameOK(there) /\ SelectedOK(there, team) /\ TargetOK(there, team) /\ there.selected = u
      /\ \A v \in Units : /\ there.unit[v].alive = paid.unit[v].alive
                          /\ there.unit[v].overwatch = paid.unit[v].overwatch
  <2>1. /\ GameOK(paid) /\ paid.unit[u].alive
        /\ WalkOK(paid.unit[u].ap, paid.unit[u].walked + Steps[<<paid.unit[u].tile, p>>])
    BY <1>1, <1>2, <1>3
  <2>2. /\ GameOK(there) /\ there.selected = paid.selected
        /\ \A v \in Units : /\ there.unit[v].alive = paid.unit[v].alive
                            /\ there.unit[v].overwatch = paid.unit[v].overwatch
        /\ \A t : /\ SelectedOK(paid, t) => SelectedOK(there, t)
                  /\ TargetOK(paid, t) => TargetOK(there, t)
    BY <2>1, Placing
  <2> HIDE DEF there
  <2>3. QED
    BY <1>2, <2>2
<1> HIDE DEF there
<1>5. /\ Acting(shown, u, team) /\ shown.unit = there.unit
  BY <1>4, Refreshes DEF Acting, AllOK
<1>6. shown.unit[u].alive
  BY <1>1, <1>3, <1>4, <1>5
<1> HIDE DEF shown
<1>7. FireKeeps(shown, h, u, team, Len(Order))
  BY <1>1, <1>5, <1>6, Overwatching
<1> HIDE DEF h
<1>8. \A w \in Units : /\ shown.unit[w].alive = g.unit[w].alive
                       /\ shown.unit[w].overwatch = g.unit[w].overwatch
  BY <1>3, <1>4, <1>5
<1>9. FireKeeps(g, h, u, team, Len(Order))
  BY <1>7, <1>8 DEF FireKeeps
<1>10. QED
  BY <1>9 DEF h, shown, there, paid

\* The move of the selected character.
LEMMA Moving ==
  ASSUME NEW g, NEW team, AllOK(g, team), NEW u \in Units, g.selected = u,
         NEW p \in Tiles, NEW hits
  PROVE  LET h == Moved(g, u, p, hits) IN
         /\ AllOK(h, team)
         /\ \A w \in Units : g.unit[w].overwatch /\ h.unit[w].alive /\ ~h.unit[w].overwatch =>
              teamOf(w) # team \/ (teamOf(w) = "Alien" /\ ~h.unit[u].alive)
<1> DEFINE n == Steps[<<g.unit[u].tile, p>>]
           ap == g.unit[u].ap
           h == Moved(g, u, p, hits)
<1>1. /\ g.unit[u].tile \in Tiles /\ ap \in 0 .. 2 /\ g.unit[u].walked \in Nat
      /\ WalkOK(ap, g.unit[u].walked)
  <2>1. g.unit[u].alive /\ UnitOK(g.unit[u])
    BY Names DEF AllOK, SelectedOK, GameOK, BoardOK
  <2>2. QED
    BY <2>1, Living
<1>2. n \in Nat
  BY <1>1, BattleAssumption
<1>3. CASE n <= moves(ap)
  <2>1. h = Overwatched(Refreshed(Placed(addAP(g, u, 1), u, p)), u, hits)
    BY <1>3 DEF Moved
  <2>2. WalkOK(Left(ap, 1), g.unit[u].walked + n)
    BY <1>1, <1>2, <1>3, Strides
  <2> HIDE DEF h
  <2>3. FireKeeps(g, h, u, team, Len(Order))
    BY <2>1, <2>2, Arriving
  <2>4. QED
    BY <2>3 DEF FireKeeps, Acting, h
<1>4. CASE ~(n <= moves(ap)) /\ n <= sprintMoves(ap)
  <2>1. h = Overwatched(Refreshed(Placed(addAP(g, u, 2), u, p)), u, hits)
    BY <1>4 DEF Moved
  <2>2. WalkOK(Left(ap, 2), g.unit[u].walked + n)
    BY <1>1, <1>2, <1>4, Strides
  <2> HIDE DEF h
  <2>3. FireKeeps(g, h, u, team, Len(Order))
    BY <2>1, <2>2, Arriving
  <2>4. QED
    BY <2>3 DEF FireKeeps, Acting, h
<1>5. CASE ~(n <= moves(ap)) /\ ~(n <= sprintMoves(ap))
  BY <1>5 DEF Moved
<1>6. QED
  BY <1>3, <1>4, <1>5

\* What use() promises: the button is only wrong if the target is dead, which AfterUse mends.
UseKeeps(g, h, team) ==
  /\ GameOK(h) /\ SelectedOK(h, team) /\ Keeps(g, h)
  /\ h.target = g.target
  /\ h.target = NoUnit \/ h.unit[h.target].alive => Truthful(h)

\* A shot, that may hit.
LEMMA Shooting ==
  ASSUME NEW g, NEW team, AllOK(g, team), NEW u \in Units, g.selected = u,
         g.ability \in {SNAPSHOT, TRAINED}, NEW hit \in BOOLEAN
  PROVE  UseKeeps(g, Shot(g, u, hit), team)
<1> DEFINE n == cost(g, u, g.ability)
           paid == addAP(g, u, n)
           h == Shot(g, u, hit)
<1>1. /\ GameOK(g) /\ SelectedOK(g, team) /\ g.unit[u].alive /\ g \in GameRec
      /\ g.target \in Units \cup {NoUnit} /\ UnitOK(g.unit[u])
  BY Names, Parts DEF AllOK, SelectedOK, GameOK, BoardOK
<1>2. n \in {1, 2}
  BY <1>1, Costs DEF Abilities
<1>3. h = IF hit /\ g.target # NoUnit THEN Hurt(paid, {g.target}, ShotDamage) ELSE paid
  BY DEF Shot
<1> HIDE DEF n, h
<1>4. /\ GameOK(paid) /\ Truthful(paid) /\ SelectedOK(paid, team) /\ paid.target = g.target
      /\ Keeps(g, paid)
  <2>1. /\ GameOK(paid) /\ Truthful(paid) /\ SelectedOK(paid, team) /\ paid.target = g.target
        /\ Pays(g.unit[u], paid.unit[u], n) /\ \A v \in Units \ {u} : paid.unit[v] = g.unit[v]
    BY <1>1, <1>2, Paying
  <2> HIDE DEF paid
  <2>2. QED
    BY <2>1 DEF Pays, Keeps
<1> HIDE DEF paid
<1>5. CASE h = paid
  BY <1>4, <1>5 DEF UseKeeps, h
<1>6. CASE h # paid
  <2> DEFINE who == {g.target}
             k == Hurt(paid, who, ShotDamage)
  <2>1. h = k /\ who \in SUBSET Units /\ ShotDamage \in Nat \ {0}
    BY <1>1, <1>3, <1>6, Names
  <2> HIDE DEF who
  <2>2. /\ GameOK(k) /\ k.target = paid.target
        /\ SelectedOK(paid, team) => SelectedOK(k, team)
        /\ \A v \in Units : k.unit[v].alive => /\ paid.unit[v].alive
                                               /\ k.unit[v].overwatch = paid.unit[v].overwatch
        /\ Truthful(paid) /\ (paid.target = NoUnit \/ k.unit[paid.target].alive) => Truthful(k)
    BY <1>4, <2>1, Hurting
  <2> HIDE DEF k
  <2>3. Keeps(g, k)
    BY <1>4, <2>2 DEF Keeps
  <2>4. QED
    BY <1>4, <2>1, <2>2, <2>3 DEF UseKeeps, h
<1>7. QED
  BY <1>5, <1>6

\* Going on overwatch.
LEMMA GoingOnOverwatch ==
  ASSUME NEW g, NEW team, AllOK(g, team), NEW u \in Units, g.selected = u
  PROVE  UseKeeps(g, Watching(g, u), team)
<1> DEFINE n == cost(g, u, OVERWATCH)
           paid == addAP(g, u, n)
           h == Watching(g, u)
<1>1. /\ GameOK(g) /\ SelectedOK(g, team) /\ TargetOK(g, team) /\ g.unit[u].alive
      /\ g \in GameRec /\ UnitOK(g.unit[u])
  BY Names, Parts DEF AllOK, SelectedOK, GameOK, BoardOK
<1>2. n \in {1, 2}
  BY <1>1, Costs DEF Abilities
<1>3. h = [paid EXCEPT !.unit[u].overwatch = TRUE]
  BY DEF Watching
<1> HIDE DEF n, h
<1>4. /\ AllOK(paid, team) /\ paid.target = g.target
      /\ Pays(g.unit[u], paid.unit[u], n) /\ \A v \in Units \ {u} : paid.unit[v] = g.unit[v]
  <2>1. /\ GameOK(paid) /\ Truthful(paid) /\ SelectedOK(paid, team) /\ TargetOK(paid, team)
        /\ paid.target = g.target
        /\ Pays(g.unit[u], paid.unit[u], n) /\ \A v \in Units \ {u} : paid.unit[v] = g.unit[v]
    BY <1>1, <1>2, Paying
  <2> HIDE DEF paid
  <2>2. QED
    BY <2>1 DEF AllOK
<1> HIDE DEF paid
<1>5. paid.unit[u].alive
  BY <1>1, <1>4 DEF Pays
<1>6. /\ AllOK(h, team) /\ h.target = paid.target /\ h.unit[u].overwatch
      /\ \A w \in Units \ {u} : h.unit[w] = paid.unit[w]
  <2>1. PICK b \in BOOLEAN : b /\ h = [paid EXCEPT !.unit[u].overwatch = b]
    BY <1>3
  <2> DEFINE k == [paid EXCEPT !.unit[u].overwatch = b]
  <2>2. AllOK(k, team) /\ k.target = paid.target
    BY <1>4, <1>5, OverwatchSet
  <2>3. k.unit[u].overwatch <=> b
    BY <1>4, <1>5, OverwatchSet
  <2>4. \A w \in Units \ {u} : k.unit[w] = paid.unit[w]
    BY <1>4, <1>5, OverwatchSet
  <2> HIDE DEF k
  <2>5. QED
    BY <2>1, <2>2, <2>3, <2>4 DEF k
<1>7. Keeps(g, h)
  BY <1>1, <1>4, <1>6 DEF Keeps
<1>8. QED
  BY <1>4, <1>6, <1>7 DEF UseKeeps, AllOK, h

\* The grenade is gone from the abilities of its owner, dead or alive.
LEMMA GrenadeGone ==
  ASSUME NEW g, GameOK(g), NEW u \in Units
  PROVE  LET h == [g EXCEPT !.unit[u].grenade = FALSE, !.chosen = Nothing, !.aim = NoTile] IN
         /\ GameOK(h) /\ Keeps(g, h)
         /\ h.target = g.target
         /\ \A team : SelectedOK(g, team) => SelectedOK(h, team)
<1> DEFINE new == [g.unit EXCEPT ![u].grenade = FALSE]
           k == [g EXCEPT !.chosen = Nothing, !.aim = NoTile]
           h == [g EXCEPT !.unit[u].grenade = FALSE, !.chosen = Nothing, !.aim = NoTile]
<1>1. /\ g \in GameRec /\ g.unit \in [Units -> UnitRecord \cup {Dead}]
      /\ \A w \in Units : UnitOK(g.unit[w])
  BY Parts DEF GameOK, BoardOK
<1>2. /\ UnitOK(new[u]) /\ new[u] \in UnitRecord \cup {Dead} /\ new[u].alive = g.unit[u].alive
      /\ new[u].tile = g.unit[u].tile /\ new[u].met = g.unit[u].met
      /\ new[u].overwatch = g.unit[u].overwatch
  <2> DEFINE r == g.unit[u]
             s == [r EXCEPT !.grenade = FALSE]
  <2>1. new[u] = s /\ UnitOK(r)
    BY <1>1
  <2> HIDE DEF r, new
  <2>2. CASE r.alive
    <3>1. r \in UnitRecord /\ r.health > 0 /\ WalkOK(r.ap, r.walked)
      BY <2>1, <2>2, Living
    <3>2. /\ s \in UnitRecord /\ s.overwatch = r.overwatch /\ s.tile = r.tile
          /\ s.walked = r.walked /\ s.alive = r.alive /\ s.ap = r.ap /\ s.health = r.health
          /\ s.met = r.met
      BY <3>1 DEF UnitRecord
    <3> HIDE DEF s
    <3>3. UnitOK(s)
      BY <2>2, <3>1, <3>2 DEF UnitOK
    <3>4. QED
      BY <2>1, <3>2, <3>3 DEF r
  <2>3. CASE ~r.alive
    <3>1. r = Dead
      BY <2>1, <2>3, Dying
    <3>2. s = Dead
      <4>1. Dead = [f \in DOMAIN Dead |-> Dead[f]] /\ Dead.grenade = FALSE
        BY DEF Dead
      <4>2. s = [f \in DOMAIN Dead |-> IF f = "grenade" THEN FALSE ELSE Dead[f]]
        BY <3>1, <4>1
      <4>3. \A f \in DOMAIN Dead : Dead[f] = IF f = "grenade" THEN FALSE ELSE Dead[f]
        BY <4>1
      <4>4. QED
        BY <4>1, <4>2, <4>3
    <3>3. QED
      BY <2>1, <3>1, <3>2, Dying DEF r
  <2>4. QED
    BY <2>2, <2>3
<1>3. \A w \in Units \ {u} : new[w] = g.unit[w]
  BY <1>1
<1>4. new \in [Units -> UnitRecord \cup {Dead}]
  BY <1>1, <1>2, <1>3
<1>5. h = [k EXCEPT !.unit = new]
  BY <1>1 DEF GameRec
<1>6. k \in GameRec
  <2>1. Nothing \in [owner : Units \cup {NoUnit}, name : Abilities \cup {NoAbility}]
    BY DEF Nothing
  <2>2. QED
    BY <1>1, <2>1 DEF GameRec
<1>7. /\ k.unit = g.unit /\ k.positionToCharacter = g.positionToCharacter
      /\ k.selected = g.selected /\ k.target = g.target
  BY <1>1 DEF GameRec
<1> HIDE DEF new, k, h
<1>8. GameOK(k)
  BY <1>6, <1>7 DEF GameOK
<1>9. \A w \in Units : /\ UnitOK(new[w])
                       /\ new[w].alive = k.unit[w].alive
                       /\ new[w].tile = k.unit[w].tile
                       /\ new[w].met = k.unit[w].met
  BY <1>1, <1>2, <1>3, <1>7
<1>10. /\ GameOK(h) /\ h.unit = new /\ h.selected = k.selected /\ h.target = k.target
       /\ \A team : SelectedOK(k, team) => SelectedOK(h, team)
  BY <1>4, <1>5, <1>8, <1>9, UnitsChanged
<1>11. Keeps(g, h)
  BY <1>2, <1>3, <1>10 DEF Keeps
<1>12. \A team : SelectedOK(g, team) => SelectedOK(k, team)
  BY <1>7 DEF SelectedOK
<1>13. QED
  BY <1>7, <1>10, <1>11, <1>12 DEF h

\* A grenade, that may kill its thrower, the target, or both.
LEMMA Throwing ==
  ASSUME NEW g, NEW team, AllOK(g, team), NEW u \in Units, g.selected = u
  PROVE  UseKeeps(g, Thrown(g, u), team)
<1> DEFINE struck == {g.positionToCharacter[p] : p \in BlastOf[g.aim]} \cap Units
           blown  == Hurt(g, struck, GrenadeDamage)
           n      == cost(blown, u, GRENADE)
           paid   == IF blown.unit[u].alive THEN addAP(blown, u, n) ELSE blown
           gone   == [paid EXCEPT !.unit[u].grenade = FALSE, !.chosen = Nothing, !.aim = NoTile]
           h == Thrown(g, u)
<1>1. /\ GameOK(g) /\ SelectedOK(g, team) /\ u # NoUnit
      /\ struck \in SUBSET Units /\ GrenadeDamage \in Nat \ {0}
  BY Names DEF AllOK
<1>2. h = Refreshed(gone)
  BY DEF Thrown
<1> HIDE DEF struck, h
<1>3. /\ GameOK(blown) /\ SelectedOK(blown, team) /\ Keeps(g, blown) /\ blown.target = g.target
      /\ blown.unit[u].alive => blown.selected = u
  <2> DEFINE k == Hurt(g, struck, GrenadeDamage)
  <2>1. /\ GameOK(k) /\ k.target = g.target
        /\ SelectedOK(g, team) => SelectedOK(k, team)
    BY <1>1, Hurting
  <2>2. g.selected # NoUnit /\ k.unit[g.selected].alive => k.selected = g.selected
    BY <1>1, Hurting
  <2>3. \A v \in Units : k.unit[v].alive => /\ g.unit[v].alive
                                             /\ k.unit[v].overwatch = g.unit[v].overwatch
    BY <1>1, Hurting
  <2> HIDE DEF k
  <2>4. QED
    BY <1>1, <2>1, <2>2, <2>3 DEF Keeps, k
<1> HIDE DEF blown
<1>4. /\ GameOK(paid) /\ SelectedOK(paid, team) /\ Keeps(blown, paid) /\ paid.target = g.target
  <2>1. CASE ~blown.unit[u].alive
    BY <1>3, <2>1 DEF Keeps
  <2>2. CASE blown.unit[u].alive
    <3> DEFINE k == addAP(blown, u, n)
    <3>1. n \in {1, 2}
      <4>1. blown \in GameRec /\ UnitOK(blown.unit[u]) /\ GRENADE \in Abilities
        BY <1>3 DEF GameOK, BoardOK, Abilities
      <4>2. QED
        BY <4>1, Costs
    <3> HIDE DEF n
    <3>2. /\ GameOK(k) /\ SelectedOK(blown, team) => SelectedOK(k, team)
          /\ k.target = blown.target
          /\ Pays(blown.unit[u], k.unit[u], n) /\ \A v \in Units \ {u} : k.unit[v] = blown.unit[v]
      BY <1>3, <2>2, <3>1, Paying
    <3>3. GameOK(k)
      BY <1>3, <2>2, <3>1, Paying
    <3> HIDE DEF k
    <3>4. Keeps(blown, k)
      BY <3>2 DEF Pays, Keeps
    <3>5. paid = k
      BY <2>2 DEF k
    <3>6. QED
      BY <1>3, <3>2, <3>3, <3>4, <3>5
  <2>3. QED
    BY <2>1, <2>2
<1> HIDE DEF paid
<1>5. /\ GameOK(gone) /\ SelectedOK(gone, team) /\ Keeps(paid, gone) /\ gone.target = g.target
  BY <1>4, GrenadeGone
<1> HIDE DEF gone
<1>6. /\ GameOK(h) /\ SelectedOK(h, team) /\ Keeps(gone, h) /\ h.target = g.target /\ Truthful(h)
  BY <1>2, <1>5, Refreshes
<1>7. Keeps(g, h)
  BY <1>3, <1>4, <1>5, <1>6 DEF Keeps
<1>8. QED
  BY <1>6, <1>7 DEF UseKeeps, h

\* The ability of the selected character is used.
LEMMA Using ==
  ASSUME NEW g, NEW team, AllOK(g, team), g.selected # NoUnit, g.ability # NoAbility,
         NEW hit \in BOOLEAN
  PROVE  UseKeeps(g, Used(g, hit), team)
<1> DEFINE u == g.selected
<1>1. g.selected \in Units /\ g.ability \in Abilities /\ g.aim \in Tiles \cup {NoTile}
  BY Parts DEF AllOK, GameOK
<1>2. CASE g.ability \in {SNAPSHOT, TRAINED}
  <2>1. Used(g, hit) = Shot(g, g.selected, hit)
    BY <1>2, Zenon DEF Used, SNAPSHOT, TRAINED, OVERWATCH, GRENADE
  <2>2. QED
    BY <1>1, <1>2, <2>1, Shooting
<1>3. CASE g.ability = OVERWATCH
  <2>1. Used(g, hit) = Watching(g, g.selected)
    BY <1>3, Zenon DEF Used, SNAPSHOT, TRAINED, OVERWATCH, GRENADE
  <2>2. QED
    BY <1>1, <2>1, GoingOnOverwatch
<1>4. CASE g.ability = GRENADE /\ g.aim # NoTile
  <2>1. Used(g, hit) = Thrown(g, g.selected)
    BY <1>4, Zenon DEF Used, SNAPSHOT, TRAINED, OVERWATCH, GRENADE
  <2>2. QED
    BY <1>1, <2>1, Throwing
<1>5. CASE g.ability = GRENADE /\ g.aim = NoTile
  <2>1. Used(g, hit) = g
    BY <1>5, Zenon DEF Used, SNAPSHOT, TRAINED, OVERWATCH, GRENADE
  <2>2. QED
    BY <2>1 DEF UseKeeps, AllOK, Keeps
<1>6. QED
  BY <1>1, <1>2, <1>3, <1>4, <1>5 DEF Abilities

\* A target, or none, is selected.
LEMMA Targeting ==
  ASSUME NEW g, NEW team, GameOK(g), SelectedOK(g, team), NEW u \in Units \cup {NoUnit},
         u # NoUnit => g.unit[u].alive /\ teamOf(u) # team
  PROVE  LET h == selectTarget(g, u) IN
         AllOK(h, team) /\ Keeps(g, h) /\ h.unit = g.unit /\ h.selected = g.selected /\ h.target = u
<1> DEFINE k == [g EXCEPT !.target = u]
           h == selectTarget(g, u)
<1>1. g \in GameRec /\ BoardOK(g.unit, g.positionToCharacter)
  BY DEF GameOK
<1>2. /\ k \in GameRec /\ k.unit = g.unit /\ k.positionToCharacter = g.positionToCharacter
      /\ k.selected = g.selected /\ k.target = u
  BY <1>1 DEF GameRec
<1>3. h = Refreshed(k)
  BY DEF selectTarget
<1> HIDE DEF k, h
<1>4. GameOK(k) /\ SelectedOK(k, team) /\ TargetOK(k, team)
  BY <1>1, <1>2 DEF GameOK, SelectedOK, TargetOK
<1>5. /\ GameOK(h) /\ Truthful(h) /\ SelectedOK(h, team) /\ TargetOK(h, team)
      /\ h.unit = k.unit /\ h.selected = k.selected /\ h.target = k.target
  BY <1>3, <1>4, Refreshes
<1>6. QED
  BY <1>2, <1>5 DEF AllOK, Keeps, h

\* What follows use() puts the target right, and with it the button.
LEMMA AfterUsing ==
  ASSUME NEW g, NEW k, NEW team, AllOK(g, team), UseKeeps(g, k, team)
  PROVE  AllOK(AfterUse(k), team) /\ Keeps(g, AfterUse(k))
<1>1. /\ GameOK(k) /\ SelectedOK(k, team) /\ Keeps(g, k) /\ k.target = g.target
      /\ k.target = NoUnit \/ k.unit[k.target].alive => Truthful(k)
  BY DEF UseKeeps
<1>2. CASE k.target = NoUnit \/ ~k.unit[k.target].alive
  <2>1. AfterUse(k) = selectTarget(k, NoUnit)
    BY <1>2 DEF AfterUse
  <2>2. AllOK(selectTarget(k, NoUnit), team) /\ Keeps(k, selectTarget(k, NoUnit))
    BY <1>1, Targeting
  <2>3. QED
    BY <1>1, <2>1, <2>2 DEF Keeps
<1>3. CASE k.target # NoUnit /\ k.unit[k.target].alive
  <2>1. AfterUse(k) = k
    BY <1>3 DEF AfterUse
  <2>2. TargetOK(k, team)
    BY <1>1, <1>3 DEF AllOK, TargetOK
  <2>3. QED
    BY <1>1, <1>3, <2>1, <2>2 DEF AllOK
<1>4. QED
  BY <1>2, <1>3

\* A character, or none, is selected.
LEMMA SelectingUnit ==
  ASSUME NEW g, NEW team, GameOK(g), NEW u \in Units \cup {NoUnit},
         u # NoUnit => g.unit[u].alive /\ teamOf(u) = team
  PROVE  LET h == Selected(g, u) IN
         /\ GameOK(h) /\ Truthful(h) /\ SelectedOK(h, team) /\ Keeps(g, h)
         /\ h.unit = g.unit /\ h.target = g.target /\ h.selected = u
<1> DEFINE k == NowSelected(g, u)
           j == IF k.chosen = Nothing THEN selectAbility(k, u, SNAPSHOT) ELSE k
           h == Selected(g, u)
<1>1. g \in GameRec /\ BoardOK(g.unit, g.positionToCharacter)
  BY DEF GameOK
<1>2. /\ k \in GameRec /\ k.unit = g.unit /\ k.positionToCharacter = g.positionToCharacter
      /\ k.selected = u /\ k.target = g.target /\ k.button = FALSE
  BY <1>1 DEF GameRec, NowSelected
<1>3. h = IF u = NoUnit THEN k ELSE Refreshed(j)
  BY DEF Selected
<1> HIDE DEF k
<1>4. GameOK(k) /\ SelectedOK(k, team)
  BY <1>1, <1>2 DEF GameOK, SelectedOK
<1>5. CASE u = NoUnit
  BY <1>2, <1>3, <1>4, <1>5 DEF Truthful, Keeps
<1>6. CASE u # NoUnit
  <2>1. u \in Units /\ SNAPSHOT \in Abilities
    BY <1>6 DEF Abilities
  <2>2. j = k \/ Shown(k, j)
    BY <1>2, <2>1, Selecting
  <2> HIDE DEF j
  <2>3. /\ GameOK(j) /\ SelectedOK(j, team) /\ j.unit = k.unit /\ j.selected = k.selected
        /\ j.target = k.target
    BY <1>4, <2>2, ShownOK DEF Shown
  <2>4. h = Refreshed(j)
    BY <1>3, <1>6
  <2> HIDE DEF h
  <2>5. /\ GameOK(h) /\ Truthful(h) /\ SelectedOK(h, team)
        /\ h.unit = j.unit /\ h.selected = j.selected /\ h.target = j.target
    BY <2>3, <2>4, Refreshes
  <2>6. QED
    BY <1>2, <2>3, <2>5 DEF Keeps, h
<1>7. QED
  BY <1>5, <1>6

\* A grenade is aimed, or not.
LEMMA Aiming ==
  ASSUME NEW g, NEW team, AllOK(g, team), NEW p \in Tiles
  PROVE  AllOK(Aimed(g, p), team) /\ Keeps(g, Aimed(g, p))
<1> DEFINE k == [g EXCEPT !.aim = p]
<1>1. g \in GameRec /\ BoardOK(g.unit, g.positionToCharacter)
  BY DEF GameOK, AllOK
<1>2. /\ k \in GameRec /\ k.unit = g.unit /\ k.positionToCharacter = g.positionToCharacter
      /\ k.selected = g.selected /\ k.target = g.target /\ k.button = g.button
      /\ k.ability = g.ability
  BY <1>1 DEF GameRec
<1>3. Aimed(g, p) \in {g, k}
  BY DEF Aimed
<1> HIDE DEF k
<1>4. Truthful(k)
  <2>1. usable(k, g.selected, g.ability) = usable(g, g.selected, g.ability)
    BY <1>2, UsableOf
  <2>2. QED
    BY <1>2, <2>1 DEF AllOK, Truthful
<1>5. AllOK(k, team)
  BY <1>1, <1>2, <1>4 DEF AllOK, GameOK, SelectedOK, TargetOK
<1>6. Keeps(g, k) /\ Keeps(g, g)
  BY <1>2 DEF Keeps
<1>7. QED
  BY <1>3, <1>5, <1>6

\* The points of some units are restored, and with them the button of the selected one.
LEMMA Restoring ==
  ASSUME NEW g, NEW team, AllOK(g, team), NEW who \in SUBSET Units, g.selected \in who \cup {NoUnit}
  PROVE  AllOK(Restored(g, who), team) /\ Keeps(g, Restored(g, who))
<1> DEFINE new == [u \in Units |->
                     IF u \in who /\ g.unit[u].alive
                     THEN [g.unit[u] EXCEPT !.ap = 2, !.walked = 0] ELSE g.unit[u]]
           k == [g EXCEPT !.unit = new]
           h == Restored(g, who)
<1>1. /\ g \in GameRec /\ g.unit \in [Units -> UnitRecord \cup {Dead}]
      /\ \A w \in Units : UnitOK(g.unit[w])
      /\ GameOK(g) /\ SelectedOK(g, team) /\ TargetOK(g, team)
  BY Parts DEF AllOK, GameOK, BoardOK
<1>2. h = IF g.selected \in who THEN Refreshed(k) ELSE k
  BY DEF Restored
<1>3. ASSUME NEW w \in Units
      PROVE  /\ new[w] \in UnitRecord \cup {Dead} /\ UnitOK(new[w])
             /\ new[w].alive = g.unit[w].alive /\ new[w].tile = g.unit[w].tile
             /\ new[w].met = g.unit[w].met /\ new[w].overwatch = g.unit[w].overwatch
  <2> DEFINE r == g.unit[w]
  <2>1. CASE w \in who /\ r.alive
    <3>1. PICK ap \in 0 .. 2, walked \in Nat : ap = 2 /\ walked = 0
      OBVIOUS
    <3> DEFINE s == [r EXCEPT !.ap = ap, !.walked = walked]
    <3>2. new[w] = s
      BY <2>1, <3>1
    <3>3. r \in UnitRecord /\ r.health > 0 /\ r.alive
      BY <1>1, <2>1, Living
    <3> HIDE DEF r, new
    <3>4. /\ s \in UnitRecord /\ s.overwatch = r.overwatch /\ s.tile = r.tile /\ s.walked = walked
          /\ s.alive = r.alive /\ s.ap = ap /\ s.health = r.health /\ s.met = r.met
      BY <3>3 DEF UnitRecord
    <3> HIDE DEF s
    <3>5. WalkOK(s.ap, s.walked)
      BY <3>1, <3>4, Names DEF WalkOK
    <3>6. UnitOK(s)
      BY <3>3, <3>4, <3>5 DEF UnitOK
    <3>7. QED
      BY <3>2, <3>4, <3>6 DEF r
  <2>2. CASE ~(w \in who /\ r.alive)
    BY <1>1, <2>2
  <2>3. QED
    BY <2>1, <2>2
<1>4. new \in [Units -> UnitRecord \cup {Dead}]
  <2>1. new = [u \in Units |-> new[u]]
    OBVIOUS
  <2> HIDE DEF new
  <2>2. QED
    BY <1>3, <2>1
<1> HIDE DEF new
<1>5. /\ GameOK(k) /\ k.unit = new /\ k.selected = g.selected /\ k.target = g.target
      /\ SelectedOK(g, team) => SelectedOK(k, team)
      /\ TargetOK(g, team) => TargetOK(k, team)
  BY <1>1, <1>3, <1>4, UnitsChanged
<1> HIDE DEF k, h
<1>6. Keeps(g, k)
  BY <1>3, <1>5 DEF Keeps
<1>7. CASE g.selected \in who
  <2>1. h = Refreshed(k)
    BY <1>2, <1>7
  <2>2. /\ GameOK(h) /\ Truthful(h) /\ Keeps(k, h) /\ SelectedOK(h, team) /\ TargetOK(h, team)
    BY <1>1, <1>5, <2>1, Refreshes
  <2>3. QED
    BY <1>6, <2>2 DEF AllOK, Keeps, h
<1>8. CASE g.selected \notin who
  <2>1. h = k /\ k.selected = NoUnit
    BY <1>2, <1>5, <1>8
  <2>2. QED
    BY <1>1, <1>5, <1>6, <2>1 DEF AllOK, Truthful, h
<1>9. QED
  BY <1>7, <1>8

\* At the switch, nothing is selected, and only the overwatch of the team whose turn
\* begins is lost.
LEMMA Switching ==
  ASSUME IInv, SwitchTeam
  PROVE  /\ playerTeam' \in {"Player", "Alien"} /\ playerTeam' # playerTeam
         /\ AllOK(game', playerTeam')
         /\ \A u \in Units : game.unit[u].overwatch /\ ~game'.unit[u].overwatch =>
              teamOf(u) = playerTeam'
<1> DEFINE g == selectTarget(Selected(game, NoUnit), NoUnit)
           new == [u \in Units |-> [game.unit[u] EXCEPT
                     !.overwatch = @ /\ ~(game.unit[u].alive /\ teamOf(u) = playerTeam')]]
<1>1. /\ game \in GameRec /\ game.unit \in [Units -> UnitRecord \cup {Dead}]
      /\ \A w \in Units : UnitOK(game.unit[w])
      /\ GameOK(game)
  BY Parts DEF IInv, AllOK, GameOK, BoardOK
<1>2. playerTeam' \in {"Player", "Alien"} /\ playerTeam' # playerTeam
  BY DEF IInv, SwitchTeam
<1>3. /\ GameOK(Selected(game, NoUnit)) /\ Selected(game, NoUnit).unit = game.unit
      /\ Selected(game, NoUnit).selected = NoUnit
      /\ SelectedOK(Selected(game, NoUnit), playerTeam)
  BY <1>1, SelectingUnit
<1>4. AllOK(g, playerTeam) /\ g.unit = game.unit /\ g.selected = NoUnit /\ g.target = NoUnit
  BY <1>3, Targeting
<1>5. game' = [g EXCEPT !.unit = new]
  <2>1. game' = [g EXCEPT !.unit = [u \in Units |-> [g.unit[u] EXCEPT
                     !.overwatch = @ /\ ~(game.unit[u].alive /\ teamOf(u) = playerTeam')]]]
    BY DEF SwitchTeam
  <2> HIDE DEF g
  <2>2. QED
    BY <1>4, <2>1
<1> HIDE DEF g
<1>6. ASSUME NEW w \in Units
      PROVE  /\ new[w] \in UnitRecord \cup {Dead} /\ UnitOK(new[w])
             /\ new[w].alive = game.unit[w].alive /\ new[w].tile = game.unit[w].tile
             /\ new[w].met = game.unit[w].met
             /\ game.unit[w].overwatch /\ ~new[w].overwatch => teamOf(w) = playerTeam'
  <2> DEFINE r == game.unit[w]
  <2>1. PICK b \in BOOLEAN : b <=> r.overwatch /\ ~(r.alive /\ teamOf(w) = playerTeam')
    OBVIOUS
  <2> DEFINE s == [r EXCEPT !.overwatch = b]
  <2>2. r.overwatch \in BOOLEAN
    <3>1. r \in UnitRecord \cup {Dead}
      BY <1>1
    <3> HIDE DEF r
    <3>2. r \in UnitRecord => r.overwatch \in BOOLEAN
      BY DEF UnitRecord
    <3>3. Dead.overwatch = FALSE
      BY DEF Dead
    <3>4. QED
      BY <3>1, <3>2, <3>3
  <2>3. new[w] = s
    BY <2>1, <2>2
  <2> HIDE DEF r, new
  <2>4. CASE r.alive
    <3>1. r \in UnitRecord /\ r.health > 0 /\ WalkOK(r.ap, r.walked)
      BY <1>1, <2>4, Living DEF r
    <3>2. /\ s \in UnitRecord /\ s.overwatch = b /\ s.tile = r.tile
          /\ s.walked = r.walked /\ s.alive = r.alive /\ s.ap = r.ap /\ s.health = r.health
          /\ s.met = r.met
      BY <3>1 DEF UnitRecord
    <3> HIDE DEF s
    <3>3. UnitOK(s)
      BY <2>4, <3>1, <3>2 DEF UnitOK
    <3>4. QED
      BY <2>1, <2>3, <3>2, <3>3 DEF r
  <2>5. CASE ~r.alive
    <3>1. r = Dead
      BY <1>1, <2>5, Dying DEF r
    <3>2. Dead = [f \in DOMAIN Dead |-> Dead[f]] /\ Dead.overwatch = FALSE
      BY DEF Dead
    <3>3. b = FALSE
      BY <2>1, <3>1, <3>2
    <3>4. s = [f \in DOMAIN Dead |-> IF f = "overwatch" THEN FALSE ELSE Dead[f]]
      BY <3>1, <3>2, <3>3
    <3>5. \A f \in DOMAIN Dead : Dead[f] = IF f = "overwatch" THEN FALSE ELSE Dead[f]
      BY <3>2
    <3>6. s = Dead
      BY <3>2, <3>4, <3>5
    <3>7. QED
      BY <2>3, <3>1, <3>6, Dying DEF r
  <2>6. QED
    BY <2>4, <2>5
<1>7. new \in [Units -> UnitRecord \cup {Dead}]
  <2>1. new = [u \in Units |-> new[u]]
    OBVIOUS
  <2> HIDE DEF new
  <2>2. QED
    BY <1>6, <2>1
<1> HIDE DEF new
<1>8. /\ GameOK(game') /\ game'.unit = new /\ game'.selected = NoUnit /\ game'.target = NoUnit
  <2> DEFINE k == [g EXCEPT !.unit = new]
  <2>1. GameOK(g)
    BY <1>4 DEF AllOK
  <2>2. GameOK(k) /\ k.unit = new /\ k.selected = g.selected /\ k.target = g.target
    BY <1>4, <1>6, <1>7, <2>1, UnitsChanged
  <2>3. QED
    BY <1>5, <1>4, <2>2
<1>9. AllOK(game', playerTeam')
  BY <1>8 DEF AllOK, SelectedOK, TargetOK, Truthful
<1>10. QED
  BY <1>2, <1>6, <1>8, <1>9

-----------------------------------------------------------------------------
(* The invariant, and the theorems. *)

\* Init meets it: no two units start on one tile.
LEMMA InitIInv == Init => IInv
<1> SUFFICES ASSUME Init PROVE IInv
  OBVIOUS
<1>1. /\ \A u, v \in Units : u # v => Start[u] # Start[v]
      /\ Start \in [Units -> Tiles] /\ MaxHealth \in Nat \ {0} /\ NoUnit \notin Units
  BY BattleAssumption
<1>2. ASSUME NEW u \in Units
      PROVE  /\ game.unit[u] \in UnitRecord /\ UnitOK(game.unit[u]) /\ game.unit[u].alive
             /\ game.unit[u].tile = Start[u] /\ ~game.unit[u].met
  <2> DEFINE r == [alive |-> TRUE, tile |-> Start[u], health |-> MaxHealth, ap |-> 2,
                   overwatch |-> FALSE, grenade |-> TRUE, walked |-> 0, met |-> FALSE]
  <2>1. game.unit[u] = r
    BY DEF Init
  <2>2. r \in UnitRecord
    BY <1>1 DEF UnitRecord
  <2>3. UnitOK(r)
    BY <1>1, <2>2, Names DEF UnitOK, WalkOK
  <2>4. QED
    BY <2>1, <2>2, <2>3
<1>3. \A p \in Tiles : game.positionToCharacter[p] \in Units \cup {NoUnit} /\
        IF \E u \in Units : Start[u] = p
        THEN game.positionToCharacter[p] \in Units /\ Start[game.positionToCharacter[p]] = p
        ELSE game.positionToCharacter[p] = NoUnit
  BY DEF Init
<1>4. /\ game.unit \in [Units -> UnitRecord \cup {Dead}]
      /\ game.positionToCharacter \in [Tiles -> Units \cup {NoUnit}]
  <2>1. game.unit = [u \in Units |-> game.unit[u]]
    BY DEF Init
  <2>2. game.positionToCharacter = [p \in Tiles |-> game.positionToCharacter[p]]
    BY DEF Init
  <2>3. QED
    BY <1>2, <1>3, <2>1, <2>2
<1>5. game \in GameRec
  <2>1. game = [unit |-> game.unit, positionToCharacter |-> game.positionToCharacter,
                selected |-> NoUnit, target |-> NoUnit, chosen |-> Nothing,
                ability |-> NoAbility, button |-> FALSE, aim |-> NoTile]
    BY DEF Init
  <2>2. Nothing \in [owner : Units \cup {NoUnit}, name : Abilities \cup {NoAbility}]
    BY DEF Nothing
  <2>3. \A unit \in [Units -> UnitRecord \cup {Dead}], map \in [Tiles -> Units \cup {NoUnit}] :
          [unit |-> unit, positionToCharacter |-> map, selected |-> NoUnit, target |-> NoUnit,
           chosen |-> Nothing, ability |-> NoAbility, button |-> FALSE, aim |-> NoTile] \in GameRec
    BY <2>2 DEF GameRec
  <2>4. QED
    BY <1>4, <2>1, <2>3
<1>6. BoardOK(game.unit, game.positionToCharacter)
  <2>1. \A p \in Tiles : game.positionToCharacter[p] # NoUnit =>
          /\ game.unit[game.positionToCharacter[p]].alive
          /\ game.unit[game.positionToCharacter[p]].tile = p
    BY <1>2, <1>3
  <2>2. \A u \in Units : game.positionToCharacter[game.unit[u].tile] = u
    BY <1>1, <1>2, <1>3
  <2>3. \A u, v \in Units : u # v => game.unit[u].tile # game.unit[v].tile
    BY <1>1, <1>2
  <2>4. QED
    BY <1>2, <2>1, <2>2, <2>3 DEF BoardOK
<1>7. game.selected = NoUnit /\ game.target = NoUnit /\ playerTeam = "Player"
  BY DEF Init
<1>8. QED
  BY <1>5, <1>6, <1>7 DEF IInv, AllOK, GameOK, SelectedOK, TargetOK, Truthful

\* How overwatch is lost: OverwatchLostTo of Battle, of one unit.
Lost(u) ==
  game.unit[u].overwatch /\ game'.unit[u].alive /\ ~game'.unit[u].overwatch =>
    \/ playerTeam' # playerTeam /\ teamOf(u) = playerTeam'
    \/ teamOf(u) # playerTeam
    \/ teamOf(u) = "Alien" /\ game.selected # NoUnit /\ ~game'.unit[game.selected].alive

\* Every step keeps the invariant, and takes overwatch for its causes only.
LEMMA Step ==
  ASSUME IInv, [Next]_vars
  PROVE  IInv' /\ \A u \in Units : Lost(u)
<1>1. AllOK(game, playerTeam) /\ playerTeam \in {"Player", "Alien"}
  BY DEF IInv
<1>2. /\ GameOK(game) /\ SelectedOK(game, playerTeam) /\ TargetOK(game, playerTeam)
      /\ game \in GameRec /\ BoardOK(game.unit, game.positionToCharacter)
      /\ game.selected \in Units \cup {NoUnit}
  BY <1>1, Parts DEF AllOK, GameOK
<1>3. SUFFICES \/ UNCHANGED playerTeam /\ AllOK(game', playerTeam) /\ \A u \in Units : Lost(u)
               \/ SwitchTeam
  <2>1. CASE SwitchTeam
    BY <2>1, Switching DEF IInv, Lost
  <2>2. CASE UNCHANGED playerTeam /\ AllOK(game', playerTeam) /\ \A u \in Units : Lost(u)
    BY <1>1, <2>2 DEF IInv
  <2>3. QED
    BY <1>3, <2>1, <2>2
<1>4. Keeps(game, game') => \A u \in Units : Lost(u)
  BY DEF Keeps, Lost
<1>5. ASSUME NEW p \in Tiles, NEW hits, game.selected # NoUnit,
             game' = Moved(game, game.selected, p, hits)
      PROVE  AllOK(game', playerTeam) /\ \A u \in Units : Lost(u)
  <2>1. game.selected \in Units
    BY <1>2, <1>5
  <2>2. /\ AllOK(game', playerTeam)
        /\ \A w \in Units : game.unit[w].overwatch /\ game'.unit[w].alive /\ ~game'.unit[w].overwatch =>
             teamOf(w) # playerTeam \/ (teamOf(w) = "Alien" /\ ~game'.unit[game.selected].alive)
    BY <1>1, <1>5, <2>1, Moving
  <2>3. QED
    BY <1>5, <2>2 DEF Lost
<1>6. ASSUME NEW hit \in BOOLEAN, game.selected # NoUnit, game.ability # NoAbility,
             game' = AfterUse(Used(game, hit))
      PROVE  AllOK(game', playerTeam) /\ \A u \in Units : Lost(u)
  <2>1. UseKeeps(game, Used(game, hit), playerTeam)
    BY <1>1, <1>6, Using
  <2>2. AllOK(game', playerTeam) /\ Keeps(game, game')
    BY <1>1, <1>6, <2>1, AfterUsing
  <2>3. QED
    BY <1>4, <2>2
<1>7. ASSUME NEW p \in Tiles, ClickTile(p)
      PROVE  AllOK(game', playerTeam) /\ \A u \in Units : Lost(u)
  <2> DEFINE u == game.positionToCharacter[p]
  <2>1. u \in Units \cup {NoUnit} /\ (u # NoUnit => game.unit[u].alive)
    BY <1>2, Parts DEF BoardOK
  <2>2. CASE u = NoUnit
    BY <1>1, <1>4, <1>7, <2>2, Aiming DEF ClickTile
  <2>3. CASE u # NoUnit /\ teamOf(u) = playerTeam
    <3>1. game' = Selected(game, u)
      BY <1>7, <2>3 DEF ClickTile
    <3> HIDE DEF u
    <3>2. /\ GameOK(game') /\ Truthful(game') /\ SelectedOK(game', playerTeam) /\ Keeps(game, game')
          /\ game'.unit = game.unit /\ game'.target = game.target
      BY <1>2, <2>1, <2>3, <3>1, SelectingUnit
    <3>3. QED
      BY <1>2, <1>4, <3>2 DEF AllOK, TargetOK
  <2>4. CASE u # NoUnit /\ teamOf(u) # playerTeam
    <3> DEFINE k == selectTarget(game, u)
    <3>1. game' = Aimed(k, p)
      BY <1>7, <2>4 DEF ClickTile
    <3> HIDE DEF u
    <3>2. AllOK(k, playerTeam) /\ Keeps(game, k)
      BY <1>2, <2>1, <2>4, Targeting
    <3> HIDE DEF k
    <3>3. AllOK(game', playerTeam) /\ Keeps(k, game')
      BY <3>1, <3>2, Aiming
    <3>4. Keeps(game, game')
      BY <3>2, <3>3 DEF Keeps
    <3>5. QED
      BY <1>4, <3>3, <3>4
  <2>5. QED
    BY <2>2, <2>3, <2>4
<1>8. ASSUME NEW p \in Tiles, NEW hits, GamepadPressTile(p, hits)
      PROVE  AllOK(game', playerTeam) /\ \A u \in Units : Lost(u)
  <2>1. CASE game' = Aimed(game, p)
    BY <1>1, <1>4, <2>1, Aiming
  <2>2. CASE game' = Moved(game, game.selected, p, hits)
    BY <1>5, <1>8, <2>2 DEF GamepadPressTile
  <2>3. QED
    BY <1>8, <2>1, <2>2 DEF GamepadPressTile
<1>9. ASSUME NEW a \in Abilities, ChooseAbility(a)
      PROVE  AllOK(game', playerTeam) /\ \A u \in Units : Lost(u)
  <2>1. game.selected \in Units /\ game' = selectAbility(game, game.selected, a)
    BY <1>2, <1>9 DEF ChooseAbility
  <2>2. /\ Shown(game, game') /\ game'.ability = a
        /\ game'.button = usable(game, game.selected, a)
    BY <1>2, <2>1, Selecting
  <2>3. Truthful(game')
    <3>1. usable(game', game'.selected, a) = usable(game, game.selected, a)
      BY <2>2, UsableOf DEF Shown
    <3>2. QED
      BY <2>2, <3>1, Names DEF Truthful
  <2>4. Keeps(game, game')
    BY <2>2 DEF Shown, Keeps
  <2>5. QED
    BY <1>2, <1>4, <2>2, <2>3, <2>4, ShownOK DEF AllOK
<1>10. ASSUME NEW u \in Units \cup {NoUnit}, SelectCharacter(u)
       PROVE  AllOK(game', playerTeam) /\ \A v \in Units : Lost(v)
  <2>1. game' = Selected(game, u) /\ (u # NoUnit => game.unit[u].alive /\ teamOf(u) = playerTeam)
    BY <1>10 DEF SelectCharacter
  <2>2. /\ GameOK(game') /\ Truthful(game') /\ SelectedOK(game', playerTeam) /\ Keeps(game, game')
        /\ game'.unit = game.unit /\ game'.target = game.target
    BY <1>2, <2>1, SelectingUnit
  <2>3. QED
    BY <1>2, <1>4, <2>2 DEF AllOK, TargetOK
<1>11. ASSUME NEW u \in Units \cup {NoUnit}, TargetEnemy(u)
       PROVE  AllOK(game', playerTeam) /\ \A v \in Units : Lost(v)
  <2>1. game' = selectTarget(game, u) /\ (u # NoUnit => game.unit[u].alive /\ teamOf(u) # playerTeam)
    BY <1>11 DEF TargetEnemy
  <2>2. AllOK(game', playerTeam) /\ Keeps(game, game')
    BY <1>2, <2>1, Targeting
  <2>3. QED
    BY <1>4, <2>2
<1>12. ASSUME EndTurn \/ ResetUnitAP
       PROVE  AllOK(game', playerTeam) /\ \A u \in Units : Lost(u)
  <2>1. PICK who \in SUBSET Units :
          game.selected \in who \cup {NoUnit} /\ game' = Restored(game, who)
    BY <1>2, <1>12 DEF EndTurn, ResetUnitAP
  <2>2. AllOK(game', playerTeam) /\ Keeps(game, game')
    BY <1>1, <2>1, Restoring
  <2>3. QED
    BY <1>4, <2>2
<1>13. CASE UNCHANGED vars
  BY <1>1, <1>13 DEF vars, Lost
<1>14. CASE Next
  <2>1. CASE \E p \in Tiles : ClickTile(p)
    BY <1>7, <2>1 DEF ClickTile
  <2>2. CASE \E p \in Tiles, hits \in SUBSET OnOverwatch : RightClickTile(p, hits)
    BY <1>5, <2>2 DEF RightClickTile
  <2>3. CASE \E p \in Tiles, hits \in SUBSET OnOverwatch : GamepadPressTile(p, hits)
    BY <1>8, <2>3 DEF GamepadPressTile
  <2>4. CASE \E hit \in BOOLEAN : UseByButton(hit)
    BY <1>6, <2>4 DEF UseByButton
  <2>5. CASE \E hit \in BOOLEAN : UseByGamepad(hit)
    BY <1>6, <2>5 DEF UseByGamepad
  <2>6. CASE \E a \in Abilities : ChooseAbility(a)
    BY <1>9, <2>6 DEF ChooseAbility
  <2>7. CASE \E u \in Units \cup {NoUnit} : SelectCharacter(u)
    BY <1>10, <2>7 DEF SelectCharacter
  <2>8. CASE \E u \in Units \cup {NoUnit} : TargetEnemy(u)
    BY <1>11, <2>8 DEF TargetEnemy
  <2>9. CASE EndTurn \/ ResetUnitAP
    BY <1>12, <2>9 DEF EndTurn, ResetUnitAP
  <2>10. CASE SwitchTeam
    BY <2>10
  <2>11. QED
    BY <1>14, <2>1, <2>2, <2>3, <2>4, <2>5, <2>6, <2>7, <2>8, <2>9, <2>10 DEF Next
<1>15. QED
  BY <1>13, <1>14

\* The invariant, of every state.
LEMMA SpecIInv == Spec => []IInv
<1>1. IInv /\ [Next]_vars => IInv'
  BY Step
<1>2. QED
  BY InitIInv, <1>1, PTL DEF Spec

\* No entry of the map of positions is of a dead unit or of one that is elsewhere, and
\* none that has stood alone is missing, for any board, teams, damage and inputs.
THEOREM BattleMapConsistent == Spec => []MapConsistent
<1>1. IInv => MapConsistent
  <2> SUFFICES ASSUME IInv PROVE MapConsistent
    OBVIOUS
  <2>1. game \in GameRec /\ BoardOK(game.unit, game.positionToCharacter) /\ playerTeam \in {"Player", "Alien"}
    BY DEF IInv, AllOK, GameOK
  <2>2. MapAgrees
    BY <2>1 DEF BoardOK, MapAgrees
  <2>3. \A u \in Units : game.unit[u].alive <=> game.unit[u].health > 0
    <3>1. ASSUME NEW u \in Units PROVE game.unit[u].alive <=> game.unit[u].health > 0
      BY <2>1, Living, Dying DEF BoardOK
    <3>2. QED
      BY <3>1
  <2>4. TypeOK
    BY <2>1, <2>3, Parts DEF TypeOK
  <2>5. QED
    BY <2>2, <2>4 DEF MapConsistent
<1>2. QED
  BY <1>1, SpecIInv, PTL

\* Whoever dies of a shot, a grenade or overwatch, the selected character is alive and of
\* the team whose turn it is, and the target alive and of the other.
THEOREM SelectionsAlwaysValid == Spec => []SelectionsValid
<1>1. IInv => SelectionsValid
  BY DEF IInv, AllOK, SelectedOK, TargetOK, SelectionsValid
<1>2. QED
  BY <1>1, SpecIInv, PTL

\* The button that uses an ability can be pressed only while the ability is usable.
THEOREM ButtonAlwaysTruthful == Spec => []ButtonTruthful
<1>1. IInv => ButtonTruthful
  BY DEF IInv, AllOK, Truthful, ButtonTruthful
<1>2. QED
  BY <1>1, SpecIInv, PTL

\* Whatever a unit spends its points on, it walks no further than one sprint.
THEOREM NoneWalksTooFar == Spec => []WalkedWithinSprint
<1>1. IInv => WalkedWithinSprint
  <2> SUFFICES ASSUME IInv, NEW u \in Units PROVE game.unit[u].walked <= MaxSprint
    BY DEF WalkedWithinSprint
  <2>1. UnitOK(game.unit[u])
    BY DEF IInv, AllOK, GameOK, BoardOK
  <2>2. CASE game.unit[u].alive
    BY <2>1, <2>2, Living DEF WalkOK
  <2>3. CASE ~game.unit[u].alive
    BY <2>1, <2>3, Dying, Names
  <2>4. QED
    BY <2>2, <2>3
<1>2. QED
  BY <1>1, SpecIInv, PTL

\* Overwatch is lost at the start of one's turn, to an enemy that moves, or for the death
\* of one of the second team's own: the recursion over the teams, of whatever size.
THEOREM OverwatchLostForCause == Spec => OverwatchLostTo
<1>1. IInv /\ [Next]_vars => \A u \in Units : Lost(u)
  BY Step
<1>2. IInv /\ [Next]_vars => [\A u \in Units : Lost(u)]_vars
  BY <1>1
<1>3. QED
  BY <1>2, SpecIInv, PTL DEF Spec, OverwatchLostTo, Lost
=============================================================================
