---------------------------- MODULE PlayersProofs ----------------------------
(* What holds for all instances of what players see, trade and earn: the     *)
(* client shows the world as it is, the trader is fair, and so is Ruby.      *)
EXTENDS ClientMirror, Trades, Ruby, FiniteSetTheorems, WellFoundedInduction, TLAPS

-----------------------------------------------------------------------------
(* What the client shows: the map.                                           *)

Pictures == [sight : BOOLEAN, char : Figures \cup {NoFigure}, does : {"fresh", "idle", "walk"},
             health : 0 .. 1, thing : BOOLEAN]

ViewTypes ==
    /\ place \in [Figures -> Tiles \cup {0}] /\ place[Viewer] \in Tiles
    /\ place[Viewer] # place[Other]
    /\ doing \in [Figures -> {"fresh", "idle", "walk"}]
    /\ health \in 0 .. 1 /\ thing \in BOOLEAN
    /\ todo \subseteq {c \in Figures : OnMap(c)}
    /\ phase \in {"chars", "sent"} /\ (phase = "sent" => todo = {})
    /\ cmap \in [Cells -> Pictures]
    /\ known \in {0, bearer}

\* A cell is as the world is; the other goes by his name there.
TrueCell(k) ==
    /\ cmap[k] = Picture(cmap[k], TileOf(k))
    /\ (OnMap(Other) /\ TileOf(k) = place[Other] /\ cmap[k].sight) => known = bearer

\* The sending of this tick will look at it, or overlook it: the viewer has moved, its
\* tile is marked, the door has changed what is beyond it, or who has just come there has
\* not had his first turn, which marks it.
WillLook(k) ==
    \/ origin # place[Viewer] \/ TileOf(k) \in marked
    \/ losReset /\ BeyondDoor(TileOf(k))
    \/ Other \in todo /\ doing[Other] = "fresh" /\ TileOf(k) = place[Other]

ViewSafe ==
    /\ ViewTypes
    /\ Viewer \in todo => origin \in {0, place[Viewer]}
    /\ \A k \in Cells \ overlooked : (phase = "sent" \/ ~WillLook(k)) => TrueCell(k)
    /\ phase = "sent" => origin = place[Viewer]

\* One of two figures on two tiles is found by his tile.
LEMMA FoundByTile ==
    ASSUME NEW at \in [Figures -> Tiles \cup {0}], at[Viewer] # at[Other], NEW c \in Figures
    PROVE  (CHOOSE d \in Figures : at[d] = at[c]) = c
<1>1. \A d \in Figures : at[d] = at[c] => d = c
  BY DEF Figures
<1> QED
  BY <1>1

\* Who stands on a tile.
LEMMA Standing ==
    ASSUME ViewTypes
    PROVE  /\ \A c \in Figures : At(place[c]) = c /\ Occupied(place[c])
           /\ \A t : Occupied(t) <=> t = place[Viewer] \/ t = place[Other]
<1>1. Figures = {Viewer, Other}
  BY DEF Figures
<1>2. ASSUME NEW c \in Figures PROVE At(place[c]) = c
  BY FoundByTile DEF At, ViewTypes
<1> QED
  BY <1>1, <1>2 DEF Occupied

\* A picture is a picture, and looking again at what has not changed changes nothing.
LEMMA PictureTwice ==
    ASSUME ViewTypes, NEW old \in Pictures, NEW t
    PROVE  /\ Picture(old, t) \in Pictures
           /\ Picture(Picture(old, t), t) = Picture(old, t)
           /\ Picture(old, t).sight = InSight(t)
<1> DEFINE lying == ThingAt(t)
           bare == [sight |-> TRUE, thing |-> lying, char |-> NoFigure, does |-> "idle", health |-> 0]
           seen == [sight |-> TRUE, thing |-> lying, char |-> At(t), does |-> doing[At(t)],
                    health |-> IF At(t) = Other THEN health ELSE 1]
           hidden == [old EXCEPT !.sight = FALSE]
<1>0. Picture(old, t) = (IF ~InSight(t) THEN hidden ELSE IF ~Occupied(t) THEN bare ELSE seen)
  BY DEF Picture
<1>1. Occupied(t) => At(t) \in Figures
  <2>1. Occupied(t) => t = place[Viewer] \/ t = place[Other]
    BY Standing
  <2> QED
    BY <2>1, Standing DEF Figures
<1>2. Occupied(t) => doing[At(t)] \in {"fresh", "idle", "walk"}
  BY <1>1 DEF ViewTypes
<1>3. lying \in BOOLEAN /\ InSight(t) \in BOOLEAN
  BY DEF InSight, ThingAt, ViewTypes
<1>4. ASSUME ~InSight(t) PROVE Picture(hidden, t) = [hidden EXCEPT !.sight = FALSE]
  BY <1>4 DEF Picture
<1>5. ASSUME InSight(t), NEW p PROVE Picture(p, t) = IF ~Occupied(t) THEN bare ELSE seen
  BY <1>5 DEF Picture
<1> HIDE DEF lying
<1>6. bare \in Pictures /\ bare.sight = TRUE
  BY <1>3 DEF Pictures
<1>7. hidden \in Pictures /\ hidden.sight = FALSE /\ [hidden EXCEPT !.sight = FALSE] = hidden
  BY DEF Pictures
<1>8. seen.sight = TRUE /\ (Occupied(t) => seen \in Pictures)
  BY <1>1, <1>2, <1>3 DEF Pictures, ViewTypes
<1> HIDE DEF bare, seen, hidden
<1>9. CASE ~InSight(t)
  BY <1>0, <1>3, <1>4, <1>7, <1>9
<1>10. CASE InSight(t)
  BY <1>0, <1>3, <1>5, <1>6, <1>8, <1>10
<1> QED
  BY <1>9, <1>10


\* A cell whose scene is the same gets the same picture.
LEMMA SamePicture ==
    ASSUME ViewTypes, ViewTypes', NEW k \in Cells, cmap' = cmap,
           place'[Viewer] = place[Viewer],
           TileOf(k) \in Tiles => (place'[Other] = TileOf(k) <=> place[Other] = TileOf(k)),
           InSight(TileOf(k))' <=> InSight(TileOf(k)),
           TileOf(k) = place[Viewer] => doing'[Viewer] = doing[Viewer],
           TileOf(k) \in Tiles /\ TileOf(k) = place[Other] => doing'[Other] = doing[Other] /\ health' = health,
           TileOf(k) = LampTile => thing' = thing
    PROVE  TileOf(k)' = TileOf(k) /\ Picture(cmap[k], TileOf(k))' = Picture(cmap[k], TileOf(k))
<1> DEFINE t == TileOf(k)
<1>1. TileOf(k)' = t
  BY DEF TileOf
<1>2. Figures = {Viewer, Other}
  BY DEF Figures
<1>3. Occupied(t) <=> t = place[Viewer] \/ t = place[Other]
  BY Standing
<1>4. t \in Tiles => ((Occupied(t))' <=> Occupied(t))
  <2>1. (Occupied(t))' <=> \E c \in Figures : place'[c] = t
    BY <1>1 DEF Occupied
  <2> QED
    BY <1>2, <1>3, <2>1
<1>5. t \in Tiles /\ Occupied(t) => At(t)' = At(t) /\ doing'[At(t)] = doing[At(t)] /\ (At(t) = Other => health' = health)
  <2>1. At(t)' = CHOOSE d \in Figures : place'[d] = t
    BY <1>1 DEF At
  <2>2. CASE t = place[Viewer]
    <3>1. (CHOOSE d \in Figures : place'[d] = place'[Viewer]) = Viewer
      BY <1>2, FoundByTile DEF ViewTypes
    <3>2. At(t) = Viewer /\ Viewer # Other
      BY <1>2, <2>2, Standing DEF Viewer, Other
    <3> QED
      BY <2>1, <2>2, <3>1, <3>2
  <2>3. CASE t = place[Other]
    <3>1. (CHOOSE d \in Figures : place'[d] = place'[Other]) = Other
      BY <1>2, FoundByTile DEF ViewTypes
    <3>2. At(t) = Other /\ (t \in Tiles => place'[Other] = t)
      BY <1>2, <2>3, Standing
    <3> QED
      BY <2>1, <2>3, <3>1, <3>2
  <2> QED
    BY <1>3, <2>2, <2>3
<1>6. ThingAt(t)' = ThingAt(t)
  BY <1>1 DEF ThingAt
<1>7. Picture(cmap[k], t)' = Picture(cmap[k], t)
  <2>1. (InSight(t)' <=> InSight(t)) /\ (InSight(t) => t \in Tiles)
    BY <1>1 DEF InSight
  <2> HIDE DEF t
  <2>2. CASE t \in Tiles
    BY <1>4, <1>5, <1>6, <2>1, <2>2 DEF Picture
  <2>3. CASE t \notin Tiles
    BY <2>1, <2>3 DEF Picture
  <2> QED
    BY <2>2, <2>3
<1> QED
  BY <1>1, <1>7

\* A cell whose scene is the same is as true as before.
LEMMA SameScene ==
    ASSUME ViewTypes, ViewTypes', NEW k \in Cells, UNCHANGED <<cmap, known, bearer>>,
           place'[Viewer] = place[Viewer],
           TileOf(k) \in Tiles => (place'[Other] = TileOf(k) <=> place[Other] = TileOf(k)),
           InSight(TileOf(k))' <=> InSight(TileOf(k)),
           TileOf(k) = place[Viewer] => doing'[Viewer] = doing[Viewer],
           TileOf(k) \in Tiles /\ TileOf(k) = place[Other] => doing'[Other] = doing[Other] /\ health' = health,
           TileOf(k) = LampTile => thing' = thing,
           TrueCell(k)
    PROVE  TrueCell(k)'
<1>1. TileOf(k)' = TileOf(k) /\ Picture(cmap[k], TileOf(k))' = Picture(cmap[k], TileOf(k))
  BY SamePicture
<1>2. OnMap(Other)' /\ TileOf(k) = place'[Other] => OnMap(Other) /\ TileOf(k) = place[Other]
  <2>1. place'[Other] \in Tiles \cup {0}
    BY DEF ViewTypes, Figures
  <2> QED
    BY <2>1, RowOfTiles DEF OnMap
<1> QED
  BY <1>1, <1>2 DEF TrueCell

\* Nothing but the turns of the tick goes on.
LEMMA MidActionView ==
    ASSUME ViewSafe, NEW c \in Figures, MidAction(c) PROVE ViewSafe'
<1>1. /\ todo' = todo \ {c} /\ doing[c] # "fresh" /\ phase = "chars"
      /\ UNCHANGED <<place, doing, health, bearer, doorShut, lampLit, thing, marked, losReset, phase, cmap, origin, known, overlooked>>
  BY DEF MidAction, Turn, sceneVars, clientVars
<1>2. ViewTypes'
  BY <1>1 DEF ViewSafe, ViewTypes, OnMap
<1>3. ASSUME NEW k \in Cells \ overlooked, ~WillLook(k)' PROVE TrueCell(k)'
  <2>1. ~WillLook(k)
    BY <1>1, <1>3 DEF WillLook, BeyondDoor, TileOf
  <2>2. TrueCell(k)
    BY <2>1 DEF ViewSafe
  <2>3. UNCHANGED <<place, doing, health, bearer, doorShut, lampLit, thing, cmap, known>>
    BY <1>1
  <2>4. InSight(TileOf(k))' <=> InSight(TileOf(k))
    BY <2>3 DEF InSight, TileOf, fast_los
  <2> QED
    BY <1>2, <2>2, <2>3, <2>4, SameScene DEF ViewSafe
<1> QED
  BY <1>1, <1>2, <1>3 DEF ViewSafe

\* A turn moves a figure, or marks it, or leaves it idle as it was.
LEMMA TurnView ==
    ASSUME ViewSafe, NEW c \in Figures, tick_char(c) PROVE ViewSafe'
<1>0. PICK t \in Tiles, action \in {"idle", "walk"}, regenerated \in 0 .. 1 :
        /\ StepTo(c, t) \/ t = place[c]
        /\ regenerated = 1 => c = Other /\ health = 0
        /\ place' = [place EXCEPT ![c] = t]
        /\ doing' = [doing EXCEPT ![c] = action]
        /\ health' = health + regenerated
        /\ marked' = marked
                \cup {u \in {place[c], t} : t # place[c]}
                \cup {u \in {t} : MarksItself(doing[c], action, regenerated = 1)}
  BY DEF tick_char
<1>1. /\ todo' = todo \ {c} /\ phase = "chars" /\ c \in todo /\ (c = Viewer => Other \notin todo)
      /\ UNCHANGED <<bearer, doorShut, lampLit, thing, losReset, phase, cmap, origin, known, overlooked>>
  BY DEF tick_char, Turn, sceneVars, clientVars
<1>2. Figures = {Viewer, Other} /\ Viewer # Other /\ \A u \in Tiles : u # 0
  BY RowOfTiles DEF Figures, Viewer, Other
<1>3. place \in [Figures -> Tiles \cup {0}] /\ doing \in [Figures -> {"fresh", "idle", "walk"}] /\ place[c] # 0
  BY <1>1 DEF ViewSafe, ViewTypes, OnMap
<1>4. t # place[c] => \A d \in Figures : place[d] # t
  BY <1>0 DEF StepTo, Occupied
<1>5. place'[c] = t /\ doing'[c] = action /\ \A d \in Figures \ {c} : place'[d] = place[d] /\ doing'[d] = doing[d]
  BY <1>0, <1>3
<1>6. ViewTypes'
  <2>1. health' \in 0 .. 1
    BY <1>0 DEF ViewSafe, ViewTypes
  <2>2. place'[Viewer] \in Tiles /\ place'[Viewer] # place'[Other]
    BY <1>2, <1>3, <1>4, <1>5 DEF ViewSafe, ViewTypes
  <2>3. todo' \subseteq {d \in Figures : OnMap(d)'}
    BY <1>1, <1>2, <1>5 DEF ViewSafe, ViewTypes, OnMap
  <2> QED
    BY <1>0, <1>1, <2>1, <2>2, <2>3 DEF ViewSafe, ViewTypes
<1>7. marked \subseteq marked' /\ (t # place[c] => {place[c], t} \subseteq marked')
      /\ (MarksItself(doing[c], action, regenerated = 1) => t \in marked')
  BY <1>0
<1>8. Viewer \in todo' => origin' \in {0, place'[Viewer]}
  BY <1>1, <1>2, <1>5 DEF ViewSafe
<1>9. ASSUME NEW k \in Cells \ overlooked, ~WillLook(k)' PROVE TrueCell(k)'
  <2>1. /\ origin = place'[Viewer] /\ TileOf(k)' \notin marked'
        /\ ~(losReset /\ BeyondDoor(TileOf(k))')
    BY <1>1, <1>9 DEF WillLook
  <2>2. place'[Viewer] = place[Viewer] /\ TileOf(k)' = TileOf(k)
    <3>1. CASE c = Viewer
      BY <1>1, <1>2, <1>5, <2>1, <3>1 DEF ViewSafe, TileOf
    <3>2. CASE c # Viewer
      BY <1>2, <1>5, <3>2 DEF TileOf
    <3> QED
      BY <3>1, <3>2
  <2>3. TileOf(k) \notin marked /\ (t # place[c] => TileOf(k) \notin {place[c], t})
        /\ (MarksItself(doing[c], action, regenerated = 1) => TileOf(k) # t)
    BY <1>7, <2>1, <2>2
  <2>4. ~WillLook(k)
    <3>0. ~(losReset /\ BeyondDoor(TileOf(k)))
      BY <2>1, <2>2 DEF BeyondDoor
    <3>1. CASE c = Other
      <4>1. doing[c] = "fresh" => MarksItself(doing[c], action, regenerated = 1) /\ t = place[c]
        BY <1>0 DEF MarksItself, StepTo
      <4> QED
        BY <2>1, <2>2, <2>3, <3>0, <3>1, <4>1 DEF WillLook
    <3>2. CASE c = Viewer
      BY <1>1, <2>1, <2>2, <2>3, <3>0, <3>2 DEF WillLook
    <3> QED
      BY <1>2, <3>1, <3>2
  <2>5. TrueCell(k)
    BY <2>4 DEF ViewSafe
  <2>6. TileOf(k) = place[c] => doing'[c] = doing[c] /\ health' = health
    <3>1. ASSUME TileOf(k) = place[c] PROVE doing'[c] = doing[c] /\ health' = health
      <4>1. t = place[c] /\ ~MarksItself(doing[c], action, regenerated = 1)
        BY <2>3, <3>1
      <4>2. doing[c] = "idle" /\ action = "idle" /\ regenerated = 0
        BY <1>3, <4>1 DEF MarksItself
      <4> QED
        BY <1>0, <1>5, <4>2 DEF ViewSafe, ViewTypes
    <3> QED
      BY <3>1
  <2>7. c = Viewer => health' = health
    BY <1>0, <1>2 DEF ViewSafe, ViewTypes
  <2>8. place'[Other] = TileOf(k) <=> place[Other] = TileOf(k)
    BY <1>2, <1>5, <2>3
  <2>9. /\ TileOf(k) = place[Viewer] => doing'[Viewer] = doing[Viewer]
        /\ TileOf(k) = place[Other] => doing'[Other] = doing[Other] /\ health' = health
    BY <1>2, <1>5, <2>6, <2>7
  <2>10. InSight(TileOf(k))' <=> InSight(TileOf(k))
    BY <1>1, <2>2 DEF InSight, fast_los
  <2> QED
    BY <1>1, <1>6, <2>2, <2>5, <2>8, <2>9, <2>10, SameScene DEF ViewSafe
<1> QED
  BY <1>1, <1>6, <1>8, <1>9 DEF ViewSafe

\* What happens to the other figure and to the tiles marks the tile, or makes the viewer
\* look at everything.
LEMMA SceneView ==
    ASSUME ViewSafe, hurt \/ use_door \/ add_light \/ item_on_map \/ remove_char PROVE ViewSafe'
<1>0. /\ phase = "chars" /\ DoorTile \in Tiles /\ LampTile \in Tiles
      /\ UNCHANGED <<doing, bearer, phase, cmap, origin, known, overlooked>>
      /\ todo' \subseteq todo /\ place'[Viewer] = place[Viewer]
      /\ marked \subseteq marked' /\ (losReset => losReset')
  <2>1. Viewer # Other /\ place \in [Figures -> Tiles \cup {0}] /\ Viewer \in Figures
    BY DEF Viewer, Other, Figures, ViewSafe, ViewTypes
  <2> QED
    BY <2>1, RowOfTiles DEF hurt, use_door, add_light, item_on_map, remove_char, sceneVars, clientVars
<1>1. ViewTypes'
  <2>1. Figures = {Viewer, Other} /\ Viewer # Other
    BY DEF Figures, Viewer, Other
  <2>2. health' \in 0 .. 1 /\ thing' \in BOOLEAN
    <3>0. health \in 0 .. 1 /\ thing \in BOOLEAN
      BY DEF ViewSafe, ViewTypes
    <3>1. CASE UNCHANGED <<health, thing>>
      BY <3>0, <3>1
    <3>2. CASE hurt
      BY <3>0, <3>2 DEF hurt, sceneVars
    <3>3. CASE item_on_map
      BY <3>0, <3>3 DEF item_on_map
    <3> QED
      BY <3>1, <3>2, <3>3 DEF use_door, add_light, remove_char, sceneVars
  <2>3. /\ place' \in [Figures -> Tiles \cup {0}] /\ place'[Viewer] \in Tiles /\ place'[Viewer] # place'[Other]
        /\ todo' \subseteq {c \in Figures : OnMap(c)'}
    <3>1. CASE UNCHANGED <<place, todo>>
      BY <3>1 DEF ViewSafe, ViewTypes, OnMap
    <3>2. CASE remove_char
      BY <2>1, <3>2, RowOfTiles DEF remove_char, ViewSafe, ViewTypes, OnMap
    <3> QED
      BY <3>1, <3>2 DEF hurt, use_door, add_light, item_on_map
  <2> QED
    BY <1>0, <2>2, <2>3 DEF ViewSafe, ViewTypes
<1>2. ASSUME NEW k \in Cells \ overlooked, ~WillLook(k)' PROVE TrueCell(k)'
  <2>1. /\ origin = place[Viewer] /\ TileOf(k) \notin marked' /\ TileOf(k)' = TileOf(k)
        /\ BeyondDoor(TileOf(k))' = BeyondDoor(TileOf(k)) /\ ~(losReset' /\ BeyondDoor(TileOf(k)))
    BY <1>0, <1>2 DEF WillLook, BeyondDoor, TileOf
  <2>2. /\ TileOf(k) \in Tiles => (place'[Other] = TileOf(k) <=> place[Other] = TileOf(k))
        /\ InSight(TileOf(k))' <=> InSight(TileOf(k))
        /\ TileOf(k) = place[Other] => health' = health
        /\ TileOf(k) = LampTile => thing' = thing
    <3>1. CASE hurt
      BY <1>0, <2>1, <3>1 DEF hurt, InSight, fast_los, sceneVars
    <3>2. CASE use_door
      <4>1. /\ losReset' = TRUE /\ doorShut' = ~doorShut /\ UNCHANGED <<place, health, lampLit, thing>>
        BY <3>2 DEF use_door
      <4>2. ~BeyondDoor(TileOf(k))
        BY <2>1, <4>1
      <4>3. fast_los(TileOf(k)) /\ fast_los(TileOf(k))'
        <5>0. place[Viewer] \in Tiles
          BY DEF ViewSafe, ViewTypes
        <5>0a. \A u \in Tiles : u \in Int
          BY RowOfTiles
        <5>0b. DoorTile \in Tiles /\ Dist \in Int
          BY RowOfTiles
        <5>1. place[Viewer] \in Int /\ DoorTile \in Int /\ Dist \in Int
          BY <5>0, <5>0a, <5>0b
        <5>2. TileOf(k) \in Int
          BY <5>1 DEF TileOf, Cells
        <5>3. (place[Viewer] - DoorTile) * (TileOf(k) - DoorTile) \in Int
          BY <5>1, <5>2
        <5>4. (place[Viewer] - DoorTile) * (TileOf(k) - DoorTile) >= 0
          BY <4>2, <5>3 DEF BeyondDoor
        <5>5. fast_los(TileOf(k))
          BY <5>4 DEF fast_los
        <5>6. fast_los(TileOf(k))' = (doorShut' => (place[Viewer] - DoorTile) * (TileOf(k) - DoorTile) >= 0)
          BY <2>1, <4>1 DEF fast_los
        <5> QED
          BY <5>4, <5>5, <5>6
      <4>4. InSight(TileOf(k))' <=> InSight(TileOf(k))
        BY <2>1, <4>1, <4>3 DEF InSight
      <4> QED
        BY <4>1, <4>4
    <3>3. CASE add_light
      BY <1>0, <2>1, <3>3 DEF add_light, InSight, fast_los
    <3>4. CASE item_on_map
      BY <1>0, <2>1, <3>4 DEF item_on_map, InSight, fast_los
    <3>5. CASE remove_char
      <4>1. place' = [place EXCEPT ![Other] = 0] /\ place[Other] \in marked' /\ UNCHANGED <<health, doorShut, lampLit, thing>>
        BY <3>5 DEF remove_char, sceneVars
      <4>2. TileOf(k) # place[Other]
        BY <2>1, <4>1
      <4>3. InSight(TileOf(k))' <=> InSight(TileOf(k))
        BY <1>0, <2>1, <4>1 DEF InSight, fast_los
      <4>4. place'[Other] = 0 /\ 0 \notin Tiles
        BY <4>1, RowOfTiles DEF ViewSafe, ViewTypes, Figures
      <4> QED
        BY <4>1, <4>2, <4>3, <4>4
    <3> QED
      BY <3>1, <3>2, <3>3, <3>4, <3>5
  <2>3. ~WillLook(k)
    <3>1. origin = place[Viewer] /\ TileOf(k) \notin marked /\ ~(losReset /\ BeyondDoor(TileOf(k)))
      BY <1>0, <2>1
    <3>2. CASE remove_char
      BY <2>1, <3>1, <3>2 DEF WillLook, remove_char
    <3>3. CASE UNCHANGED <<place, todo>>
      BY <1>0, <1>2, <2>1, <3>1, <3>3 DEF WillLook
    <3> QED
      BY <3>2, <3>3 DEF hurt, use_door, add_light, item_on_map
  <2>4. TrueCell(k)
    BY <2>3 DEF ViewSafe
  <2> QED
    BY <1>0, <1>1, <2>2, <2>4, SameScene DEF ViewSafe
<1> QED
  BY <1>0, <1>1, <1>2 DEF ViewSafe

\* Whoever asks for the viewer's line of sight leaves to the sending only what is
\* marked: what lies beyond the door is overlooked, and the door changes no other sight.
LEMMA LooksView ==
    ASSUME ViewSafe, los_can_see PROVE ViewSafe'
<1>0. /\ phase = "chars" /\ losReset /\ ~losReset'
      /\ overlooked' = overlooked \cup {k \in Cells : BeyondDoor(TileOf(k))}
      /\ UNCHANGED <<place, doing, health, bearer, doorShut, lampLit, thing, marked, todo, phase, cmap, origin, known>>
  BY DEF los_can_see, sceneVars
<1>1. ViewTypes'
  BY <1>0 DEF ViewSafe, ViewTypes, OnMap
<1>2. ASSUME NEW k \in Cells \ overlooked', ~WillLook(k)' PROVE TrueCell(k)'
  <2>1. k \notin overlooked /\ ~BeyondDoor(TileOf(k))
    BY <1>0, <1>2
  <2>2. ~WillLook(k)
    BY <1>0, <1>2, <2>1 DEF WillLook, TileOf
  <2>3. TrueCell(k)
    BY <2>1, <2>2 DEF ViewSafe
  <2>4. InSight(TileOf(k))' <=> InSight(TileOf(k))
    BY <1>0 DEF InSight, TileOf, fast_los
  <2> QED
    BY <1>0, <1>1, <2>3, <2>4, SameScene DEF ViewSafe
<1> QED
  BY <1>0, <1>1, <1>2 DEF ViewSafe

\* The sending makes the client's map true, and gives the other his name.
LEMMA SendView ==
    ASSUME ViewSafe, player_map PROVE ViewSafe'
<1>0. /\ phase = "chars" /\ phase' = "sent" /\ todo = {} /\ origin' = place[Viewer] /\ losReset' = FALSE
      /\ UNCHANGED <<place, doing, health, bearer, doorShut, lampLit, thing, marked, todo>>
  BY DEF player_map, sceneVars
<1>1. \A k \in Cells : TileOf(k)' = TileOf(k) /\ TileOf(k) \in Int
  BY <1>0, RowOfTiles DEF TileOf, Cells, ViewSafe, ViewTypes
<1>2. \A k \in Cells : Scrolled[k] \in Pictures /\ (~Redo => Scrolled[k] = cmap[k])
  <2>1. \A k \in Cells : (k = 2 * Dist \/ k + 1 \in Cells) /\ (k = 0 \/ k - 1 \in Cells)
    BY RowOfTiles DEF Cells
  <2>2. place[Viewer] \in Nat /\ place[Viewer] # place[Viewer] + 1 /\ place[Viewer] # place[Viewer] - 1
    <3>1. place[Viewer] \in Tiles
      BY DEF ViewSafe, ViewTypes
    <3>2. \A u \in Tiles : u \in Nat /\ u # u + 1 /\ u # u - 1
      BY RowOfTiles
    <3> QED
      BY <3>1, <3>2
  <2>3. cmap \in [Cells -> Pictures]
    BY DEF ViewSafe, ViewTypes
  <2>4. CASE origin # 0 /\ place[Viewer] = origin + 1
    <3>1. \A k \in Cells : Scrolled[k] = cmap[IF k = 2 * Dist THEN k ELSE k + 1]
      BY <2>4 DEF Scrolled
    <3> QED
      BY <2>1, <2>2, <2>3, <2>4, <3>1 DEF Redo
  <2>5. CASE ~(origin # 0 /\ place[Viewer] = origin + 1) /\ origin # 0 /\ place[Viewer] = origin - 1
    <3>1. \A k \in Cells : Scrolled[k] = cmap[IF k = 0 THEN k ELSE k - 1]
      BY <2>5 DEF Scrolled
    <3> QED
      BY <2>1, <2>2, <2>3, <2>5, <3>1 DEF Redo
  <2>6. CASE ~(origin # 0 /\ place[Viewer] = origin + 1) /\ ~(origin # 0 /\ place[Viewer] = origin - 1)
    <3>1. Scrolled = cmap
      BY <2>6 DEF Scrolled
    <3> QED
      BY <2>3, <3>1
  <2> QED
    BY <2>4, <2>5, <2>6
<1>3. \A k \in Cells : cmap'[k] = IF Examined(k) THEN Picture(Scrolled[k], TileOf(k)) ELSE Scrolled[k]
  BY DEF player_map
<1>4. cmap' \in [Cells -> Pictures]
  <2>1. \A k \in Cells : cmap'[k] \in Pictures
    BY <1>2, <1>3, PictureTwice DEF ViewSafe
  <2>2. cmap' = [k \in Cells |-> IF Examined(k) THEN Picture(Scrolled[k], TileOf(k)) ELSE Scrolled[k]]
    BY DEF player_map
  <2> QED
    BY <2>1, <2>2
<1>5. known' \in {0, bearer} /\ (known = bearer => known' = bearer)
  BY DEF player_map, ViewSafe, ViewTypes
<1>6. ViewTypes'
  BY <1>0, <1>4, <1>5 DEF ViewSafe, ViewTypes, OnMap
<1>7. ASSUME NEW k \in Cells \ overlooked' PROVE TrueCell(k)'
  <2> DEFINE t == TileOf(k)
  <2>1. \A p : Picture(p, t)' = Picture(p, t)
    <3>1. (InSight(t)' <=> InSight(t)) /\ (Occupied(t)' <=> Occupied(t)) /\ At(t)' = At(t) /\ ThingAt(t)' = ThingAt(t)
      BY <1>0, <1>1 DEF InSight, fast_los, Occupied, At, ThingAt
    <3> HIDE DEF t
    <3> QED
      BY <1>0, <3>1 DEF Picture
  <2>2. CASE Examined(k)
    <3>1. cmap'[k] = Picture(Scrolled[k], t)
      BY <1>3, <2>2
    <3>2. Picture(cmap'[k], t) = cmap'[k] /\ cmap'[k].sight = InSight(t)
      BY <1>2, <3>1, PictureTwice DEF ViewSafe
    <3>3. t = place[Other] /\ cmap'[k].sight => known' = bearer
      BY <1>5, <2>2, <3>2 DEF player_map, ViewSafe, ViewTypes
    <3> QED
      BY <1>0, <1>1, <2>1, <3>2, <3>3 DEF TrueCell
  <2>3. CASE ~Examined(k)
    <3>1. ~WillLook(k) /\ k \notin overlooked
      BY <1>0, <2>3 DEF Examined, Redo, WillLook, player_map
    <3>2. TrueCell(k)
      BY <3>1 DEF ViewSafe
    <3>3. cmap'[k] = cmap[k]
      BY <1>2, <1>3, <2>3 DEF Examined
    <3>4. OnMap(Other)' <=> OnMap(Other)
      BY <1>0 DEF OnMap
    <3> QED
      BY <1>0, <1>1, <1>5, <2>1, <3>2, <3>3, <3>4 DEF TrueCell
  <2> QED
    BY <2>2, <2>3
<1> QED
  BY <1>0, <1>6, <1>7 DEF ViewSafe

\* Between two ticks somebody may come, whom nobody knows and who has his first turn
\* before the next sending.
LEMMA ArriveView ==
    ASSUME ViewSafe, EndTick PROVE ViewSafe'
<1>0. /\ phase = "sent" /\ phase' = "chars" /\ marked' = {} /\ todo' = {c \in Figures : place'[c] # 0}
      /\ UNCHANGED <<doorShut, lampLit, thing, losReset, cmap, origin, overlooked>>
      /\ origin = place[Viewer] /\ todo = {}
  BY DEF EndTick, sceneVars, ViewSafe, ViewTypes
<1>1. Figures = {Viewer, Other} /\ Viewer # Other /\ 0 \notin Tiles
  BY RowOfTiles DEF Figures, Viewer, Other
<1>2. CASE UNCHANGED <<place, doing, health, bearer, known>>
  <2>1. ViewTypes'
    BY <1>0, <1>2 DEF ViewSafe, ViewTypes, OnMap
  <2>2. ASSUME NEW k \in Cells \ overlooked PROVE TrueCell(k)'
    <3>1. TrueCell(k)
      BY <1>0 DEF ViewSafe
    <3>2. InSight(TileOf(k))' <=> InSight(TileOf(k))
      BY <1>0, <1>2 DEF InSight, fast_los, TileOf
    <3> QED
      BY <1>0, <1>2, <2>1, <3>1, <3>2, SameScene DEF ViewSafe
  <2> QED
    BY <1>0, <1>2, <2>1, <2>2 DEF ViewSafe
<1>3. ASSUME ~OnMap(Other), NEW t \in Tiles \ {place[Viewer], DoorTile}, place' = [place EXCEPT ![Other] = t],
             doing' = [doing EXCEPT ![Other] = "fresh"], health' = 1, known' = 0
      PROVE  ViewSafe'
  <2>1. place'[Viewer] = place[Viewer] /\ place'[Other] = t /\ doing'[Viewer] = doing[Viewer] /\ doing'[Other] = "fresh"
    BY <1>1, <1>3 DEF ViewSafe, ViewTypes
  <2>2. ViewTypes'
    <3>1. place' \in [Figures -> Tiles \cup {0}] /\ doing' \in [Figures -> {"fresh", "idle", "walk"}]
      BY <1>3 DEF ViewSafe, ViewTypes
    <3>2. todo' \subseteq {c \in Figures : OnMap(c)'}
      BY <1>0 DEF OnMap
    <3> QED
      BY <1>0, <1>3, <2>1, <3>1, <3>2 DEF ViewSafe, ViewTypes
  <2>3. ASSUME NEW k \in Cells \ overlooked, ~WillLook(k)' PROVE TrueCell(k)'
    <3>1. Other \in todo' /\ TileOf(k)' = TileOf(k)
      BY <1>0, <1>1, <2>1 DEF TileOf
    <3>2. TileOf(k) # t
      BY <2>1, <2>3, <3>1 DEF WillLook
    <3>3. TrueCell(k) /\ place[Other] = 0
      BY <1>0, <1>3 DEF ViewSafe, OnMap
    <3>4. InSight(TileOf(k))' <=> InSight(TileOf(k))
      BY <1>0, <2>1, <3>1 DEF InSight, fast_los
    <3>5. Picture(cmap[k], TileOf(k))' = Picture(cmap[k], TileOf(k))
      <4>1. TileOf(k) # place[Other] \/ TileOf(k) \notin Tiles
        BY <1>1, <3>3
      <4>2. cmap' = cmap /\ thing' = thing /\ ViewTypes /\ TileOf(k) # place'[Other]
        BY <1>0, <2>1, <3>2 DEF ViewSafe
      <4> QED
        BY <2>1, <2>2, <3>4, <4>1, <4>2, SamePicture
    <3> QED
      BY <1>0, <1>3, <2>1, <3>1, <3>2, <3>3, <3>5 DEF TrueCell
  <2> QED
    BY <1>0, <2>1, <2>2, <2>3 DEF ViewSafe
<1> QED
  BY <1>2, <1>3 DEF EndTick

\* The map is true, or will be looked at, across every step.
LEMMA ViewStep == ViewSafe /\ [ViewNext]_viewVars => ViewSafe'
<1> SUFFICES ASSUME ViewSafe, [ViewNext]_viewVars PROVE ViewSafe'
  OBVIOUS
<1>1. CASE UNCHANGED viewVars
  <2>1. UNCHANGED <<place, doing, health, bearer, doorShut, lampLit, thing, marked, losReset, todo, phase, cmap, origin, known, overlooked>>
    BY <1>1 DEF viewVars
  <2>2. ViewTypes'
    BY <2>1 DEF ViewSafe, ViewTypes, OnMap
  <2>3. ASSUME NEW k \in Cells PROVE (WillLook(k)' <=> WillLook(k)) /\ (TrueCell(k) => TrueCell(k)')
    <3>1. (InSight(TileOf(k))' <=> InSight(TileOf(k))) /\ (WillLook(k)' <=> WillLook(k))
      BY <2>1 DEF InSight, fast_los, TileOf, WillLook, BeyondDoor
    <3> QED
      BY <2>1, <2>2, <3>1, SameScene DEF ViewSafe
  <2> QED
    BY <2>1, <2>2, <2>3 DEF ViewSafe
<1>2. CASE ViewNext
  BY <1>2, MidActionView, TurnView, SceneView, LooksView, SendView, ArriveView DEF ViewNext
<1> QED
  BY <1>1, <1>2

\* The map begins with everything to be looked at.
LEMMA ViewBegins == ViewInit => ViewSafe
<1> SUFFICES ASSUME ViewInit PROVE ViewSafe
  OBVIOUS
<1>1. 1 \in Tiles
  BY RowOfTiles
<1>2. place[Viewer] = 1 /\ place[Other] = 0
  BY DEF ViewInit, Figures, Viewer, Other
<1>3. ViewTypes
  <2>1. Blank \in Pictures
    BY DEF Blank, Pictures, NoFigure
  <2>2. place \in [Figures -> Tiles \cup {0}] /\ doing \in [Figures -> {"fresh", "idle", "walk"}]
        /\ cmap \in [Cells -> Pictures]
    BY <1>1, <2>1 DEF ViewInit, Figures
  <2>3. todo = {Viewer} /\ Viewer \in Figures /\ place[Viewer] # 0
    BY <1>2 DEF ViewInit, Figures
  <2>4. health = 1 /\ thing = FALSE /\ phase = "chars" /\ known = 0
    BY DEF ViewInit
  <2>5. todo \subseteq {c \in Figures : OnMap(c)}
    BY <2>3 DEF OnMap
  <2> QED
    <3>1. place[Viewer] \in Tiles /\ place[Viewer] # place[Other] /\ health \in 0 .. 1
      BY <1>1, <1>2, <2>4
    <3>2. thing \in BOOLEAN /\ phase \in {"chars", "sent"} /\ phase # "sent" /\ known \in {0, bearer}
      BY <2>4
    <3> QED
      BY <2>2, <2>5, <3>1, <3>2 DEF ViewTypes
<1>4. \A k \in Cells : WillLook(k)
  BY <1>2 DEF ViewInit, WillLook
<1> QED
  BY <1>3, <1>4 DEF ViewInit, ViewSafe

-----------------------------------------------------------------------------
(* Effects.                                                                  *)

Effects == {NoEffect} \cup [kind : EffectKinds, serial : Nat \ {0}]
Entries == [nr : EffectSlots \cup {0}, kind : EffectKinds \cup {"none"}, content : Nat, serial : Nat]

EffectTypes ==
    /\ ef \in [EffectSlots -> Effects] /\ ceffect \in [CacheSlots -> Entries]
    /\ inView \in BOOLEAN /\ efMarked \in BOOLEAN /\ efSent \in BOOLEAN /\ full \in BOOLEAN
    /\ usedef \subseteq CacheSlots

\* An entry that names a living effect by its serial shows it.
TrueEntry(n) ==
    LET e == ceffect[n] IN
    e.nr # 0 /\ ef[e.nr] # NoEffect /\ ef[e.nr].serial = e.serial => e = fill_ceffect(e.nr)

\* So do all entries, and the effects in a view that is not going to be examined have
\* theirs, if there were slots enough when it was.
EffectSafe ==
    /\ EffectTypes
    /\ \A n \in CacheSlots : TrueEntry(n)
    /\ inView /\ ~full /\ (efSent \/ ~efMarked) =>
          \A f \in EffectSlots : InPlace(f) => \E n \in CacheSlots : ceffect[n] = fill_ceffect(f)
    /\ EffectsShown

\* A function on a finite set takes no more values than the set has elements.
LEMMA FewValues ==
    ASSUME NEW S, IsFiniteSet(S), NEW F
    PROVE  LET T == {F[x] : x \in S} IN IsFiniteSet(T) /\ Cardinality(T) <= Cardinality(S)
<1> DEFINE T == {F[x] : x \in S}
           G == [x \in S |-> F[x]]
<1>1. G \in Surjection(S, T)
  BY DEF Surjection
<1> HIDE DEF G, T
<1>2. IsFiniteSet(T) /\ Cardinality(T) <= Cardinality(S)
  BY <1>1, FS_Surjection
<1> QED
  BY <1>2 DEF T

\* There is always a serial that nobody has or remembers.
LEMMA SerialFresh ==
    ASSUME EffectTypes, NEW f \in EffectSlots, ef[f] = NoEffect
    PROVE  /\ NewSerial \in Nat \ {0}
           /\ \A n \in CacheSlots : ceffect[n].serial # NewSerial
<1> DEFINE E == Cardinality(EffectSlots)
           C == Cardinality(CacheSlots)
           here == {ef[g].serial : g \in EffectSlots \ {f}}
           there == {ceffect[n].serial : n \in CacheSlots}
<1>1. E \in Nat /\ C \in Nat /\ E # 0
  BY FiniteSlots, FS_CardinalityType, FS_EmptySet
<1>2. IsFiniteSet(EffectSlots \ {f}) /\ Cardinality(EffectSlots \ {f}) = E - 1
  BY FiniteSlots, FS_RemoveElement
<1>3. IsFiniteSet(here) /\ Cardinality(here) <= E - 1
  <2> DEFINE F == [g \in EffectSlots \ {f} |-> ef[g].serial]
  <2>1. here = {F[g] : g \in EffectSlots \ {f}}
    OBVIOUS
  <2> HIDE DEF F, here
  <2> QED
    BY <1>2, <2>1, FewValues
<1>4. IsFiniteSet(there) /\ Cardinality(there) <= C
  <2> DEFINE F == [n \in CacheSlots |-> ceffect[n].serial]
  <2>1. there = {F[n] : n \in CacheSlots}
    OBVIOUS
  <2> HIDE DEF F, there
  <2> QED
    BY <2>1, FiniteSlots, FewValues
<1> HIDE DEF E, C
<1>5. IsFiniteSet(here \cup there) /\ Cardinality(here \cup there) <= E - 1 + C
  <2> HIDE DEF here, there
  <2>1. Cardinality(here) \in Nat /\ Cardinality(there) \in Nat
    BY <1>3, <1>4, FS_CardinalityType
  <2>2. IsFiniteSet(here \cap there)
    BY <1>3, FS_Intersection
  <2>3. Cardinality(here \cap there) \in Nat
    BY <2>2, FS_CardinalityType
  <2>4. /\ IsFiniteSet(here \cup there)
        /\ Cardinality(here \cup there) = Cardinality(here) + Cardinality(there) - Cardinality(here \cap there)
    BY <1>3, <1>4, FS_Union
  <2> QED
    BY <1>1, <1>3, <1>4, <2>1, <2>3, <2>4
<1>6. IsFiniteSet(1 .. E + C) /\ Cardinality(1 .. E + C) = E + C
  BY <1>1, FS_Interval
<1>7. PICK s \in 1 .. E + C : s \notin here \cup there
  <2> HIDE DEF here, there
  <2>1. ASSUME 1 .. E + C \subseteq here \cup there PROVE FALSE
    <3>1. Cardinality(1 .. E + C) <= Cardinality(here \cup there)
      BY <1>5, <2>1, FS_Subset
    <3>2. Cardinality(here \cup there) \in Nat
      BY <1>5, FS_CardinalityType
    <3> QED
      BY <1>1, <1>5, <1>6, <3>1, <3>2
  <2> QED
    BY <2>1
<1>8. ef[f].serial = 0
  BY DEF NoEffect
<1>9. /\ \A g \in EffectSlots : ef[g].serial # s
      /\ \A n \in CacheSlots : ceffect[n].serial # s
  BY <1>1, <1>7, <1>8
<1>10. /\ NewSerial \in 1 .. E + C
       /\ \A n \in CacheSlots : ceffect[n].serial # NewSerial
  BY <1>9 DEF NewSerial, E, C
<1> QED
  BY <1>1, <1>10

\* An effect is made with a serial no entry has, so that entries of the slot's earlier
\* effects stay worth nothing.
LEMMA EffectMade ==
    ASSUME EffectSafe, NEW f \in EffectSlots, create_effect(f) PROVE EffectSafe'
<1>0. /\ ~efSent /\ ef[f] = NoEffect /\ EffectTypes
      /\ UNCHANGED <<inView, ceffect, usedef, full, efSent>>
  BY DEF create_effect, EffectSafe
<1>1. PICK k \in EffectKinds : /\ ef' = [ef EXCEPT ![f] = [kind |-> k, serial |-> NewSerial]]
                              /\ efMarked' = (efMarked \/ k # "ball")
  BY DEF create_effect
<1> DEFINE new == [kind |-> k, serial |-> NewSerial]
<1>2. NewSerial \in Nat \ {0} /\ \A n \in CacheSlots : ceffect[n].serial # NewSerial
  BY <1>0, SerialFresh
<1>3. new \in Effects /\ new.serial = NewSerial /\ new.kind = k
  BY <1>2 DEF Effects
<1> HIDE DEF new
<1>4. ef'[f] = new /\ \A g \in EffectSlots \ {f} : ef'[g] = ef[g]
  BY <1>0, <1>1 DEF EffectTypes, new
<1>5. EffectTypes'
  <2>1. efMarked' \in BOOLEAN
    BY <1>1
  <2> QED
    BY <1>0, <1>1, <1>3, <2>1 DEF EffectTypes, new
<1>6. \A g \in EffectSlots \ {f} : fill_ceffect(g)' = fill_ceffect(g) /\ (InPlace(g)' <=> InPlace(g))
  BY <1>4 DEF fill_ceffect, InPlace
<1>7. ASSUME NEW n \in CacheSlots PROVE TrueEntry(n)'
  <2> DEFINE e == ceffect[n]
  <2>1. e.nr \in EffectSlots \cup {0} /\ e.serial # NewSerial /\ ceffect'[n] = e /\ TrueEntry(n)
    BY <1>0, <1>2 DEF EffectTypes, Entries, EffectSafe
  <2> HIDE DEF e
  <2>2. CASE e.nr = f
    BY <1>3, <1>4, <2>1, <2>2 DEF TrueEntry
  <2>3. CASE e.nr = 0
    BY <2>1, <2>3 DEF TrueEntry
  <2>4. CASE e.nr \in EffectSlots \ {f}
    BY <1>4, <2>1, <2>4 DEF TrueEntry, fill_ceffect, e
  <2> QED
    BY <2>1, <2>2, <2>3, <2>4
<1>8. ASSUME inView', ~full', efSent' \/ ~efMarked', NEW g \in EffectSlots, InPlace(g)'
      PROVE  \E n \in CacheSlots : ceffect'[n] = fill_ceffect(g)'
  <2>1. ~efMarked /\ k = "ball"
    BY <1>0, <1>1, <1>8
  <2>2. g # f
    BY <1>3, <1>4, <1>8, <2>1 DEF InPlace
  <2> QED
    BY <1>0, <1>6, <1>8, <2>1, <2>2 DEF EffectSafe
<1> QED
  BY <1>0, <1>5, <1>7, <1>8 DEF EffectSafe, EffectsShown

\* The entries of an effect that is gone are worth nothing.
LEMMA EffectGone ==
    ASSUME EffectSafe, NEW f \in EffectSlots, remove_effect(f) PROVE EffectSafe'
<1>0. /\ ~efSent /\ EffectTypes /\ ef' = [ef EXCEPT ![f] = NoEffect] /\ efMarked' = (efMarked \/ InPlace(f))
      /\ UNCHANGED <<inView, ceffect, usedef, full, efSent>>
  BY DEF remove_effect, EffectSafe
<1>1. ef'[f] = NoEffect /\ \A g \in EffectSlots \ {f} : ef'[g] = ef[g]
  BY <1>0 DEF EffectTypes
<1>2. EffectTypes'
  <2>1. efMarked' \in BOOLEAN /\ NoEffect \in Effects
    BY <1>0 DEF Effects
  <2> QED
    BY <1>0, <2>1 DEF EffectTypes
<1>3. \A g \in EffectSlots \ {f} : fill_ceffect(g)' = fill_ceffect(g) /\ (InPlace(g)' <=> InPlace(g))
  BY <1>1 DEF fill_ceffect, InPlace
<1>4. ~InPlace(f)'
  BY <1>1 DEF InPlace, NoEffect
<1>5. ASSUME NEW n \in CacheSlots PROVE TrueEntry(n)'
  <2> DEFINE e == ceffect[n]
  <2>1. e.nr \in EffectSlots \cup {0} /\ ceffect'[n] = e /\ TrueEntry(n)
    BY <1>0 DEF EffectTypes, Entries, EffectSafe
  <2> HIDE DEF e
  <2>2. CASE e.nr = f
    BY <1>1, <2>1, <2>2 DEF TrueEntry
  <2>3. CASE e.nr = 0
    BY <2>1, <2>3 DEF TrueEntry
  <2>4. CASE e.nr \in EffectSlots \ {f}
    BY <1>1, <2>1, <2>4 DEF TrueEntry, fill_ceffect, e
  <2> QED
    BY <2>1, <2>2, <2>3, <2>4
<1>6. ASSUME inView', ~full', efSent' \/ ~efMarked', NEW g \in EffectSlots, InPlace(g)'
      PROVE  \E n \in CacheSlots : ceffect'[n] = fill_ceffect(g)'
  <2>1. ~efMarked /\ g # f
    BY <1>0, <1>4, <1>6
  <2> QED
    BY <1>0, <1>3, <1>6, <2>1 DEF EffectSafe
<1> QED
  BY <1>0, <1>2, <1>5, <1>6 DEF EffectSafe, EffectsShown

\* The sending gives every effect that is looked at its entry, and keeps the others that
\* are alive.
LEMMA EffectsSent ==
    ASSUME EffectSafe, SendEffects PROVE EffectSafe'
<1>0. ~efSent /\ efSent' = TRUE /\ EffectTypes /\ UNCHANGED <<ef, inView, efMarked>>
      /\ full' = IF efMarked THEN usedef' = CacheSlots ELSE full
  BY DEF SendEffects, EffectSafe
<1>1. \E needs \in SUBSET EffectSlots : NeedEf(needs) /\ \E placed \in SUBSET Missing(needs) :
        \E into \in [placed -> CacheSlots \ KeptSlots(needs)] : Transmit(needs, placed, into)
  BY DEF SendEffects
<1>2. PICK needef \in SUBSET EffectSlots : NeedEf(needef) /\ \E placed \in SUBSET Missing(needef) :
        \E into \in [placed -> CacheSlots \ KeptSlots(needef)] : Transmit(needef, placed, into)
  BY <1>1
<1>3. PICK placed \in SUBSET Missing(needef) :
        \E into \in [placed -> CacheSlots \ KeptSlots(needef)] : Transmit(needef, placed, into)
  BY <1>2
<1>4. PICK into \in [placed -> CacheSlots \ KeptSlots(needef)] : Transmit(needef, placed, into)
  BY <1>3
<1> DEFINE cached == Cached(needef)
           refreshed == Refreshed(needef)
           kept == KeptSlots(needef)
           missing == Missing(needef)
<1>5. /\ needef \subseteq EffectSlots /\ \A f \in needef : InPlace(f)
      /\ placed \subseteq missing /\ missing = needef \ {ceffect[n].nr : n \in cached}
      /\ cached = {n \in CacheSlots : ceffect[n].nr \in needef}
      /\ kept = cached \cup {n \in CacheSlots : StillUsed(refreshed[n])}
      /\ refreshed = [n \in CacheSlots |-> IF n \in cached THEN fill_ceffect(ceffect[n].nr) ELSE ceffect[n]]
  BY <1>2, <1>3 DEF NeedEf, InViewNow, Missing, Cached, KeptSlots, Refreshed
<1>6. /\ \A f \in placed : into[f] \in CacheSlots \ kept
      /\ \A f, g \in placed : into[f] = into[g] => f = g
      /\ ceffect' = [n \in CacheSlots |->
              IF \E f \in placed : into[f] = n THEN fill_ceffect(CHOOSE f \in placed : into[f] = n)
              ELSE refreshed[n]]
      /\ usedef' = kept \cup {into[f] : f \in placed}
      /\ placed = missing \/ usedef' = CacheSlots
  BY <1>4 DEF Transmit
<1> HIDE DEF cached, refreshed, kept, missing
<1>7. \A f \in EffectSlots : fill_ceffect(f) \in Entries /\ fill_ceffect(f).nr = f
                            /\ fill_ceffect(f).serial = ef[f].serial
  <2>1. \A f \in EffectSlots : ef[f] \in Effects
    BY <1>0 DEF EffectTypes
  <2>2. \A e \in Effects : e.kind \in EffectKinds \cup {"none"} /\ e.serial \in Nat
    BY DEF Effects, NoEffect
  <2> QED
    BY <2>1, <2>2 DEF fill_ceffect, Entries
<1>8. \A f \in EffectSlots : fill_ceffect(f)' = fill_ceffect(f) /\ (InPlace(f)' <=> InPlace(f))
  BY <1>0 DEF fill_ceffect, InPlace
\* what the entries are before the missing ones are put in
<1>9. /\ \A n \in CacheSlots : refreshed[n] \in Entries /\ refreshed[n].nr = ceffect[n].nr
      /\ \A n \in cached : refreshed[n] = fill_ceffect(ceffect[n].nr)
      /\ \A n \in CacheSlots \ cached : refreshed[n] = ceffect[n]
  BY <1>0, <1>5, <1>7 DEF EffectTypes
<1>10. \A n \in kept : refreshed[n].nr \in EffectSlots /\ refreshed[n] = fill_ceffect(refreshed[n].nr)
  <2>1. ASSUME NEW n \in CacheSlots \ cached, StillUsed(refreshed[n])
        PROVE  refreshed[n].nr \in EffectSlots /\ refreshed[n] = fill_ceffect(refreshed[n].nr)
    <3>1. refreshed[n] = ceffect[n] /\ ceffect[n] \in Entries
      BY <1>9
    <3>2. ceffect[n].nr # 0 /\ ef[ceffect[n].nr] # NoEffect /\ ef[ceffect[n].nr].serial = ceffect[n].serial
      BY <2>1, <3>1 DEF StillUsed
    <3>3. ceffect[n].nr \in EffectSlots
      BY <3>1, <3>2 DEF Entries
    <3>4. TrueEntry(n)
      BY DEF EffectSafe
    <3>5. ceffect[n] = fill_ceffect(ceffect[n].nr)
      BY <3>2, <3>4 DEF TrueEntry
    <3> QED
      BY <3>1, <3>3, <3>5
  <2>2. \A n \in cached : ceffect[n].nr \in EffectSlots
    BY <1>5
  <2> QED
    BY <1>5, <1>9, <2>1, <2>2
<1>11. ASSUME NEW f \in placed PROVE into[f] \in CacheSlots \ kept /\ ceffect'[into[f]] = fill_ceffect(f)
  <2>1. into[f] \in CacheSlots \ kept
    BY <1>6
  <2>2. (CHOOSE g \in placed : into[g] = into[f]) = f
    BY <1>6
  <2> QED
    BY <1>6, <2>1, <2>2
<1>12. \A n \in CacheSlots : (~\E f \in placed : into[f] = n) => ceffect'[n] = refreshed[n]
  BY <1>6
<1>13. placed \subseteq EffectSlots
  BY <1>5
<1>14. EffectTypes'
  <2>1. \A n \in CacheSlots : ceffect'[n] \in Entries
    BY <1>7, <1>9, <1>11, <1>12, <1>13
  <2>2. DOMAIN ceffect' = CacheSlots /\ ceffect' = [n \in CacheSlots |-> ceffect'[n]]
    BY <1>6
  <2>3. usedef' \subseteq CacheSlots
    BY <1>5, <1>6, <1>11
  <2> QED
    BY <1>0, <2>1, <2>2, <2>3 DEF EffectTypes
<1>15. ASSUME NEW n \in usedef' PROVE ceffect'[n] = fill_ceffect(ceffect'[n].nr) /\ ceffect'[n].nr \in EffectSlots
  <2>1. CASE \E f \in placed : into[f] = n
    BY <1>7, <1>11, <1>13, <2>1
  <2>2. CASE ~\E f \in placed : into[f] = n
    <3>1. n \in kept /\ n \in CacheSlots
      BY <1>5, <1>6, <2>2
    <3> QED
      BY <1>10, <1>12, <2>2, <3>1
  <2> QED
    BY <2>1, <2>2
\* as many needed effects as there are slots fill them all
<1>16. ASSUME placed = missing, Cardinality(needef) = Cardinality(CacheSlots) PROVE usedef' = CacheSlots
  <2> DEFINE slot == [f \in needef |-> IF f \in placed THEN into[f] ELSE CHOOSE n \in cached : ceffect[n].nr = f]
             taken == {slot[f] : f \in needef}
  <2>1. \A f \in needef \ placed : slot[f] \in cached /\ ceffect[slot[f]].nr = f
    BY <1>5, <1>16
  <2>2. \A f \in placed : slot[f] = into[f] /\ slot[f] \in CacheSlots \ kept /\ slot[f] \in usedef'
    <3>1. \A f \in placed : f \in needef
      BY <1>5
    <3>2. \A f \in placed : slot[f] = into[f]
      BY <3>1
    <3> HIDE DEF slot
    <3> QED
      BY <1>6, <3>2
  <2>3. cached \subseteq kept /\ cached \subseteq CacheSlots /\ kept \subseteq usedef'
    BY <1>6, <1>5
  <2>4. \A f, g \in needef : slot[f] = slot[g] => f = g
    <3> HIDE DEF slot
    <3> QED
      BY <1>6, <2>1, <2>2, <2>3
  <2>5. taken \subseteq usedef' /\ taken \subseteq CacheSlots /\ usedef' \subseteq CacheSlots
    <3> HIDE DEF slot
    <3>1. \A f \in needef : slot[f] \in usedef'
      BY <2>1, <2>2, <2>3
    <3>2. usedef' \subseteq CacheSlots
      BY <1>14 DEF EffectTypes
    <3>3. taken \subseteq usedef'
      BY <3>1
    <3> HIDE DEF taken
    <3> QED
      BY <3>2, <3>3
  <2>6. slot \in Bijection(needef, taken)
    <3>1. slot \in [needef -> taken]
      OBVIOUS
    <3> HIDE DEF slot
    <3>2. \A u \in taken : \E f \in needef : slot[f] = u
      OBVIOUS
    <3> HIDE DEF taken
    <3>3. slot \in Injection(needef, taken)
      BY <2>4, <3>1 DEF Injection, IsInjective
    <3>4. slot \in Surjection(needef, taken)
      BY <3>1, <3>2 DEF Surjection
    <3> QED
      BY <3>3, <3>4 DEF Bijection
  <2> HIDE DEF slot, taken
  <2>7. IsFiniteSet(needef)
    BY <1>5, FiniteSlots, FS_Subset
  <2>8. Cardinality(taken) = Cardinality(CacheSlots)
    BY <1>16, <2>6, <2>7, FS_Bijection DEF ExistsBijection
  <2>9. taken = CacheSlots
    BY <2>5, <2>8, FiniteSlots, FS_Subset
  <2> QED
    BY <2>5, <2>9
<1>17. ASSUME inView', ~full', NEW f \in EffectSlots, InPlace(f)
       PROVE  \E n \in usedef' : ceffect'[n] = fill_ceffect(f)
  <2>0. inView
    BY <1>0, <1>17
  <2>1. CASE f \in placed
    <3>1. into[f] \in usedef'
      BY <1>6, <2>1
    <3> QED
      BY <1>11, <2>1, <3>1
  <2>2. CASE f \in needef /\ f \notin missing
    <3>1. PICK n \in cached : ceffect[n].nr = f
      BY <1>5, <2>2
    <3>2. n \in kept /\ n \in CacheSlots
      BY <1>5, <3>1
    <3>3. ceffect'[n] = refreshed[n] /\ n \in usedef'
      BY <1>6, <1>11, <1>12, <3>2
    <3> QED
      BY <1>9, <3>1, <3>3
  <2>3. CASE ~efMarked
    <3>1. f \notin needef /\ ~full
      BY <1>2, <1>0, <1>17, <2>3 DEF NeedEf, InViewNow
    <3>2. PICK n \in CacheSlots : ceffect[n] = fill_ceffect(f)
      BY <1>17, <2>0, <2>3, <3>1 DEF EffectSafe
    <3>3. n \notin cached
      BY <1>5, <1>7, <3>1, <3>2
    <3>4. refreshed[n] = fill_ceffect(f)
      BY <1>9, <3>2, <3>3
    <3>5. ef[f] # NoEffect /\ f # 0
      BY <1>17, FiniteSlots DEF InPlace, NoEffect
    <3>6. StillUsed(refreshed[n])
      BY <1>7, <2>0, <3>4, <3>5 DEF StillUsed
    <3>7. n \in kept
      BY <1>5, <3>6
    <3>8. ceffect'[n] = refreshed[n] /\ n \in usedef'
      BY <1>6, <1>11, <1>12, <3>7
    <3> QED
      BY <3>4, <3>8
  \* with slots to spare, all that is in view was needed and has got one
  <2>4. CASE efMarked
    <3>1. usedef' # CacheSlots
      BY <1>0, <1>17, <2>4
    <3>2. placed = missing
      BY <1>6, <3>1
    <3>3. needef = InViewNow
      BY <1>2, <1>16, <3>1, <3>2 DEF NeedEf
    <3>4. f \in needef
      BY <1>17, <2>0, <2>4, <3>3 DEF InViewNow
    <3> QED
      BY <2>1, <2>2, <3>2, <3>4
  <2> QED
    BY <1>0, <2>3, <2>4 DEF EffectTypes
<1>18. EffectsShown'
  BY <1>0, <1>8, <1>15, <1>17 DEF EffectsShown
<1>19. ASSUME NEW n \in CacheSlots PROVE TrueEntry(n)'
  <2>1. ASSUME NEW f \in EffectSlots, ceffect'[n] = fill_ceffect(f) PROVE TrueEntry(n)'
    BY <1>0, <2>1 DEF TrueEntry, fill_ceffect
  <2>2. CASE \E f \in placed : into[f] = n
    BY <1>11, <1>13, <2>1, <2>2
  <2>3. CASE ~(\E f \in placed : into[f] = n) /\ n \in kept
    BY <1>10, <1>12, <2>1, <2>3
  <2>4. CASE ~(\E f \in placed : into[f] = n) /\ n \notin kept
    <3>1. ceffect'[n] = ceffect[n]
      BY <1>5, <1>9, <1>12, <2>4
    <3>2. TrueEntry(n)
      BY DEF EffectSafe
    <3> QED
      BY <1>0, <3>1, <3>2 DEF TrueEntry, fill_ceffect
  <2> QED
    BY <2>2, <2>3, <2>4
<1>20. inView' /\ ~full' => \A f \in EffectSlots : InPlace(f)' => \E n \in CacheSlots : ceffect'[n] = fill_ceffect(f)'
  BY <1>0, <1>8, <1>14, <1>17 DEF EffectTypes
<1> QED
  BY <1>14, <1>18, <1>19, <1>20 DEF EffectSafe

\* One who comes into sight or leaves it leaves a mark.
LEMMA AppearKept ==
    ASSUME EffectSafe, Appear PROVE EffectSafe'
<1>1. ~efSent /\ ~efSent' /\ efMarked' = TRUE /\ inView' = ~inView /\ UNCHANGED <<ef, ceffect, usedef, full, efSent>>
  BY DEF Appear
<1>2. EffectTypes'
  BY <1>1 DEF EffectSafe, EffectTypes
<1>3. \A n \in CacheSlots : TrueEntry(n)'
  BY <1>1 DEF EffectSafe, TrueEntry, fill_ceffect
<1> QED
  BY <1>1, <1>2, <1>3 DEF EffectSafe, EffectsShown

\* The marks of a tick are gone only when its sending has answered them.
LEMMA EffectTickKept ==
    ASSUME EffectSafe, EffectTick PROVE EffectSafe'
<1>1. efSent /\ ~efSent' /\ efSent' = FALSE /\ efMarked' = FALSE /\ UNCHANGED <<ef, inView, ceffect, usedef, full>>
  BY DEF EffectTick
<1>2. EffectTypes'
  BY <1>1 DEF EffectSafe, EffectTypes
<1>3. \A n \in CacheSlots : TrueEntry(n)'
  BY <1>1 DEF EffectSafe, TrueEntry, fill_ceffect
<1>4. ASSUME inView, ~full, NEW f \in EffectSlots, InPlace(f)
      PROVE  \E n \in CacheSlots : ceffect[n] = fill_ceffect(f)
  BY <1>1, <1>4 DEF EffectSafe, EffectTypes, EffectsShown
<1>5. \A f \in EffectSlots : fill_ceffect(f)' = fill_ceffect(f) /\ (InPlace(f)' <=> InPlace(f))
  BY <1>1 DEF fill_ceffect, InPlace
<1> QED
  BY <1>1, <1>2, <1>3, <1>4, <1>5 DEF EffectSafe, EffectsShown

\* The effects' part stays safe across every step.
LEMMA EffectStep == EffectSafe /\ [EffectNext]_effectVars => EffectSafe'
<1> SUFFICES ASSUME EffectSafe, [EffectNext]_effectVars PROVE EffectSafe'
  OBVIOUS
<1>1. CASE UNCHANGED effectVars
  <2>1. UNCHANGED <<ef, inView, efMarked, ceffect, usedef, full, efSent>>
    BY <1>1 DEF effectVars
  <2>2. \A f \in EffectSlots : fill_ceffect(f)' = fill_ceffect(f) /\ (InPlace(f)' <=> InPlace(f))
    BY <2>1 DEF fill_ceffect, InPlace
  <2>3. EffectTypes'
    BY <2>1 DEF EffectSafe, EffectTypes
  <2>4. \A n \in CacheSlots : TrueEntry(n)'
    BY <2>1 DEF EffectSafe, TrueEntry, fill_ceffect
  <2>5. EffectsShown'
    <3>1. \A n : fill_ceffect(ceffect[n].nr)' = fill_ceffect(ceffect[n].nr)
      BY <2>1 DEF fill_ceffect
    <3> QED
      BY <2>1, <2>2, <3>1 DEF EffectSafe, EffectsShown
  <2> QED
    BY <2>1, <2>2, <2>3, <2>4, <2>5 DEF EffectSafe
<1>2. CASE EffectNext
  BY <1>2, EffectMade, EffectGone, AppearKept, EffectTickKept, EffectsSent DEF EffectNext
<1> QED
  BY <1>1, <1>2

\* A new client has no entries, and the first sending examines everything.
LEMMA EffectBegins == EffectInit => EffectSafe
<1> SUFFICES ASSUME EffectInit PROVE EffectSafe
  OBVIOUS
<1>1. NoEffect \in Effects /\ NoEntry \in Entries
  BY DEF Effects, NoEntry, Entries
<1>2. EffectTypes
  BY <1>1 DEF EffectInit, EffectTypes
<1>3. \A n \in CacheSlots : TrueEntry(n)
  BY DEF EffectInit, TrueEntry, NoEntry
<1> QED
  BY <1>2, <1>3 DEF EffectInit, EffectSafe, EffectsShown

-----------------------------------------------------------------------------
(* The character himself.                                                    *)

\* What is not flagged is shown as it is, and after the sending everything is.
StatsSafe ==
    /\ own \in [hand : Holdings, value : 0 .. 1, open : Stores]
    /\ contents \in [Stores -> Holdings]
    /\ shown \in [hand : Holdings, value : 0 .. 1, con : Stores, count : 0 .. 1, ware : Holdings, act : {"idle", "kill"}]
    /\ order \in {"idle", "kill"}
    /\ statsSent \in BOOLEAN
    /\ "CF_ITEMS" \notin flagged => shown.hand = own.hand
    /\ "CF_UPDATE" \notin flagged => shown.value = own.value
    /\ StatsShown

\* A change sets the flag that has it sent.
LEMMA ChangeKept ==
    ASSUME StatsSafe, NEW x,
           \/ x \in 0 .. 1 /\ Changes("value", x, "CF_UPDATE")
           \/ x \in Holdings /\ Changes("hand", x, "CF_ITEMS")
    PROVE  StatsSafe'
<1>1. CASE x \in 0 .. 1 /\ Changes("value", x, "CF_UPDATE")
  BY <1>1 DEF Changes, StatsSafe, StatsShown
<1>2. CASE x \in Holdings /\ Changes("hand", x, "CF_ITEMS")
  BY <1>2 DEF Changes, StatsSafe, StatsShown
<1> QED
  BY <1>1, <1>2

\* So does an exchange; what stands in a store is sent whenever it is open.
LEMMA StoreKept ==
    ASSUME StatsSafe, NEW c \in Stores,
           SwapWith(c) \/ Opens(c) \/ \E g \in Holdings : Restocked(c, g)
    PROVE  StatsSafe'
<1>1. CASE SwapWith(c)
  <2>1. contents[c] \in Holdings /\ own.hand \in Holdings
    BY DEF StatsSafe
  <2>2. contents' \in [Stores -> Holdings] /\ own' \in [hand : Holdings, value : 0 .. 1, open : Stores]
    BY <1>1, <2>1 DEF SwapWith, StatsSafe
  <2>3. own'.value = own.value /\ "CF_ITEMS" \in flagged' /\ ("CF_UPDATE" \in flagged' <=> "CF_UPDATE" \in flagged)
    BY <1>1 DEF SwapWith, StatsSafe
  <2> QED
    BY <1>1, <2>2, <2>3 DEF SwapWith, StatsSafe, StatsShown
<1>2. CASE Opens(c)
  BY <1>2 DEF Opens, StatsSafe, StatsShown
<1>3. CASE \E g \in Holdings : Restocked(c, g)
  BY <1>3 DEF Restocked, StatsSafe, StatsShown
<1> QED
  BY <1>1, <1>2, <1>3

\* The sending shows what is flagged, and everything else is shown already.
LEMMA StatsSent ==
    ASSUME StatsSafe, SendStats PROVE StatsSafe'
<1> DEFINE new == player_stats(shown)
<1>0. /\ statsSent' = TRUE /\ flagged' = {} /\ UNCHANGED <<own, contents, order>>
      /\ shown' = [new EXCEPT !.act = order]
  BY DEF SendStats, player_act
<1>1. /\ own.hand \in Holdings /\ own.value \in 0 .. 1 /\ own.open \in Stores /\ contents[own.open] \in Holdings
      /\ shown.con \in Stores /\ shown.ware \in Holdings /\ shown.act \in {"idle", "kill"}
      /\ shown.hand \in Holdings /\ shown.value \in 0 .. 1
  BY DEF StatsSafe
<1>2. new.hand = own.hand /\ new.value = own.value
  BY DEF player_stats, StatsSafe
<1>3. /\ new.count = (IF own.open # "none" THEN 1 ELSE 0)
      /\ new.con = (IF own.open = "shop" THEN "shop" ELSE IF own.open # "none" THEN "chest" ELSE shown.con)
      /\ new.ware = (IF own.open # "none" THEN contents[own.open] ELSE shown.ware)
  BY DEF player_stats
<1>4. new \in [hand : Holdings, value : 0 .. 1, con : Stores, count : 0 .. 1, ware : Holdings, act : {"idle", "kill"}]
  <2>1. new = [hand |-> own.hand, value |-> own.value, con |-> new.con, count |-> new.count, ware |-> new.ware, act |-> shown.act]
    BY <1>2 DEF player_stats
  <2>2. new.con \in Stores /\ new.count \in 0 .. 1 /\ new.ware \in Holdings
    <3> HIDE DEF new
    <3> QED
      BY <1>1, <1>3 DEF Stores
  <2> HIDE DEF new
  <2> QED
    BY <1>1, <2>1, <2>2
<1> HIDE DEF new
<1>5. /\ shown' \in [hand : Holdings, value : 0 .. 1, con : Stores, count : 0 .. 1, ware : Holdings, act : {"idle", "kill"}]
      /\ shown'.hand = own.hand /\ shown'.value = own.value /\ shown'.act = order
      /\ shown'.count = new.count /\ shown'.con = new.con /\ shown'.ware = new.ware
  BY <1>0, <1>2, <1>4 DEF StatsSafe
<1>6. StatsShown'
  BY <1>0, <1>3, <1>5 DEF StatsShown
<1> QED
  BY <1>0, <1>5, <1>6 DEF StatsSafe

\* The character's part stays safe across every step.
LEMMA StatsStep == StatsSafe /\ [StatsNext]_statsVars => StatsSafe'
<1> SUFFICES ASSUME StatsSafe, [StatsNext]_statsVars PROVE StatsSafe'
  OBVIOUS
<1>1. CASE UNCHANGED statsVars
  BY <1>1 DEF statsVars, StatsSafe, StatsShown
<1>2. CASE Changes("value", 1 - own.value, "CF_UPDATE")
  <2>1. 1 - own.value \in 0 .. 1
    BY DEF StatsSafe
  <2> QED
    BY <1>2, <2>1, ChangeKept
<1>3. CASE \E g \in Holdings : Changes("hand", g, "CF_ITEMS")
  BY <1>3, ChangeKept
<1>4. CASE \E c \in Stores : SwapWith(c) \/ Opens(c) \/ \E g \in Holdings : Restocked(c, g)
  BY <1>4, StoreKept
<1>5. CASE \E a \in {"idle", "kill"} : Orders(a)
  BY <1>5 DEF Orders, StatsSafe, StatsShown
<1>6. CASE read_login
  BY <1>6 DEF read_login, StatsSafe, StatsShown, NewClient, Flags, Holdings, Stores
<1>7. CASE SendStats
  BY <1>7, StatsSent
<1>8. CASE statsSent /\ statsSent' = FALSE /\ UNCHANGED <<own, contents, flagged, shown, order>>
  BY <1>8 DEF StatsSafe, StatsShown
<1> QED
  BY <1>1, <1>2, <1>3, <1>4, <1>5, <1>6, <1>7, <1>8 DEF StatsNext

\* A new client is sent everything.
LEMMA StatsBegins == StatsInit => StatsSafe
<1> SUFFICES ASSUME StatsInit PROVE StatsSafe
  OBVIOUS
<1>1. own \in [hand : Holdings, value : 0 .. 1, open : Stores]
  BY DEF StatsInit, Holdings, Stores
<1>2. contents \in [Stores -> Holdings]
  BY DEF StatsInit, Holdings
<1>3. NewClient \in [hand : Holdings, value : 0 .. 1, con : Stores, count : 0 .. 1, ware : Holdings, act : {"idle", "kill"}]
  BY DEF NewClient, Holdings, Stores
<1> QED
  BY <1>1, <1>2, <1>3 DEF StatsInit, StatsSafe, StatsShown, Flags

\* After every tick's sending a player's client shows the world as it is, the effects in
\* his view and what he has, but for what a door has changed unnoticed and effects that
\* found no slot: for every row of tiles, every place of the door and the lamp, every
\* viewing distance and all numbers of effect slots (player_map, player_stats).
THEOREM ViewAlwaysCurrent == MirrorSpec => []ViewCurrent
<1>1. ViewSafe => MapShown
  BY DEF ViewSafe, MapShown, TrueCell
<1>2. EffectSafe => EffectsShown
  BY DEF EffectSafe
<1>3. StatsSafe => StatsShown
  BY DEF StatsSafe
<1> QED
  BY <1>1, <1>2, <1>3, ViewBegins, ViewStep, EffectBegins, EffectStep, StatsBegins, StatsStep, PTL
     DEF MirrorSpec, ViewCurrent

-----------------------------------------------------------------------------
(* The trader.                                                               *)

TradeTypes ==
    /\ seat \in [Seats -> Folk \cup {NoOne}]
    /\ bag \in [Folk -> SUBSET Goods]
    /\ given # NoGift => given.item \in Goods /\ given.seat \in Seats
    /\ trade \in [state : 0 .. 2, c1 : Folk \cup {NoOne}, c2 : Folk \cup {NoOne},
                  itm1 : SUBSET Goods, itm2 : SUBSET Goods, ok1 : BOOLEAN, ok2 : BOOLEAN]
    /\ trade.state # 0 => trade.c1 \in Folk /\ trade.c2 \in Folk
    /\ accepted = <<accepted[1], accepted[2]>>

\* A good is with one player, or with the trader: as a gift, or kept for one side.
OnePlace ==
    /\ \A p, q \in Folk : p # q => bag[p] \cap bag[q] = {}
    /\ \A p \in Folk : given.item \notin bag[p] /\ Kept \cap bag[p] = {}
    /\ given.item \notin Kept
    /\ trade.itm1 \cap trade.itm2 = {}

\* An acceptance is for what lies there now.
TradeSafe ==
    /\ TradeTypes /\ OnePlace
    /\ trade.state = 0 => Kept = {}
    /\ void = Kept
    /\ trade.ok1 => trade.state = 2 /\ accepted[1] = Offer
    /\ trade.ok2 => trade.state = 2 /\ accepted[2] = Offer

\* In one place means: no more than one place has it.
LEMMA OnePlaceCounts == TradeSafe => HeldOnce
<1> SUFFICES ASSUME TradeSafe PROVE HeldOnce
  OBVIOUS
<1> SUFFICES ASSUME NEW i \in Goods
             PROVE  Cardinality({p \in Folk : i \in bag[p]}) + Cardinality({i} \cap {given.item})
                     + Cardinality({i} \cap trade.itm1) + Cardinality({i} \cap trade.itm2) <= 1
  BY DEF HeldOnce, TradeSafe
<1> DEFINE holders == {p \in Folk : i \in bag[p]}
<1>1. \A S : Cardinality({i} \cap S) = IF i \in S THEN 1 ELSE 0
  <2> TAKE S
  <2>1. CASE i \in S
    <3>1. {i} \cap S = {i}
      BY <2>1
    <3> QED
      BY <2>1, <3>1, FS_Singleton
  <2>2. CASE i \notin S
    <3>1. {i} \cap S = {}
      BY <2>2
    <3> QED
      BY <2>2, <3>1, FS_EmptySet
  <2> QED
    BY <2>1, <2>2
<1>2. Cardinality(holders) = IF holders = {} THEN 0 ELSE 1
  <2>1. CASE holders = {}
    BY <2>1, FS_EmptySet
  <2>2. CASE holders # {}
    <3>1. PICK p \in holders : TRUE
      BY <2>2
    <3>2. holders = {p}
      BY <3>1 DEF TradeSafe, OnePlace
    <3> QED
      BY <2>2, <3>2, FS_Singleton
  <2> QED
    BY <2>1, <2>2
<1>3. /\ holders # {} => i # given.item /\ i \notin trade.itm1 /\ i \notin trade.itm2
      /\ i = given.item => i \notin trade.itm1 /\ i \notin trade.itm2
      /\ ~(i \in trade.itm1 /\ i \in trade.itm2)
  BY DEF TradeSafe, OnePlace, Kept
<1>4. Cardinality(holders) + Cardinality({i} \cap {given.item})
        + Cardinality({i} \cap trade.itm1) + Cardinality({i} \cap trade.itm2) <= 1
  <2> HIDE DEF holders
  <2>1. Cardinality({i} \cap {given.item}) = IF i = given.item THEN 1 ELSE 0
    BY <1>1
  <2> QED
    BY <1>1, <1>2, <1>3, <2>1
<1> QED
  BY <1>4

\* What is handed back: to each who can take it, as much as he has room for.
LEMMA HandedBack ==
    ASSUME TradeSafe, NEW p1 \in Folk, NEW p2 \in Folk, return_items(p1, p2)
    PROVE  \E T1 \in SUBSET trade.itm1, T2 \in SUBSET trade.itm2 :
              /\ bag' \in [Folk -> SUBSET Goods]
              /\ \A p \in Folk : bag'[p] = bag[p] \cup (IF p = p1 THEN T1 ELSE {}) \cup (IF p = p2 THEN T2 ELSE {})
              /\ T1 # trade.itm1 => ~CanReceive(p1) \/ Cardinality(bag'[p1]) = Room
              /\ T2 # trade.itm2 => ~CanReceive(p2) \/ Cardinality(bag'[p2]) = Room
              /\ void' = {}
<1>0. /\ bag \in [Folk -> SUBSET Goods] /\ trade.itm1 \subseteq Goods /\ trade.itm2 \subseteq Goods
      /\ void = trade.itm1 \cup trade.itm2
  BY DEF TradeSafe, TradeTypes, Kept
<1>1. PICK T1 \in (IF CanReceive(p1) THEN Fitting(bag, p1, trade.itm1) ELSE {{}}) :
        \E T2 \in (IF CanReceive(p2) THEN Fitting([bag EXCEPT ![p1] = @ \cup T1], p2, trade.itm2) ELSE {{}}) :
             /\ bag' = [[bag EXCEPT ![p1] = @ \cup T1] EXCEPT ![p2] = @ \cup T2]
             /\ void' = void \ (trade.itm1 \cup trade.itm2)
  BY DEF return_items
<1> DEFINE b == [bag EXCEPT ![p1] = @ \cup T1]
<1>2. PICK T2 \in (IF CanReceive(p2) THEN Fitting(b, p2, trade.itm2) ELSE {{}}) :
             /\ bag' = [b EXCEPT ![p2] = @ \cup T2]
             /\ void' = void \ (trade.itm1 \cup trade.itm2)
  BY <1>1
<1>3. T1 \in SUBSET trade.itm1 /\ T2 \in SUBSET trade.itm2
  BY <1>1, <1>2 DEF Fitting
<1>4. b \in [Folk -> SUBSET Goods] /\ \A p \in Folk : b[p] = bag[p] \cup (IF p = p1 THEN T1 ELSE {})
  BY <1>0, <1>3
<1> HIDE DEF b
<1>5. bag' \in [Folk -> SUBSET Goods] /\ \A p \in Folk : bag'[p] = b[p] \cup (IF p = p2 THEN T2 ELSE {})
  BY <1>0, <1>2, <1>3, <1>4
<1>6. void' = {}
  BY <1>0, <1>2
<1>7. ASSUME NEW S \in SUBSET Goods PROVE IsFiniteSet(S) /\ Cardinality(S) \in Nat
  BY <1>7, TradesAssumption, FS_Subset, FS_CardinalityType
<1>8. ASSUME NEW A \in SUBSET Goods, NEW B \in SUBSET Goods, A \cap B = {}
      PROVE  Cardinality(A \cup B) = Cardinality(A) + Cardinality(B)
  <2>1. IsFiniteSet(A) /\ IsFiniteSet(B) /\ Cardinality(A) \in Nat /\ Cardinality(B) \in Nat
    BY <1>7
  <2>2. Cardinality(A \cap B) = 0
    BY <1>8, FS_EmptySet
  <2>3. Cardinality(A \cup B) = Cardinality(A) + Cardinality(B) - Cardinality(A \cap B)
    BY <2>1, FS_Union
  <2> QED
    BY <2>1, <2>2, <2>3
<1>9. ASSUME T1 # trade.itm1, CanReceive(p1) PROVE Cardinality(bag'[p1]) = Room
  <2>1. T1 \in Fitting(bag, p1, trade.itm1)
    BY <1>1, <1>9
  <2>2. PICK i \in trade.itm1 : i \notin T1
    BY <1>3, <1>9
  <2>3. Cardinality(bag[p1]) + Cardinality(T1) = Room
    BY <2>1, <2>2 DEF Fitting
  <2>4. bag[p1] \cap T1 = {}
    BY <1>3 DEF TradeSafe, OnePlace, Kept
  <2>5. b[p1] = bag[p1] \cup T1
    BY <1>4
  <2>6. Cardinality(b[p1]) = Room
    BY <1>0, <1>3, <1>8, <2>3, <2>4, <2>5
  <2>7. CASE p1 # p2 \/ T2 = {}
    <3>1. bag'[p1] = b[p1]
      BY <1>5, <2>7
    <3> QED
      BY <2>6, <3>1
  <2>8. CASE p1 = p2
    <3>1. T2 \in Fitting(b, p2, trade.itm2)
      BY <1>2, <1>9, <2>8
    <3>2. Cardinality(b[p1]) + Cardinality(T2) <= Room
      BY <2>8, <3>1 DEF Fitting
    <3>3. Cardinality(T2) \in Nat /\ IsFiniteSet(T2) /\ Room \in Nat
      BY <1>0, <1>3, <1>7, TradesAssumption
    <3>4. Cardinality(T2) = 0
      BY <2>6, <3>2, <3>3
    <3>5. T2 = {}
      BY <3>3, <3>4, FS_EmptySet
    <3> QED
      BY <2>7, <3>5
  <2> QED
    BY <2>7, <2>8
<1>10. ASSUME T2 # trade.itm2, CanReceive(p2) PROVE Cardinality(bag'[p2]) = Room
  <2>1. T2 \in Fitting(b, p2, trade.itm2)
    BY <1>2, <1>10
  <2>2. PICK i \in trade.itm2 : i \notin T2
    BY <1>3, <1>10
  <2>3. Cardinality(b[p2]) + Cardinality(T2) = Room
    BY <2>1, <2>2 DEF Fitting
  <2>4. b[p2] \cap T2 = {}
    BY <1>3, <1>4 DEF TradeSafe, OnePlace, Kept
  <2>5. bag'[p2] = b[p2] \cup T2
    BY <1>5
  <2> QED
    BY <1>0, <1>3, <1>4, <1>8, <2>3, <2>4, <2>5
<1>11. \A p \in Folk : bag'[p] = bag[p] \cup (IF p = p1 THEN T1 ELSE {}) \cup (IF p = p2 THEN T2 ELSE {})
  BY <1>4, <1>5
<1> QED
  BY <1>3, <1>5, <1>6, <1>9, <1>10, <1>11

\* Nobody is cheated in this step.
Fair ==
    \A p \in {trade.c1, trade.c2} \cap Folk :
       LET q == Partner(p)
       IN /\ Gave(p) \cap bag'[q] # {} /\ p # q =>
                accepted' = <<Offer, Offer>> /\ Gave(q) \cap bag'[q] = {}
          /\ Gave(p) \ (Kept' \cup bag'[p] \cup bag'[q]) # {} =>
                \E r \in {p, q} : ~CanReceive(r) \/ Cardinality(bag'[r]) = Room

\* With nothing kept there is nobody to cheat, and a step that leaves in the trade what
\* was in it, and gives nobody anything of it, cheats nobody.
LEMMA NothingHandedOver ==
    ASSUME TradeSafe, Kept \subseteq Kept', \A p \in Folk : bag'[p] \cap Kept = {} PROVE Fair
<1> SUFFICES ASSUME NEW p \in {trade.c1, trade.c2} \cap Folk
             PROVE  LET q == Partner(p)
                    IN /\ p # q => Gave(p) \cap bag'[q] = {}
                       /\ Gave(p) \ (Kept' \cup bag'[p] \cup bag'[q]) = {}
  BY Zenon DEF Fair
<1>1. Gave(p) \subseteq Kept
  BY DEF Gave, Kept
<1>2. trade.state # 0 => Partner(p) \in Folk
  BY DEF TradeSafe, TradeTypes, Partner
<1>3. trade.state = 0 => Gave(p) = {}
  BY <1>1 DEF TradeSafe
<1> QED
  BY <1>1, <1>2, <1>3

\* After a trade, each with what is handed back to him or over to the other.
LEMMA TradeOver ==
    ASSUME TradeSafe, NEW p1 \in Folk, NEW p2 \in Folk, {p1, p2} = {trade.c1, trade.c2}, return_items(p1, p2), Over,
           UNCHANGED <<seat, given>>, accepted' = <<accepted'[1], accepted'[2]>>,
           p1 = trade.c1 \/ accepted' = <<Offer, Offer>>
    PROVE  TradeSafe' /\ Fair
<1>1. PICK T1 \in SUBSET trade.itm1, T2 \in SUBSET trade.itm2 :
              /\ bag' \in [Folk -> SUBSET Goods]
              /\ \A p \in Folk : bag'[p] = bag[p] \cup (IF p = p1 THEN T1 ELSE {}) \cup (IF p = p2 THEN T2 ELSE {})
              /\ T1 # trade.itm1 => ~CanReceive(p1) \/ Cardinality(bag'[p1]) = Room
              /\ T2 # trade.itm2 => ~CanReceive(p2) \/ Cardinality(bag'[p2]) = Room
              /\ void' = {}
  BY HandedBack
<1>2. /\ trade' \in [state : 0 .. 2, c1 : Folk \cup {NoOne}, c2 : Folk \cup {NoOne},
                     itm1 : SUBSET Goods, itm2 : SUBSET Goods, ok1 : BOOLEAN, ok2 : BOOLEAN]
      /\ trade'.state = 0 /\ trade'.itm1 = {} /\ trade'.itm2 = {} /\ ~trade'.ok1 /\ ~trade'.ok2
  <2>1. trade' = [state |-> 0, c1 |-> trade.c1, c2 |-> trade.c2, itm1 |-> {}, itm2 |-> {}, ok1 |-> FALSE, ok2 |-> FALSE]
    BY DEF Over, TradeSafe, TradeTypes
  <2>2. trade.c1 \in Folk \cup {NoOne} /\ trade.c2 \in Folk \cup {NoOne}
    BY DEF TradeSafe, TradeTypes
  <2> QED
    BY <2>1, <2>2
<1>3. Kept' = {}
  BY <1>2 DEF Kept
<1>4. /\ \A p, q \in Folk : p # q => bag[p] \cap bag[q] = {}
      /\ \A p \in Folk : given.item \notin bag[p] /\ Kept \cap bag[p] = {}
      /\ given.item \notin Kept
      /\ trade.itm1 \cap trade.itm2 = {} /\ Kept = trade.itm1 \cup trade.itm2
  BY DEF TradeSafe, OnePlace, Kept
<1>5. \A p, q \in Folk : p # q => bag'[p] \cap bag'[q] = {}
  BY <1>1, <1>4
<1>6. \A p \in Folk : given.item \notin bag'[p]
  BY <1>1, <1>4
<1>7. TradeTypes' /\ OnePlace'
  BY <1>1, <1>2, <1>3, <1>5, <1>6 DEF TradeTypes, OnePlace, TradeSafe
<1>8. TradeSafe'
  BY <1>1, <1>2, <1>3, <1>7 DEF TradeSafe
<1>9. ASSUME NEW p \in {trade.c1, trade.c2} \cap Folk, NEW q, q = Partner(p)
      PROVE  /\ Gave(p) \cap bag'[q] # {} /\ p # q =>
                  accepted' = <<Offer, Offer>> /\ Gave(q) \cap bag'[q] = {}
             /\ Gave(p) \ (Kept' \cup bag'[p] \cup bag'[q]) # {} =>
                  \E r \in {p, q} : ~CanReceive(r) \/ Cardinality(bag'[r]) = Room
  <2>1. {p, q} = {p1, p2} /\ {p, q} = {trade.c1, trade.c2} /\ q \in Folk
    BY <1>9 DEF Partner
  <2>2. ASSUME Gave(p) \cap bag'[q] # {}, p # q PROVE accepted' = <<Offer, Offer>> /\ Gave(q) \cap bag'[q] = {}
    <3>1. CASE p = trade.c1
      <4>1. Gave(p) = trade.itm1 /\ q = trade.c2 /\ Gave(q) = trade.itm2
        BY <1>9, <2>2, <3>1 DEF Gave, Partner
      <4>2. p1 = q /\ p2 = p
        BY <1>1, <1>4, <2>1, <2>2, <4>1
      <4>3. bag'[q] = bag[q] \cup T1
        BY <1>1, <2>1, <2>2, <4>2
      <4> QED
        BY <1>4, <2>1, <2>2, <3>1, <4>1, <4>2, <4>3
    <3>2. CASE p # trade.c1
      <4>1. Gave(p) = trade.itm2 /\ q = trade.c1 /\ Gave(q) = trade.itm1 /\ p = trade.c2
        BY <1>9, <3>2 DEF Gave, Partner
      <4>2. p1 = p /\ p2 = q
        BY <1>1, <1>4, <2>1, <2>2, <4>1
      <4>3. bag'[q] = bag[q] \cup T2
        BY <1>1, <2>1, <2>2, <4>2
      <4> QED
        BY <1>4, <2>1, <2>2, <3>2, <4>1, <4>2, <4>3
    <3> QED
      BY <3>1, <3>2
  <2>3. ASSUME Gave(p) \ (Kept' \cup bag'[p] \cup bag'[q]) # {}
        PROVE  \E r \in {p, q} : ~CanReceive(r) \/ Cardinality(bag'[r]) = Room
    <3>1. /\ T1 \subseteq bag'[p1] /\ T2 \subseteq bag'[p2]
      BY <1>1
    <3>2. Gave(p) \in {trade.itm1, trade.itm2}
      BY DEF Gave
    <3>3. T1 # trade.itm1 \/ T2 # trade.itm2
      BY <2>1, <2>3, <3>1, <3>2
    <3> QED
      BY <1>1, <2>1, <3>3
  <2> QED
    BY <2>2, <2>3
<1> QED
  BY <1>8, <1>9, Zenon DEF Fair

\* Characters come and go, and change rooms.
LEMMA ComeAndGo ==
    ASSUME TradeSafe, seat' \in [Seats -> Folk \cup {NoOne}], UNCHANGED <<bag, given, trade, void, accepted>>
    PROVE  TradeSafe' /\ Fair
<1>1. TradeSafe'
  BY DEF TradeSafe, TradeTypes, OnePlace, Kept, Offer
<1>2. Kept' = Kept /\ \A p \in Folk : bag'[p] \cap Kept = {}
  BY DEF Kept, TradeSafe, OnePlace
<1> QED
  BY <1>1, <1>2, NothingHandedOver

\* A gift leaves the giver's inventory for the trader's hand.
LEMMA GiftGiven ==
    ASSUME TradeSafe, NEW s \in Seats, NEW i \in Goods, Gives(s, i) PROVE TradeSafe' /\ Fair
<1> DEFINE p0 == seat[s]
<1>1. /\ p0 \in Folk /\ i \in bag[p0] /\ given'.item = i /\ given'.seat = s
      /\ bag' = [bag EXCEPT ![p0] = @ \ {i}] /\ UNCHANGED <<seat, trade, void, accepted>>
  BY DEF Gives, Near, TradeSafe, TradeTypes
<1> HIDE DEF p0
<1>2. bag' \in [Folk -> SUBSET Goods] /\ bag'[p0] = bag[p0] \ {i} /\ \A p \in Folk \ {p0} : bag'[p] = bag[p]
  BY <1>1 DEF TradeSafe, TradeTypes
<1>3. /\ \A p, q \in Folk : p # q => bag[p] \cap bag[q] = {}
      /\ \A p \in Folk : Kept \cap bag[p] = {}
      /\ trade.itm1 \cap trade.itm2 = {} /\ Kept' = Kept /\ Offer' = Offer
  BY <1>1 DEF TradeSafe, OnePlace, Kept, Offer
<1>4. \A p \in Folk : i \notin bag'[p] /\ Kept \cap bag'[p] = {}
  BY <1>1, <1>2, <1>3
<1>5. \A p, q \in Folk : p # q => bag'[p] \cap bag'[q] = {}
  BY <1>2, <1>3
<1>6. OnePlace'
  BY <1>1, <1>3, <1>4, <1>5 DEF OnePlace
<1>7. TradeTypes'
  BY <1>1, <1>2 DEF TradeSafe, TradeTypes
<1>8. TradeSafe'
  BY <1>1, <1>3, <1>6, <1>7 DEF TradeSafe
<1> QED
  BY <1>3, <1>4, <1>8, NothingHandedOver

\* The trader keeps a gift for the trade, as long as nobody has accepted, or gives it back.
LEMMA GiftTaken ==
    ASSUME TradeSafe, TraderGiven PROVE TradeSafe' /\ Fair
<1> DEFINE i == given.item
           p0 == seat[given.seat]
<1>1. /\ given # NoGift /\ given' = NoGift /\ UNCHANGED <<seat, accepted>>
  BY DEF TraderGiven
<1>2. /\ i \in Goods \cup {NoGood}
      /\ \A p, q \in Folk : p # q => bag[p] \cap bag[q] = {}
      /\ \A p \in Folk : i \notin bag[p] /\ Kept \cap bag[p] = {}
      /\ i \notin Kept /\ trade.itm1 \cap trade.itm2 = {} /\ Kept = trade.itm1 \cup trade.itm2
      /\ bag \in [Folk -> SUBSET Goods]
  BY <1>1 DEF TradeSafe, TradeTypes, OnePlace, Kept
<1>3. given'.item = NoGood /\ given'.item \notin Goods
  BY <1>1, TradesAssumption DEF NoGift
<1>31. given' = NoGift
  BY <1>1
<1>4. CASE UNCHANGED <<trade, void>> /\ bag' = (IF p0 = NoOne THEN bag ELSE Handed(bag, p0, i)) /\ i \in Goods /\ p0 \in Folk \cup {NoOne}
  <2>1. CASE bag' = bag
    <3>1. TradeSafe'
      BY <1>1, <1>2, <1>3, <1>4, <2>1 DEF TradeSafe, TradeTypes, OnePlace, Kept, Offer, NoGift
    <3>2. Kept' = Kept
      BY <1>4 DEF Kept
    <3> QED
      BY <1>2, <2>1, <3>1, <3>2, NothingHandedOver
  <2>2. CASE p0 \in Folk /\ bag' = [bag EXCEPT ![p0] = @ \cup {i}]
    <3>1. bag' \in [Folk -> SUBSET Goods] /\ bag'[p0] = bag[p0] \cup {i} /\ \A p \in Folk \ {p0} : bag'[p] = bag[p]
      BY <1>2, <1>4, <2>2
    <3>2. Kept' = Kept /\ Offer' = Offer
      BY <1>4 DEF Kept, Offer
    <3>3. \A p \in Folk : Kept \cap bag'[p] = {}
      BY <1>2, <3>1
    <3>4. \A p, q \in Folk : p # q => bag'[p] \cap bag'[q] = {}
      BY <1>2, <3>1
    <3>5. OnePlace'
      <4>1. \A p \in Folk : given'.item \notin bag'[p]
        BY <1>3, <3>1
      <4>2. Kept \subseteq Goods
        BY DEF TradeSafe, TradeTypes, Kept
      <4> QED
        BY <1>2, <1>3, <1>4, <3>2, <3>3, <3>4, <4>1, <4>2 DEF OnePlace
    <3>6. TradeTypes'
      BY <1>1, <1>31, <1>4, <3>1 DEF TradeSafe, TradeTypes
    <3>7. TradeSafe'
      BY <1>1, <1>4, <3>2, <3>5, <3>6 DEF TradeSafe
    <3> QED
      BY <3>2, <3>3, <3>7, NothingHandedOver
  <2> QED
    BY <1>4, <2>1, <2>2 DEF Handed
<1>5. ASSUME i \in Goods, UNCHANGED bag, void' = void \cup {i}, trade.state = 1,
             \/ trade' = [trade EXCEPT !.itm1 = @ \cup {i}]
             \/ trade' = [trade EXCEPT !.itm2 = @ \cup {i}]
      PROVE  TradeSafe' /\ Fair
  <2>1. /\ trade' \in [state : 0 .. 2, c1 : Folk \cup {NoOne}, c2 : Folk \cup {NoOne},
                       itm1 : SUBSET Goods, itm2 : SUBSET Goods, ok1 : BOOLEAN, ok2 : BOOLEAN]
        /\ trade'.state = trade.state /\ trade'.c1 = trade.c1 /\ trade'.c2 = trade.c2
        /\ (trade'.ok1 => trade.ok1) /\ (trade'.ok2 => trade.ok2)
        /\ \/ trade'.itm1 = trade.itm1 \cup {i} /\ trade'.itm2 = trade.itm2
           \/ trade'.itm2 = trade.itm2 \cup {i} /\ trade'.itm1 = trade.itm1
    BY <1>5 DEF TradeSafe, TradeTypes
  <2>2. ~trade.ok1 /\ ~trade.ok2
    BY <1>5 DEF TradeSafe
  <2>3. Kept' = Kept \cup {i} /\ void' = Kept \cup {i}
    BY <1>5, <2>1 DEF Kept, TradeSafe
  <2>4. OnePlace'
    <3>1. trade'.itm1 \cap trade'.itm2 = {}
      BY <1>2, <2>1
    <3>2. \A p \in Folk : given'.item \notin bag'[p] /\ Kept' \cap bag'[p] = {}
      BY <1>2, <1>3, <1>5, <2>3
    <3>3. given'.item \notin Kept'
      <4>1. Kept \subseteq Goods
        BY DEF TradeSafe, TradeTypes, Kept
      <4> QED
        BY <1>3, <1>5, <2>3, <4>1
    <3> QED
      BY <1>2, <1>5, <3>1, <3>2, <3>3 DEF OnePlace
  <2>5. TradeTypes'
    BY <1>1, <1>31, <1>5, <2>1 DEF TradeSafe, TradeTypes
  <2>6. TradeSafe'
    BY <1>5, <2>1, <2>2, <2>3, <2>4, <2>5 DEF TradeSafe
  <2>7. Fair
    BY <1>2, <1>5, <2>3, NothingHandedOver
  <2> QED
    BY <2>6, <2>7
<1>6. i \in Goods /\ p0 \in Folk \cup {NoOne}
  BY <1>1 DEF TradeSafe, TradeTypes
<1> QED
  BY <1>4, <1>5, <1>6 DEF TraderGiven

\* A trade begins with nothing in it and nothing accepted.
LEMMA TradeStarts ==
    ASSUME TradeSafe, NEW s \in Seats, NEW p \in Folk, StartTrade(s, p) PROVE TradeSafe' /\ Fair
<1>1. /\ trade.state = 0 /\ seat[s] \in Folk
      /\ trade' = [trade EXCEPT !.state = 1, !.c1 = seat[s], !.c2 = p]
      /\ accepted' = <<NotYet, NotYet>> /\ UNCHANGED <<seat, bag, given, void>>
  BY DEF StartTrade, Near, TradeSafe, TradeTypes
<1>2. /\ ~trade.ok1 /\ ~trade.ok2 /\ Kept = {}
  BY <1>1 DEF TradeSafe
<1>3. trade' = [state |-> 1, c1 |-> seat[s], c2 |-> p, itm1 |-> trade.itm1, itm2 |-> trade.itm2, ok1 |-> FALSE, ok2 |-> FALSE]
  BY <1>1, <1>2 DEF TradeSafe, TradeTypes
<1>31. trade' \in [state : 0 .. 2, c1 : Folk \cup {NoOne}, c2 : Folk \cup {NoOne},
                  itm1 : SUBSET Goods, itm2 : SUBSET Goods, ok1 : BOOLEAN, ok2 : BOOLEAN]
  <2>1. trade.itm1 \in SUBSET Goods /\ trade.itm2 \in SUBSET Goods /\ seat[s] \in Folk \cup {NoOne} /\ 1 \in 0 .. 2
    BY <1>1 DEF TradeSafe, TradeTypes
  <2> QED
    BY <1>3, <2>1
<1>4. /\ trade'.state = 1 /\ trade'.c1 = seat[s] /\ trade'.c2 = p /\ ~trade'.ok1 /\ ~trade'.ok2
      /\ trade'.itm1 = trade.itm1 /\ trade'.itm2 = trade.itm2 /\ Kept' = Kept
  BY <1>3 DEF Kept
<1>5. TradeTypes'
  BY <1>1, <1>31, <1>4 DEF TradeSafe, TradeTypes
<1>6. OnePlace'
  BY <1>1, <1>4 DEF TradeSafe, OnePlace
<1>7. TradeSafe'
  BY <1>1, <1>2, <1>4, <1>5, <1>6 DEF TradeSafe
<1>8. \A q \in Folk : bag'[q] \cap Kept = {}
  BY <1>1, <1>2
<1> QED
  BY <1>4, <1>7, <1>8, NothingHandedOver

\* One side accepts what lies there: it stays so, or both have, and all is handed over.
LEMMA TradeAccepted ==
    ASSUME TradeSafe, NEW s \in Seats, AcceptTrade(s) PROVE TradeSafe' /\ Fair
<1> DEFINE ok1 == trade.ok1 \/ seat[s] = trade.c1
           ok2 == trade.ok2 \/ seat[s] = trade.c2
<1>1. /\ trade.state # 0 /\ trade.c1 \in Folk /\ trade.c2 \in Folk
      /\ accepted' = <<IF seat[s] = trade.c1 THEN Offer ELSE accepted[1],
                       IF seat[s] = trade.c2 THEN Offer ELSE accepted[2]>>
      /\ UNCHANGED <<seat, given>>
  BY DEF AcceptTrade, Party, TradeSafe, TradeTypes
<1>2. (ok1 => accepted'[1] = Offer) /\ (ok2 => accepted'[2] = Offer)
  BY <1>1 DEF TradeSafe
<1>3. accepted' = <<accepted'[1], accepted'[2]>>
  BY <1>1
<1>4. CASE ok1 /\ ok2
  <2>1. return_items(trade.c2, trade.c1) /\ Over
    BY <1>4 DEF AcceptTrade
  <2>2. accepted' = <<Offer, Offer>>
    BY <1>2, <1>3, <1>4
  <2> QED
    BY <1>1, <2>1, <2>2, TradeOver
<1>5. CASE ~(ok1 /\ ok2)
  <2>1. trade' = [trade EXCEPT !.state = 2, !.ok1 = ok1, !.ok2 = ok2] /\ UNCHANGED <<bag, void>>
    BY <1>5 DEF AcceptTrade
  <2>2. /\ trade'.state = 2 /\ (trade'.ok1 <=> ok1) /\ (trade'.ok2 <=> ok2)
        /\ trade'.c1 = trade.c1 /\ trade'.c2 = trade.c2 /\ trade'.itm1 = trade.itm1 /\ trade'.itm2 = trade.itm2
        /\ trade' \in [state : 0 .. 2, c1 : Folk \cup {NoOne}, c2 : Folk \cup {NoOne},
                       itm1 : SUBSET Goods, itm2 : SUBSET Goods, ok1 : BOOLEAN, ok2 : BOOLEAN]
    <3>1. ok1 \in BOOLEAN /\ ok2 \in BOOLEAN
      BY DEF TradeSafe, TradeTypes
    <3> HIDE DEF ok1, ok2
    <3>2. trade' = [state |-> 2, c1 |-> trade.c1, c2 |-> trade.c2, itm1 |-> trade.itm1, itm2 |-> trade.itm2,
                    ok1 |-> ok1, ok2 |-> ok2]
      BY <2>1 DEF TradeSafe, TradeTypes
    <3>3. /\ trade.itm1 \in SUBSET Goods /\ trade.itm2 \in SUBSET Goods
          /\ trade.c1 \in Folk \cup {NoOne} /\ trade.c2 \in Folk \cup {NoOne} /\ 2 \in 0 .. 2
      BY DEF TradeSafe, TradeTypes
    <3> QED
      BY <3>1, <3>2, <3>3
  <2>3. Kept' = Kept /\ Offer' = Offer
    BY <2>2 DEF Kept, Offer
  <2>4. TradeTypes'
    BY <1>1, <1>3, <2>1, <2>2 DEF TradeSafe, TradeTypes
  <2>5. OnePlace'
    BY <1>1, <2>1, <2>2, <2>3 DEF TradeSafe, OnePlace
  <2>6. TradeSafe'
    BY <1>1, <1>2, <2>1, <2>2, <2>3, <2>4, <2>5 DEF TradeSafe
  <2>7. \A p \in Folk : bag'[p] \cap Kept = {}
    BY <2>1 DEF TradeSafe, OnePlace
  <2> QED
    BY <2>3, <2>6, <2>7, NothingHandedOver
<1> QED
  BY <1>4, <1>5

\* Every step keeps the trader's goods in one place and cheats nobody.
LEMMA TradesStep == TradeSafe /\ [TradesNext]_tradesVars => TradeSafe' /\ Fair
<1> SUFFICES ASSUME TradeSafe, [TradesNext]_tradesVars PROVE TradeSafe' /\ Fair
  OBVIOUS
<1>1. CASE UNCHANGED tradesVars
  <2>1. seat' \in [Seats -> Folk \cup {NoOne}] /\ UNCHANGED <<bag, given, trade, void, accepted>>
    BY <1>1 DEF tradesVars, TradeSafe, TradeTypes
  <2> QED
    BY <2>1, ComeAndGo
<1>2. ASSUME NEW s \in Seats, NEW p \in Folk, LogsIn(s, p) PROVE TradeSafe' /\ Fair
  <2>1. seat' \in [Seats -> Folk \cup {NoOne}] /\ UNCHANGED <<bag, given, trade, void, accepted>>
    BY <1>2 DEF LogsIn, TradeSafe, TradeTypes
  <2> QED
    BY <2>1, ComeAndGo
<1>3. ASSUME NEW s \in Seats, LogsOut(s) PROVE TradeSafe' /\ Fair
  <2>1. seat' \in [Seats -> Folk \cup {NoOne}] /\ UNCHANGED <<bag, given, trade, void, accepted>>
    BY <1>3 DEF LogsOut, TradeSafe, TradeTypes
  <2> QED
    BY <2>1, ComeAndGo
<1>4. ASSUME NEW p \in Folk, Gatekeeper(p) PROVE TradeSafe' /\ Fair
  <2>1. seat' \in [Seats -> Folk \cup {NoOne}] /\ UNCHANGED <<bag, given, trade, void, accepted>>
    BY <1>4 DEF Gatekeeper, TradeSafe, TradeTypes
  <2> QED
    BY <2>1, ComeAndGo
<1>5. ASSUME NEW s \in Seats, StopTrade(s) PROVE TradeSafe' /\ Fair
  <2>1. /\ trade.c1 \in Folk /\ trade.c2 \in Folk /\ return_items(trade.c1, trade.c2) /\ Over
        /\ UNCHANGED <<seat, given>> /\ accepted' = <<accepted'[1], accepted'[2]>>
    BY <1>5 DEF StopTrade, Party, TradeSafe, TradeTypes
  <2> QED
    BY <2>1, TradeOver
<1>6. ASSUME TradeTimeout PROVE TradeSafe' /\ Fair
  <2>1. /\ trade.c1 \in Folk /\ trade.c2 \in Folk /\ return_items(trade.c1, trade.c2) /\ Over
        /\ UNCHANGED <<seat, given>> /\ accepted' = <<accepted'[1], accepted'[2]>>
    BY <1>6 DEF TradeTimeout, TradeSafe, TradeTypes
  <2> QED
    BY <2>1, TradeOver
<1> QED
  BY <1>1, <1>2, <1>3, <1>4, <1>5, <1>6, TradeStarts, TradeAccepted, GiftGiven, GiftTaken DEF TradesNext

\* A trade is fair, for any number of players, places and goods: no good is in two places,
\* the trader keeps nothing without a trade, and what one has given reaches the other only
\* when both have accepted what is handed over (trader_driver).
THEOREM TradesAlwaysFair == TradesSpec => TradesFair
<1>1. TradesInit => TradeSafe
  <2> SUFFICES ASSUME TradesInit PROVE TradeSafe
    OBVIOUS
  <2>1. /\ trade = NoTrade /\ given = NoGift /\ bag = Owns /\ void = {} /\ accepted = <<NotYet, NotYet>>
        /\ seat = [s \in Seats |-> NoOne]
    BY DEF TradesInit
  <2>2. Kept = {} /\ trade.itm1 = {} /\ trade.itm2 = {}
    BY <2>1 DEF Kept, NoTrade
  <2>3. TradeTypes
    BY <2>1, TradesAssumption DEF TradeTypes, NoTrade
  <2>4. OnePlace
    <3>1. \A p \in Folk : given.item \notin bag[p]
      BY <2>1, TradesAssumption DEF NoGift
    <3> QED
      BY <2>1, <2>2, <3>1, TradesAssumption DEF OnePlace
  <2> QED
    BY <2>1, <2>2, <2>3, <2>4 DEF TradeSafe, NoTrade
<1>2. TradeSafe /\ [TradesNext]_tradesVars => TradeSafe' /\ [Fair]_tradesVars
  BY TradesStep
<1>3. TradesSpec => []TradeSafe
  BY <1>1, <1>2, PTL DEF TradesSpec
<1>4. TradesSpec => []HeldOnce
  BY <1>3, OnePlaceCounts, PTL
<1>5. TradesSpec => [][Fair]_tradesVars
  BY <1>2, <1>3, PTL DEF TradesSpec
<1>6. [][Fair]_tradesVars => NobodyCheated
  <2>1. [Fair]_tradesVars => [\A p \in {trade.c1, trade.c2} \cap Folk :
          LET q == Partner(p)
          IN /\ Gave(p) \cap bag'[q] # {} /\ p # q =>
                   accepted' = <<Offer, Offer>> /\ Gave(q) \cap bag'[q] = {}
             /\ Gave(p) \ (Kept' \cup bag'[p] \cup bag'[q]) # {} =>
                   \E r \in {p, q} : ~CanReceive(r) \/ Cardinality(bag'[r]) = Room]_tradesVars
    BY DEF Fair
  <2> QED
    BY <2>1, PTL DEF NobodyCheated
<1> QED
  BY <1>4, <1>5, <1>6, PTL DEF TradesFair

-----------------------------------------------------------------------------
(* Ruby's favours.                                                           *)

Favours == Shrooms \cup Twenties \cup {"skull", "ring", "wrong recipe"}

RubyTypes ==
    /\ tour \subseteq StoryAreas
    /\ DOMAIN stage = Visitors /\ DOMAIN quiet = Visitors
    /\ \A v \in Visitors : DOMAIN stage[v] = tour /\ DOMAIN quiet[v] = tour
    /\ favours \in [Visitors -> SUBSET Favours]
    /\ parlour \in [Visitors -> 0 .. 15] /\ offer \in [Visitors -> Nat]

RubySafe == RubyTypes /\ RubyFair

\* A set of lines has a first.
LEMMA FirstLine ==
    ASSUME NEW S \in SUBSET Nat, S # {} PROVE Min(S) \in S
<1>1. PICK x \in S : \A y \in S : ~ (<<y, x>> \in OpToRel(<, Nat))
  BY NatLessThanWellFounded, WFMin
<1>2. ASSUME NEW y \in S PROVE x =< y
  <2>1. <<y, x>> \in Nat \X Nat /\ <<y, x>>[1] = y /\ <<y, x>>[2] = x
    OBVIOUS
  <2>2. <<y, x>> \notin {p \in Nat \X Nat : p[1] < p[2]}
    BY <1>1 DEF OpToRel
  <2> QED
    BY <2>1, <2>2
<1> QED
  BY <1>2 DEF Min

\* In a story, no other line is for the state at which she gives thanks.
OneThanks(story) ==
    /\ \A i, j \in DOMAIN story : story[j].test = "sets" /\ story[i].at = story[j].at => i = j
    /\ \A i \in DOMAIN story : story[i].test = "sets" => story[i].of \subseteq Favours
    /\ DOMAIN story \subseteq Nat

\* So it is in each of the stories.
LEMMA Thanks2 == OneThanks(Ruby2)
<1> DEFINE story == Ruby2
<1>1. DOMAIN story = 1 .. 8 /\ 1 .. 8 \subseteq Nat
  BY DEF Ruby2
<1>2. \A i \in 1 .. 8 : story[i].test = "sets" => i \in {7}
  BY DEF Ruby2, Line, Asks, Without, With, Awaits, Thanks, Farewell
<1>3. \A i \in 1 .. 8 : story[i].at \in {6} => i \in {7}
  BY DEF Ruby2, Line, Asks, Without, With, Awaits, Thanks, Farewell
<1>4. /\ story[7].at = 6 /\ story[7].of = {"skull"}
  BY DEF Ruby2, Line, Asks, Without, With, Awaits, Thanks, Farewell
<1>5. \A i \in {7} : story[i].of \subseteq Favours
  BY <1>4 DEF Favours, Shrooms, Twenties
<1> HIDE DEF story
<1>6. OneThanks(story)
  BY <1>1, <1>2, <1>3, <1>4, <1>5 DEF OneThanks
<1> QED
  BY <1>6 DEF story

\* She gives thanks for each of the mushrooms.
LEMMA Thanks5 == OneThanks(Ruby5)
<1> DEFINE story == Ruby5
<1>1. DOMAIN story = 1 .. 17 /\ 1 .. 17 \subseteq Nat
  BY DEF Ruby5
<1>2. \A i \in 1 .. 17 : story[i].test = "sets" => i \in {12, 13, 14}
  BY DEF Ruby5, Line, Asks, Without, With, Awaits, Thanks, Farewell
<1>3. \A i \in 1 .. 17 : story[i].at \in {8, 9, 10} => i \in {12, 13, 14}
  BY DEF Ruby5, Line, Asks, Without, With, Awaits, Thanks, Farewell
<1>4. /\ story[12].at = 8 /\ story[12].of = {"ghestroz"}
      /\ story[13].at = 9 /\ story[13].of = {"hangot"}
      /\ story[14].at = 10 /\ story[14].of = {"ivnan"}
  BY DEF Ruby5, Line, Asks, Without, With, Awaits, Thanks, Farewell
<1>5. \A i \in {12, 13, 14} : story[i].of \subseteq Favours
  BY <1>4 DEF Favours, Shrooms, Twenties
<1> HIDE DEF story
<1>6. OneThanks(story)
  BY <1>1, <1>2, <1>3, <1>4, <1>5 DEF OneThanks
<1> QED
  BY <1>6 DEF story

\* The stories that are alike.
LEMMA ThanksSimple == ASSUME NEW item \in Favours PROVE OneThanks(Simple(item))
<1> DEFINE story == Simple(item)
<1>1. DOMAIN story = 1 .. 5 /\ 1 .. 5 \subseteq Nat
  BY DEF Simple
<1>2. \A i \in 1 .. 5 : story[i].test = "sets" => i \in {4}
  BY DEF Simple, Line, Asks, Without, With, Awaits, Thanks, Farewell
<1>3. \A i \in 1 .. 5 : story[i].at \in {3} => i \in {4}
  BY DEF Simple, Line, Asks, Without, With, Awaits, Thanks, Farewell
<1>4. /\ story[4].at = 3 /\ story[4].of = {item}
  BY DEF Simple, Line, Asks, Without, With, Awaits, Thanks, Farewell
<1>5. \A i \in {4} : story[i].of \subseteq Favours
  BY <1>4 DEF Favours, Shrooms, Twenties
<1> HIDE DEF story
<1>6. OneThanks(story)
  BY <1>1, <1>2, <1>3, <1>4, <1>5 DEF OneThanks
<1> QED
  BY <1>6 DEF story

\* The ring.
LEMMA Thanks11 == OneThanks(Ruby11)
<1> DEFINE story == Ruby11
<1>1. DOMAIN story = 1 .. 8 /\ 1 .. 8 \subseteq Nat
  BY DEF Ruby11
<1>2. \A i \in 1 .. 8 : story[i].test = "sets" => i \in {6}
  BY DEF Ruby11, Line, Asks, Without, With, Awaits, Thanks, Farewell
<1>3. \A i \in 1 .. 8 : story[i].at \in {5} => i \in {6}
  BY DEF Ruby11, Line, Asks, Without, With, Awaits, Thanks, Farewell
<1>4. /\ story[6].at = 5 /\ story[6].of = {"ring"}
  BY DEF Ruby11, Line, Asks, Without, With, Awaits, Thanks, Farewell
<1>5. \A i \in {6} : story[i].of \subseteq Favours
  BY <1>4 DEF Favours, Shrooms, Twenties
<1> HIDE DEF story
<1>6. OneThanks(story)
  BY <1>1, <1>2, <1>3, <1>4, <1>5 DEF OneThanks
<1> QED
  BY <1>6 DEF story

\* The spade.
LEMMA Thanks16 == OneThanks(Ruby16)
<1> DEFINE story == Ruby16
<1>1. DOMAIN story = 1 .. 6 /\ 1 .. 6 \subseteq Nat
  BY DEF Ruby16
<1>2. \A i \in 1 .. 6 : story[i].test = "sets" => i \in {5}
  BY DEF Ruby16, Line, Asks, Without, With, Awaits, Thanks, Farewell
<1>3. \A i \in 1 .. 6 : story[i].at \in {4} => i \in {5}
  BY DEF Ruby16, Line, Asks, Without, With, Awaits, Thanks, Farewell
<1>4. /\ story[5].at = 4 /\ story[5].of = {"spade"}
  BY DEF Ruby16, Line, Asks, Without, With, Awaits, Thanks, Farewell
<1>5. \A i \in {5} : story[i].of \subseteq Favours
  BY <1>4 DEF Favours, Shrooms, Twenties
<1> HIDE DEF story
<1>6. OneThanks(story)
  BY <1>1, <1>2, <1>3, <1>4, <1>5 DEF OneThanks
<1> QED
  BY <1>6 DEF story

\* The recipe, right or wrong.
LEMMA Thanks17 == OneThanks(Ruby17)
<1> DEFINE story == Ruby17
<1>1. DOMAIN story = 1 .. 4 /\ 1 .. 4 \subseteq Nat
  BY DEF Ruby17
<1>2. \A i \in 1 .. 4 : i \notin {3, 4} => i = 1 \/ i = 2
  OBVIOUS
<1>3. story[1].at = 0 /\ story[2].at = 1 /\ story[1].test = "always" /\ story[2].test = "always"
  BY DEF Ruby17, Line, Asks
<1>4. /\ story[3].at = 2 /\ story[3].of = {"recipe"}
      /\ story[4].at = 3 /\ story[4].of = {"wrong recipe"}
  BY DEF Ruby17, Line, Asks, Without, With, Awaits, Thanks, Farewell
<1>5. \A i \in {3, 4} : story[i].of \subseteq Favours
  BY <1>4 DEF Favours, Shrooms, Twenties
<1> HIDE DEF story
<1>6. OneThanks(story)
  <2>1. ASSUME NEW i \in 1 .. 4, NEW j \in 1 .. 4, story[j].test = "sets", story[i].at = story[j].at PROVE i = j
    <3>1. j = 3 \/ j = 4
      BY <1>2, <1>3, <2>1
    <3>2. i = 1 \/ i = 2 \/ i = 3 \/ i = 4
      BY <1>2
    <3>3. story[1].at = 0 /\ story[2].at = 1 /\ story[3].at = 2 /\ story[4].at = 3
      BY <1>3, <1>4
    <3>4. CASE j = 3
      BY <2>1, <3>2, <3>3, <3>4
    <3>5. CASE j = 4
      BY <2>1, <3>2, <3>3, <3>5
    <3> QED
      BY <3>1, <3>4, <3>5
  <2>2. ASSUME NEW i \in 1 .. 4, story[i].test = "sets" PROVE story[i].of \subseteq Favours
    BY <1>2, <1>3, <1>5, <2>2
  <2> QED
    BY <1>1, <2>1, <2>2 DEF OneThanks
<1> QED
  BY <1>6 DEF story

\* No story has two lines for the state at which she gives thanks.
LEMMA StoriesThank == \A a \in StoryAreas : OneThanks(Story(a))
<1> SUFFICES ASSUME NEW a \in StoryAreas PROVE OneThanks(Story(a))
  OBVIOUS
<1>1. {"orange crystal", "red crystal", "scroll", "torch", "head"} \subseteq Favours
  BY DEF Favours, Twenties
<1>2. /\ OneThanks(Ruby6) /\ OneThanks(Ruby8) /\ OneThanks(Ruby10) /\ OneThanks(Ruby12) /\ OneThanks(Ruby15)
  BY <1>1, ThanksSimple DEF Ruby6, Ruby8, Ruby10, Ruby12, Ruby15
<1>3. Story(a) \in {Ruby2, Ruby5, Ruby6, Ruby8, Ruby10, Ruby11, Ruby12, Ruby15, Ruby16, Ruby17}
  BY DEF Story, StoryAreas
<1> QED
  BY <1>2, <1>3, Thanks2, Thanks5, Thanks11, Thanks16, Thanks17

\* More favours are worth no less.
LEMMA DebtGrows ==
    ASSUME RubyTypes, NEW v \in Visitors, favours' \in [Visitors -> SUBSET Favours], favours[v] \subseteq favours'[v]
    PROVE  Debt(v) \in Nat /\ Debt(v)' \in Nat /\ Debt(v) <= Debt(v)'
<1>1. ASSUME NEW S, IsFiniteSet(S)
      PROVE  /\ Counted(v, S) \in Nat /\ Cardinality(favours'[v] \cap S) \in Nat
             /\ Counted(v, S) <= Cardinality(favours'[v] \cap S)
  <2>1. IsFiniteSet(favours'[v] \cap S)
    BY <1>1, FS_Intersection
  <2>2. favours[v] \cap S \subseteq favours'[v] \cap S
    OBVIOUS
  <2> QED
    BY <2>1, <2>2, FS_Subset, FS_CardinalityType DEF Counted
<1>2. IsFiniteSet(Shrooms) /\ IsFiniteSet(Twenties) /\ IsFiniteSet({"skull"}) /\ IsFiniteSet({"ring"})
  <2>1. ASSUME NEW S, NEW x, IsFiniteSet(S) PROVE IsFiniteSet(S \cup {x})
    BY <2>1, FS_AddElement
  <2>2. IsFiniteSet({"skull"}) /\ IsFiniteSet({"ring"})
    BY FS_Singleton
  <2>3. IsFiniteSet(Shrooms)
    <3>1. Shrooms = {"ghestroz"} \cup {"hangot"} \cup {"ivnan"}
      BY DEF Shrooms
    <3> QED
      BY <2>1, <3>1, FS_Singleton
  <2>4. IsFiniteSet(Twenties)
    <3>1. Twenties = {"orange crystal"} \cup {"red crystal"} \cup {"scroll"} \cup {"torch"} \cup {"head"} \cup {"spade"} \cup {"recipe"}
      BY DEF Twenties
    <3>2. IsFiniteSet({"orange crystal"} \cup {"red crystal"} \cup {"scroll"} \cup {"torch"})
      BY <2>1, FS_Singleton
    <3> QED
      BY <2>1, <3>1, <3>2
  <2> QED
    BY <2>2, <2>3, <2>4
<1>3. /\ Debt(v) = 10 * Counted(v, Shrooms) + 20 * Counted(v, Twenties) + 40 * Counted(v, {"skull"}) + 50 * Counted(v, {"ring"})
      /\ Debt(v)' = 10 * Counted(v, Shrooms)' + 20 * Counted(v, Twenties)' + 40 * Counted(v, {"skull"})' + 50 * Counted(v, {"ring"})'
  BY DEF Debt
<1>4. \A S : Counted(v, S)' = Cardinality(favours'[v] \cap S)
  BY DEF Counted
<1>5. ASSUME NEW S, IsFiniteSet(S) PROVE Counted(v, S) \in Nat /\ Counted(v, S)' \in Nat /\ Counted(v, S) <= Counted(v, S)'
  BY <1>1, <1>4, <1>5
<1> QED
  BY <1>2, <1>3, <1>5

-----------------------------------------------------------------------------

\* What is as before for everybody, favours apart, which only grow.
LEMMA FavoursGrow ==
    ASSUME RubySafe, favours' \in [Visitors -> SUBSET Favours], \A v \in Visitors : favours[v] \subseteq favours'[v],
           UNCHANGED <<parlour, offer>>
    PROVE  RubyOwes'
<1> SUFFICES ASSUME NEW v \in Visitors
             PROVE  /\ parlour'[v] >= 3 => Debt(v)' >= Enough
                    /\ parlour'[v] >= 12 => offer'[v] <= Debt(v)'
  BY DEF RubyOwes
<1>1. Debt(v) \in Nat /\ Debt(v)' \in Nat /\ Debt(v) <= Debt(v)'
  BY DebtGrows DEF RubySafe
<1>2. offer[v] \in Nat /\ parlour[v] \in 0 .. 15 /\ Enough = 30
  BY DEF RubySafe, RubyTypes, Enough
<1>3. (parlour[v] >= 3 => Debt(v) >= Enough) /\ (parlour[v] >= 12 => offer[v] <= Debt(v))
  BY DEF RubySafe, RubyFair, RubyOwes
<1> QED
  BY <1>1, <1>2, <1>3

\* What Ruby knows at one place about one visitor.
Knows(v, a) ==
    \A i \in DOMAIN Story(a) :
        (/\ Story(a)[i].test = "sets"
         /\ quiet[v][a] = "done" /\ stage[v][a] = Story(a)[i].at)
            => Story(a)[i].of \subseteq favours[v]

\* Everywhere but at one place, and about everybody else, she knows what she knew.
LEMMA OnlyHere ==
    ASSUME RubySafe, NEW v \in Visitors, NEW a \in tour, tour' = tour,
           DOMAIN stage' = Visitors, DOMAIN quiet' = Visitors,
           \A w \in Visitors : DOMAIN stage'[w] = tour /\ DOMAIN quiet'[w] = tour,
           favours' \in [Visitors -> SUBSET Favours], \A w \in Visitors : favours[w] \subseteq favours'[w],
           \A w \in Visitors, b \in tour : <<w, b>> # <<v, a>> => stage'[w][b] = stage[w][b] /\ quiet'[w][b] = quiet[w][b],
           UNCHANGED <<parlour, offer>>, Knows(v, a)'
    PROVE  RubySafe'
<1>1. RubyTypes'
  BY DEF RubySafe, RubyTypes
<1>2. RubyOwes'
  BY FavoursGrow
<1>3. ASSUME NEW w \in Visitors, NEW b \in tour PROVE Knows(w, b)'
  <2>1. CASE <<w, b>> = <<v, a>>
    BY <2>1
  <2>2. CASE <<w, b>> # <<v, a>>
    <3>1. stage'[w][b] = stage[w][b] /\ quiet'[w][b] = quiet[w][b] /\ favours[w] \subseteq favours'[w]
      BY <2>2
    <3>2. Knows(w, b)
      BY DEF RubySafe, RubyFair, RubyKnows, Knows
    <3> QED
      BY <3>1, <3>2 DEF Knows
  <2> QED
    BY <2>1, <2>2
<1>4. RubyKnows'
  BY <1>3 DEF RubyKnows, Knows
<1> QED
  BY <1>1, <1>2, <1>4 DEF RubySafe, RubyFair

\* One field of a table of tables.
LEMMA OneField ==
    ASSUME NEW f, DOMAIN f = Visitors, \A w \in Visitors : DOMAIN f[w] = tour,
           NEW v \in Visitors, NEW a \in tour, NEW x
    PROVE  LET g == [f EXCEPT ![v][a] = x] IN
           /\ DOMAIN g = Visitors /\ \A w \in Visitors : DOMAIN g[w] = tour
           /\ g[v][a] = x
           /\ \A w \in Visitors, b \in tour : <<w, b>> # <<v, a>> => g[w][b] = f[w][b]
<1> DEFINE g == [f EXCEPT ![v][a] = x]
<1>1. DOMAIN g = Visitors
  OBVIOUS
<1>2. g[v] = [f[v] EXCEPT ![a] = x] /\ \A w \in Visitors \ {v} : g[w] = f[w]
  OBVIOUS
<1> HIDE DEF g
<1>3. DOMAIN g[v] = tour /\ g[v][a] = x /\ \A b \in tour \ {a} : g[v][b] = f[v][b]
  BY <1>2
<1>4. \A w \in Visitors : DOMAIN g[w] = tour
  BY <1>2, <1>3
<1>5. \A w \in Visitors, b \in tour : <<w, b>> # <<v, a>> => g[w][b] = f[w][b]
  BY <1>2, <1>3
<1>6. DOMAIN g = Visitors /\ (\A w \in Visitors : DOMAIN g[w] = tour) /\ g[v][a] = x
      /\ \A w \in Visitors, b \in tour : <<w, b>> # <<v, a>> => g[w][b] = f[w][b]
  BY <1>1, <1>3, <1>4, <1>5
<1> QED
  BY <1>6 DEF g

\* She says the line that fits; if it was her thanks, she remembers the favour.
LEMMA StoryTold ==
    ASSUME RubySafe, NEW v \in Visitors, NEW a \in tour, DoStory(v, a), tour' = tour PROVE RubySafe'
<1>0. /\ DOMAIN stage = Visitors /\ DOMAIN quiet = Visitors /\ favours \in [Visitors -> SUBSET Favours]
      /\ \A w \in Visitors : DOMAIN stage[w] = tour /\ DOMAIN quiet[w] = tour
      /\ UNCHANGED <<parlour, offer>> /\ a \in StoryAreas
  BY DEF DoStory, RubySafe, RubyTypes
<1>1. OneThanks(Story(a))
  BY <1>0, StoriesThank
<1>2. CASE Suited(v, a) = {}
  <2>1. quiet' = [quiet EXCEPT ![v][a] = "done"] /\ UNCHANGED <<stage, favours>>
    BY <1>2 DEF DoStory
  <2>2. /\ DOMAIN quiet' = Visitors /\ \A w \in Visitors : DOMAIN quiet'[w] = tour
        /\ \A w \in Visitors, b \in tour : <<w, b>> # <<v, a>> => quiet'[w][b] = quiet[w][b]
    BY <1>0, <2>1, OneField
  <2>3. ASSUME NEW i \in DOMAIN Story(a), Story(a)[i].test = "sets", stage[v][a] = Story(a)[i].at
        PROVE  Story(a)[i].of \subseteq favours[v]
    <3>1. i \notin Suited(v, a)
      BY <1>2
    <3>2. ~Fits(v, Story(a)[i])
      BY <2>3, <3>1 DEF Suited
    <3> QED
      BY <2>3, <3>2 DEF Fits
  <2>4. Knows(v, a)'
    BY <2>1, <2>3 DEF Knows
  <2> QED
    BY <1>0, <2>1, <2>2, <2>4, OnlyHere
<1>3. CASE Suited(v, a) # {}
  <2> DEFINE i0 == Min(Suited(v, a))
             l == Story(a)[i0]
             goesOn == l.answers = {} /\ l.next # 0 /\ l.test # "item"
  <2>1. i0 \in Suited(v, a)
    <3>1. Suited(v, a) \in SUBSET Nat
      BY <1>1 DEF Suited, OneThanks
    <3> QED
      BY <1>3, <3>1, FirstLine
  <2>2. i0 \in DOMAIN Story(a) /\ l.at = stage[v][a]
    BY <2>1 DEF Suited
  <2>3. /\ favours' = IF l.test = "sets" THEN [favours EXCEPT ![v] = @ \cup l.of] ELSE favours
        /\ stage' = IF goesOn THEN [stage EXCEPT ![v][a] = l.next] ELSE stage
        /\ quiet' = [quiet EXCEPT ![v][a] = IF l.answers # {} THEN "minute" ELSE IF goesOn THEN "no" ELSE "done"]
    BY <1>3 DEF DoStory, Spoken
  <2>4. l.test = "sets" => l.of \subseteq Favours
    BY <1>1, <2>2 DEF OneThanks
  <2> HIDE DEF i0, l, goesOn
  <2>5. /\ favours' \in [Visitors -> SUBSET Favours] /\ \A w \in Visitors : favours[w] \subseteq favours'[w]
        /\ l.test = "sets" => l.of \subseteq favours'[v]
    BY <1>0, <2>3, <2>4
  <2>6. /\ DOMAIN stage' = Visitors /\ \A w \in Visitors : DOMAIN stage'[w] = tour
        /\ \A w \in Visitors, b \in tour : <<w, b>> # <<v, a>> => stage'[w][b] = stage[w][b]
    BY <1>0, <2>3, OneField
  <2>7. /\ DOMAIN quiet' = Visitors /\ \A w \in Visitors : DOMAIN quiet'[w] = tour
        /\ \A w \in Visitors, b \in tour : <<w, b>> # <<v, a>> => quiet'[w][b] = quiet[w][b]
        /\ quiet'[v][a] = IF l.answers # {} THEN "minute" ELSE IF goesOn THEN "no" ELSE "done"
    BY <1>0, <2>3, OneField
  <2>8. Knows(v, a)'
    <3> SUFFICES ASSUME NEW i \in DOMAIN Story(a), Story(a)[i].test = "sets", quiet'[v][a] = "done",
                        stage'[v][a] = Story(a)[i].at
                 PROVE  Story(a)[i].of \subseteq favours'[v]
      BY DEF Knows
    <3>1. ~goesOn
      BY <2>7
    <3>2. stage' = stage
      BY <2>3, <3>1
    <3>3. Story(a)[i0].at = Story(a)[i].at
      BY <2>2, <3>2 DEF l
    <3>4. i0 = i
      BY <1>1, <2>2, <3>3 DEF OneThanks
    <3> QED
      BY <2>5, <3>4 DEF l
  <2> QED
    BY <1>0, <2>5, <2>6, <2>7, <2>8, OnlyHere
<1> QED
  BY <1>2, <1>3

\* Whatever makes her ready to speak again.
LEMMA ReadyAgain ==
    ASSUME RubySafe, NEW v \in Visitors, NEW a \in tour, tour' = tour, NEW x, x # "done",
           quiet' = [quiet EXCEPT ![v][a] = x],
           stage' = stage \/ \E next : stage' = [stage EXCEPT ![v][a] = next],
           UNCHANGED <<favours, parlour, offer>>
    PROVE  RubySafe'
<1>0. /\ DOMAIN stage = Visitors /\ DOMAIN quiet = Visitors /\ favours \in [Visitors -> SUBSET Favours]
      /\ \A w \in Visitors : DOMAIN stage[w] = tour /\ DOMAIN quiet[w] = tour
  BY DEF RubySafe, RubyTypes
<1>1. /\ DOMAIN quiet' = Visitors /\ \A w \in Visitors : DOMAIN quiet'[w] = tour
      /\ \A w \in Visitors, b \in tour : <<w, b>> # <<v, a>> => quiet'[w][b] = quiet[w][b]
      /\ quiet'[v][a] = x
  BY <1>0, OneField
<1>2. /\ DOMAIN stage' = Visitors /\ \A w \in Visitors : DOMAIN stage'[w] = tour
      /\ \A w \in Visitors, b \in tour : <<w, b>> # <<v, a>> => stage'[w][b] = stage[w][b]
  BY <1>0, OneField
<1>3. Knows(v, a)'
  BY <1>1 DEF Knows
<1> QED
  BY <1>0, <1>1, <1>2, <1>3, OnlyHere

\* A minute passes, or she pays attention to nobody.
LEMMA RubyWaited ==
    ASSUME RubySafe, NEW a \in tour, RubyWaits(a), tour' = tour PROVE RubySafe'
<1>1. CASE UNCHANGED quiet
  <2>1. UNCHANGED <<stage, quiet, favours, parlour, offer, tour>>
    BY <1>1 DEF RubyWaits
  <2>2. \A v \in Visitors : Debt(v)' = Debt(v)
    BY <2>1 DEF Debt, Counted
  <2>3. RubyOwes'
    BY <2>1, <2>2 DEF RubySafe, RubyFair, RubyOwes
  <2> QED
    BY <2>1, <2>3 DEF RubySafe, RubyTypes, RubyFair, RubyKnows
<1>2. CASE \E v \in Visitors : quiet' = [quiet EXCEPT ![v][a] = "no"]
  BY <1>2, ReadyAgain DEF RubyWaits
<1> QED
  BY <1>1, <1>2 DEF RubyWaits

\* A step of her bargaining: it is opened for enough, and offers what is owed.
LEMMA Bargained ==
    ASSUME RubySafe, NEW v \in Visitors, tour' = tour, UNCHANGED <<stage, quiet, favours>>,
           NEW next \in 0 .. 15, parlour' = [parlour EXCEPT ![v] = next],
           next >= 3 => parlour[v] >= 3 \/ Debt(v) >= Enough,
           (offer' = offer /\ (next >= 12 => parlour[v] >= 12)) \/ offer' = [offer EXCEPT ![v] = Debt(v)]
    PROVE  RubySafe'
<1>1. /\ \A w \in Visitors : Debt(w)' = Debt(w)
      /\ \A w \in Visitors : Debt(w) \in Nat
  <2>1. \A w \in Visitors : Debt(w)' = Debt(w)
    BY DEF Debt, Counted
  <2>2. ASSUME NEW w \in Visitors PROVE Debt(w) \in Nat
    <3>1. RubyTypes /\ favours' \in [Visitors -> SUBSET Favours] /\ favours[w] \subseteq favours'[w]
      BY DEF RubySafe, RubyTypes
    <3> QED
      BY <3>1, DebtGrows
  <2> QED
    BY <2>1, <2>2
<1>2. /\ parlour' \in [Visitors -> 0 .. 15] /\ parlour'[v] = next
      /\ \A w \in Visitors \ {v} : parlour'[w] = parlour[w]
  BY DEF RubySafe, RubyTypes
<1>3. /\ offer' \in [Visitors -> Nat] /\ \A w \in Visitors \ {v} : offer'[w] = offer[w]
      /\ offer'[v] = offer[v] \/ offer'[v] = Debt(v)
  BY <1>1 DEF RubySafe, RubyTypes
<1>4. RubyTypes'
  BY <1>2, <1>3 DEF RubySafe, RubyTypes
<1>5. ASSUME NEW w \in Visitors PROVE /\ parlour'[w] >= 3 => Debt(w) >= Enough
                                      /\ parlour'[w] >= 12 => offer'[w] <= Debt(w)
  <2>1. /\ parlour[w] >= 3 => Debt(w) >= Enough
        /\ parlour[w] >= 12 => offer[w] <= Debt(w)
    BY DEF RubySafe, RubyFair, RubyOwes
  <2>2. CASE w # v
    BY <1>2, <1>3, <2>1, <2>2
  <2>3. CASE w = v
    <3>1. next >= 3 => Debt(v) >= Enough
      BY <2>1, <2>3
    <3>2. CASE offer' = offer /\ (next >= 12 => parlour[v] >= 12)
      BY <1>2, <2>1, <2>3, <3>1, <3>2
    <3>3. CASE offer' = [offer EXCEPT ![v] = Debt(v)]
      <4>1. offer'[v] = Debt(v)
        BY <3>3 DEF RubySafe, RubyTypes
      <4> QED
        BY <1>1, <1>2, <2>3, <3>1, <4>1
    <3> QED
      BY <3>2, <3>3
  <2> QED
    BY <2>2, <2>3
<1>6. RubyOwes'
  BY <1>1, <1>5 DEF RubyOwes
<1> QED
  BY <1>4, <1>6 DEF RubySafe, RubyFair, RubyKnows

\* What she does when she sees the visitor at her house.
LEMMA AtHerHouse ==
    ASSUME RubySafe, NEW v \in Visitors, RubyAston(v), tour' = tour PROVE RubySafe'
<1>0. parlour[v] \in 0 .. 15
  BY DEF RubySafe, RubyTypes
<1>1. PICK s \in {0, parlour[v]} :
        /\ s # 15
        /\ \E next \in Bargain(v, s) : parlour' = [parlour EXCEPT ![v] = next]
        /\ offer' = (IF s = 11 THEN [offer EXCEPT ![v] = Debt(v)] ELSE offer)
        /\ UNCHANGED <<stage, quiet, favours>>
  BY DEF RubyAston
<1>2. PICK next \in Bargain(v, s) : parlour' = [parlour EXCEPT ![v] = next]
  BY <1>1
<1>3. s \in 0 .. 14 /\ (s # 0 => s = parlour[v])
  BY <1>0, <1>1
<1>4. \/ s = 0 /\ next = (IF Debt(v) >= Enough THEN 3 ELSE 1)
      \/ s = 2 /\ next \in {0, 2}
      \/ s = 4 /\ next \in {0, 5}
      \/ s \in {7, 9, 12, 14} /\ next = s
      \/ s \notin {0, 2, 4, 7, 9, 12, 14} /\ next = s + 1
  BY <1>2 DEF Bargain
<1>5. /\ next \in 0 .. 15
      /\ next >= 3 => parlour[v] >= 3 \/ Debt(v) >= Enough
      /\ next >= 12 => parlour[v] >= 12 \/ s = 11
  BY <1>0, <1>3, <1>4
<1> QED
  BY <1>1, <1>2, <1>5, Bargained

\* What he says to her there, and her gift, with which she forgets everything.
LEMMA ToldRuby ==
    ASSUME RubySafe, NEW v \in Visitors, RubyAstonText(v), tour' = tour PROVE RubySafe'
<1>0. parlour[v] \in 0 .. 15
  BY DEF RubySafe, RubyTypes
<1>1. UNCHANGED <<stage, quiet, favours, offer>>
  BY DEF RubyAstonText
<1>2. \E next \in 0 .. 15 : /\ parlour' = [parlour EXCEPT ![v] = next]
                            /\ next >= 3 => parlour[v] >= 3
                            /\ next >= 12 => parlour[v] >= 12
  <2>1. CASE parlour[v] \in {7, 9} /\ parlour' = [parlour EXCEPT ![v] = @ + 1]
    <3>1. parlour' = [parlour EXCEPT ![v] = parlour[v] + 1]
      BY <2>1
    <3>2. parlour[v] + 1 \in 0 .. 15 /\ parlour[v] >= 3 /\ ~(parlour[v] + 1 >= 12)
      BY <2>1
    <3> QED
      BY <3>1, <3>2
  <2>2. CASE parlour[v] = 12 /\ \E next \in {13, 15} : parlour' = [parlour EXCEPT ![v] = next]
    <3>1. PICK next \in {13, 15} : parlour' = [parlour EXCEPT ![v] = next]
      BY <2>2
    <3>2. next \in 0 .. 15 /\ parlour[v] >= 3 /\ parlour[v] >= 12
      BY <2>2
    <3> QED
      BY <3>1, <3>2
  <2>3. CASE parlour' = [parlour EXCEPT ![v] = 0]
    <3>1. 0 \in 0 .. 15 /\ ~(0 >= 3) /\ ~(0 >= 12)
      OBVIOUS
    <3> QED
      BY <2>3, <3>1
  <2> QED
    BY <2>1, <2>2, <2>3 DEF RubyAstonText
<1> QED
  BY <1>1, <1>2, Bargained

\* Her gift ends it: favours, stories and bargain are forgotten together.
LEMMA RubyPaid ==
    ASSUME RubySafe, NEW v \in Visitors, RubyPays(v), tour' = tour PROVE RubySafe'
<1>1. /\ favours' = [favours EXCEPT ![v] = {}] /\ parlour' = [parlour EXCEPT ![v] = 0]
      /\ stage' = [stage EXCEPT ![v] = [a \in tour |-> 0]]
      /\ quiet' = [quiet EXCEPT ![v] = [a \in tour |-> "no"]] /\ offer' = offer
  BY DEF RubyPays, Forget
<1>2. RubyTypes'
  BY <1>1 DEF RubySafe, RubyTypes
<1>3. /\ \A w \in Visitors \ {v} : /\ favours'[w] = favours[w] /\ parlour'[w] = parlour[w]
                                   /\ stage'[w] = stage[w] /\ quiet'[w] = quiet[w]
      /\ parlour'[v] = 0 /\ \A a \in tour : quiet'[v][a] = "no"
  BY <1>1 DEF RubySafe, RubyTypes
<1>4. \A w \in Visitors \ {v} : Debt(w)' = Debt(w)
  BY <1>3 DEF Debt, Counted
<1>5. RubyOwes'
  BY <1>1, <1>3, <1>4 DEF RubySafe, RubyFair, RubyOwes
<1>6. RubyKnows'
  BY <1>3 DEF RubySafe, RubyFair, RubyKnows
<1> QED
  BY <1>2, <1>5, <1>6 DEF RubySafe, RubyFair

\* Ruby stays fair in every step.
LEMMA RubyStep == RubySafe /\ [RubyNext]_rubyVars => RubySafe'
<1> SUFFICES ASSUME RubySafe, [RubyNext]_rubyVars PROVE RubySafe'
  OBVIOUS
<1>1. CASE UNCHANGED rubyVars
  <2>1. UNCHANGED <<stage, quiet, favours, parlour, offer, tour>>
    BY <1>1 DEF rubyVars
  <2>2. \A v \in Visitors : Debt(v)' = Debt(v)
    BY <2>1 DEF Debt, Counted
  <2>3. RubyOwes'
    BY <2>1, <2>2 DEF RubySafe, RubyFair, RubyOwes
  <2> QED
    BY <2>1, <2>3 DEF RubySafe, RubyTypes, RubyFair, RubyKnows
<1>2. ASSUME NEW v \in Visitors, NEW a \in tour, HearStory(v, a), tour' = tour PROVE RubySafe'
  <2>1. /\ quiet' = [quiet EXCEPT ![v][a] = "no"] /\ \E next : stage' = [stage EXCEPT ![v][a] = next]
        /\ UNCHANGED <<favours, parlour, offer>>
    BY <1>2 DEF HearStory
  <2> QED
    BY <1>2, <2>1, ReadyAgain
<1>3. ASSUME NEW v \in Visitors, NEW a \in tour, SayRepeat(v, a), tour' = tour PROVE RubySafe'
  BY <1>3, ReadyAgain DEF SayRepeat
<1>4. ASSUME NEW v \in Visitors, NEW a \in tour, NEW item, GiveStory(v, a, item), tour' = tour PROVE RubySafe'
  <2>1. /\ quiet' = [quiet EXCEPT ![v][a] = "no"] /\ \E next : stage' = [stage EXCEPT ![v][a] = next]
        /\ UNCHANGED <<favours, parlour, offer>>
    BY <1>4 DEF GiveStory
  <2> QED
    BY <1>4, <2>1, ReadyAgain
<1> QED
  BY <1>1, <1>2, <1>3, <1>4, StoryTold, RubyWaited, AtHerHouse, ToldRuby, RubyPaid DEF RubyNext

\* What Ruby gives is earned and what was earned she knows, for any visitors, wherever
\* they meet her (do_story, ruby_aston_char).
THEOREM RubyAlwaysFair == RubySpec => []RubyFair
<1>1. RubyInit /\ tour \subseteq StoryAreas => RubySafe
  BY DEF RubyInit, RubySafe, RubyTypes, RubyFair, RubyOwes, RubyKnows
<1>2. RubySafe => RubyFair
  BY DEF RubySafe
<1> QED
  BY <1>1, <1>2, RubyStep, PTL DEF RubySpec
=============================================================================
