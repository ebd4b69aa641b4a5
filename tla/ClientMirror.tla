---------------------------- MODULE ClientMirror ----------------------------
(* What a player's client shows. The server keeps a copy of it and sends     *)
(* differences only: of the tiles in view that were marked during the tick,  *)
(* of the effects there, and of the character's own belongings. A tick lets  *)
(* every character act, then sends, then brings in those who have logged in. *)
EXTENDS Integers, FiniteSets

CONSTANTS
    Tiles,          \* a row of tiles 1 .. n
    Dist,           \* how far the client looks to each side
    DoorTile,       \* the tile with a door
    LampTile,       \* the tile that a lamp lights, and where a thing may lie
    EffectSlots,    \* the server's slots for effects
    CacheSlots      \* the client's slots for effects

ASSUME RowOfTiles ==
    /\ 1 \in Tiles /\ Tiles \subseteq Nat \ {0}
    /\ Dist \in Nat \ {0} /\ {DoorTile, LampTile} \subseteq Tiles
ASSUME FiniteSlots ==
    IsFiniteSet(EffectSlots) /\ IsFiniteSet(CacheSlots) /\ 0 \notin EffectSlots

Viewer == 1
Other == 2
Figures == {Viewer, Other}
Cells == 0 .. 2 * Dist
NoFigure == 0

VARIABLES
    place,      \* the tile of each character slot, 0 when not on the map
    doing,      \* what it does; "fresh" until its first action (duration 0)
    health, bearer,     \* the other's health, and who is in the slot
    doorShut, lampLit, thing,
    marked,     \* tiles marked with set_sector since the tick began
    losReset,   \* the viewer's line of sight must be built again
    todo,       \* characters that tick_char has not reached
    phase,      \* "chars", "sent" or "login"
    cmap, origin,       \* the server's copy of the client's map
    known,      \* the name the client has for the other's slot, 0 when reset
    overlooked, \* cells whose sight a door has changed and no sending has looked at
    happening   \* what a behaviour has happen to the scene (a bound)

viewVars == <<happening, place, doing, health, bearer, doorShut, lampLit, thing, marked, losReset, todo, phase, cmap, origin, known, overlooked>>
sceneVars == <<doorShut, lampLit, thing>>
clientVars == <<cmap, origin, known, overlooked>>

Blank == [sight |-> FALSE, char |-> NoFigure, does |-> "idle", health |-> 0, thing |-> FALSE]

ViewInit ==
    /\ place = [c \in Figures |-> IF c = Viewer THEN 1 ELSE 0]
    /\ doing = [c \in Figures |-> "fresh"]
    /\ health = 1 /\ bearer = 1
    /\ doorShut \in BOOLEAN /\ lampLit = ~doorShut /\ thing = FALSE
    /\ marked = {} /\ losReset = TRUE
    /\ todo = {Viewer} /\ phase = "chars"
    /\ cmap = [k \in Cells |-> Blank] /\ origin = 0 /\ known = 0 /\ overlooked = {}
    /\ happening \in {"hurt", "leave", "door", "lamp", "thing"}

OnMap(c) == place[c] # 0
At(t) == CHOOSE c \in Figures : place[c] = t
Occupied(t) == \E c \in Figures : place[c] = t

-----------------------------------------------------------------------------
(* tick_char takes the characters newest first (alloc_char), the other before *)
(* the viewer. One in the middle of an action is left alone; one that         *)
(* finishes an action chooses the next. Its tile is marked unless it was      *)
(* idle and stays idle, with nothing changed about it.                        *)

Turn(c) == phase = "chars" /\ c \in todo /\ (c = Viewer => Other \notin todo)

MidAction(c) ==
    /\ Turn(c) /\ doing[c] # "fresh"
    /\ todo' = todo \ {c}
    /\ UNCHANGED <<place, doing, health, bearer, sceneVars, marked, losReset, phase, clientVars>>

\* A mutant: the last duration is not looked at.
MarksIfBusy(last, action, smallUpdate) ==
    last = "walk" \/ action # "idle" \/ smallUpdate
MarksItself(last, action, smallUpdate) ==
    last \in {"walk", "fresh"} \/ action # "idle" \/ smallUpdate

\* A step of a walk ends on a free tile, and the tile left is marked too.
StepTo(c, t) ==
    IF doing[c] = "walk"
    THEN t \in Tiles /\ t \in {place[c] - 1, place[c] + 1} /\ ~Occupied(t) /\ ~(t = DoorTile /\ doorShut)
    ELSE t = place[c]

tick_char(c) ==
    /\ Turn(c)
    /\ \E t \in Tiles, action \in {"idle", "walk"}, regenerated \in 0 .. 1 :
        /\ StepTo(c, t) \/ t = place[c]
        /\ regenerated = 1 => c = Other /\ health = 0
        /\ place' = [place EXCEPT ![c] = t]
        /\ doing' = [doing EXCEPT ![c] = action]
        /\ health' = health + regenerated
        /\ marked' = marked
                \cup {u \in {place[c], t} : t # place[c]}
                \cup {u \in {t} : MarksItself(doing[c], action, regenerated = 1)}
    /\ todo' = todo \ {c}
    /\ UNCHANGED <<bearer, sceneVars, losReset, phase, clientVars>>

\* What happens to the scene while characters act: the other is hurt, a door
\* is used, a lamp is lit, a thing is dropped or taken, the other leaves.
hurt ==
    /\ phase = "chars" /\ OnMap(Other) /\ health = 1
    /\ health' = 0 /\ marked' = marked \cup {place[Other]}
    /\ UNCHANGED <<place, doing, bearer, sceneVars, losReset, todo, phase, clientVars>>

use_door ==
    /\ phase = "chars" /\ todo # {} /\ ~Occupied(DoorTile)
    /\ doorShut' = ~doorShut /\ marked' = marked \cup {DoorTile} /\ losReset' = TRUE
    /\ UNCHANGED <<place, doing, health, bearer, lampLit, thing, todo, phase, clientVars>>

add_light ==
    /\ phase = "chars" /\ todo # {}
    /\ lampLit' = ~lampLit /\ marked' = marked \cup {LampTile}
    /\ UNCHANGED <<place, doing, health, bearer, doorShut, thing, losReset, todo, phase, clientVars>>

item_on_map ==
    /\ phase = "chars" /\ todo # {}
    /\ thing' = ~thing /\ marked' = marked \cup {LampTile}
    /\ UNCHANGED <<place, doing, health, bearer, doorShut, lampLit, losReset, todo, phase, clientVars>>

remove_char ==
    /\ phase = "chars" /\ OnMap(Other)
    /\ marked' = marked \cup {place[Other]}
    /\ place' = [place EXCEPT ![Other] = 0] /\ todo' = todo \ {Other}
    /\ UNCHANGED <<doing, health, bearer, sceneVars, losReset, phase, clientVars>>

-----------------------------------------------------------------------------
(* player_map *)

\* The client moves its picture along with a step, and only then.
Scrolled ==
    IF origin # 0 /\ place[Viewer] = origin + 1 THEN [k \in Cells |-> cmap[IF k = 2 * Dist THEN k ELSE k + 1]]
    ELSE IF origin # 0 /\ place[Viewer] = origin - 1 THEN [k \in Cells |-> cmap[IF k = 0 THEN k ELSE k - 1]]
    ELSE cmap

TileOf(k) == place[Viewer] + k - Dist

\* A door hides what is behind it; unlit tiles show only next to the viewer.
fast_los(t) ==
    doorShut => (place[Viewer] - DoorTile) * (t - DoorTile) >= 0
InSight(t) ==
    /\ t \in Tiles
    /\ t = LampTile => lampLit \/ t - place[Viewer] \in {-1, 0, 1}
    /\ fast_los(t)

ThingAt(t) == IF t = LampTile THEN thing ELSE FALSE

\* An unseen cell is only flagged: what the client has there stays.
Picture(old, t) ==
    IF ~InSight(t) THEN [old EXCEPT !.sight = FALSE]
    ELSE IF ~Occupied(t) THEN [sight |-> TRUE, thing |-> ThingAt(t), char |-> NoFigure, does |-> "idle", health |-> 0]
    ELSE [sight |-> TRUE, thing |-> ThingAt(t), char |-> At(t), does |-> doing[At(t)],
          health |-> IF At(t) = Other THEN health ELSE 1]

\* Anything that asks what the viewer sees (he fights, talks or is told of
\* something: los_can_see) builds a stale table. The sending then knows of the
\* change only where tiles were marked, which a door does for its own alone.
BeyondDoor(t) == (place[Viewer] - DoorTile) * (t - DoorTile) < 0

los_can_see ==
    /\ phase = "chars" /\ losReset /\ losReset' = FALSE
    /\ overlooked' = overlooked \cup {k \in Cells : BeyondDoor(TileOf(k))}
    /\ UNCHANGED <<place, doing, health, bearer, sceneVars, marked, todo, phase, cmap, origin, known>>

Redo == losReset \/ origin # place[Viewer]
Examined(k) == Redo \/ TileOf(k) \in marked

player_map ==
    /\ phase = "chars" /\ todo = {}
    /\ cmap' = [k \in Cells |-> IF Examined(k) THEN Picture(Scrolled[k], TileOf(k)) ELSE Scrolled[k]]
    /\ known' = IF \E k \in Cells : Examined(k) /\ TileOf(k) = place[Other] /\ InSight(TileOf(k)) /\ known = 0
                THEN bearer ELSE known
    /\ origin' = place[Viewer] /\ losReset' = FALSE
    /\ overlooked' = {k \in overlooked : ~Examined(k)}
    /\ phase' = "sent"
    /\ UNCHANGED <<place, doing, health, bearer, sceneVars, marked, todo>>

\* The tick ends with tick_login: one who has loaded gets his slot, whose name
\* every client forgets, and a tile; that mark comes after the sending, and
\* the next tick's marks are new ones.
EndTick ==
    /\ phase = "sent" /\ phase' = "chars" /\ marked' = {}
    /\ \/ /\ ~OnMap(Other)
          /\ \E t \in Tiles \ {place[Viewer], DoorTile} : place' = [place EXCEPT ![Other] = t]
          /\ doing' = [doing EXCEPT ![Other] = "fresh"]
          /\ health' = 1 /\ bearer' \in 1 .. 2 /\ known' = 0
       \/ UNCHANGED <<place, doing, health, bearer, known>>
    /\ todo' = {c \in Figures : place'[c] # 0}
    /\ UNCHANGED <<sceneVars, losReset, cmap, origin, overlooked>>

ViewNext ==
    /\ UNCHANGED happening
    /\ \/ \E c \in Figures : MidAction(c) \/ tick_char(c)
       \/ happening = "hurt" /\ hurt
       \/ happening = "leave" /\ remove_char
       \/ happening = "door" /\ use_door
       \/ happening = "lamp" /\ add_light
       \/ happening = "thing" /\ item_on_map
       \/ los_can_see \/ player_map \/ EndTick

\* Every cell shows what is there, and the other under his name; but for cells
\* that a door has hidden or opened without the sending's noticing.
MapShown ==
    phase = "sent" => \A k \in Cells \ overlooked :
        /\ cmap[k] = Picture(cmap[k], TileOf(k))
        /\ OnMap(Other) /\ TileOf(k) = place[Other] /\ cmap[k].sight => known = bearer

-----------------------------------------------------------------------------
(* Effects: the client has far fewer slots than the server (MAXEF), and what *)
(* finds none free is left out. An entry names the server's slot, and is     *)
(* worth nothing once that slot holds another effect.                        *)

VARIABLES
    ef,         \* the server's slots: free, or a kind with a serial
    inView,     \* the tile with the other, and with the effects, is seen
    efMarked,   \* that tile was marked, or everything is examined
    ceffect, usedef,    \* the client's entries, and those it is told to show
    full,               \* when the tile was last examined, every slot came into use
    efSent              \* the tick's sending is done

effectVars == <<ef, inView, efMarked, ceffect, usedef, full, efSent>>

EffectKinds == {"bless", "mist", "ball"}   \* on a character, on a tile, flying elsewhere
NoEffect == [kind |-> "none", serial |-> 0]
NoEntry == [nr |-> 0, kind |-> "none", content |-> 0, serial |-> 0]

is_char_ceffect(kind) == kind = "bless"
InPlace(f) == ef[f].kind \in {"bless", "mist"}

EffectInit ==
    /\ ef = [f \in EffectSlots |-> NoEffect]
    /\ inView = TRUE /\ efMarked = TRUE /\ efSent = FALSE
    /\ ceffect = [n \in CacheSlots |-> NoEntry] /\ usedef = {} /\ full = FALSE

\* A serial that nobody has or remembers stands for the next of the counter.
NewSerial ==
    CHOOSE s \in 1 .. Cardinality(EffectSlots) + Cardinality(CacheSlots) :
        /\ \A f \in EffectSlots : ef[f].serial # s
        /\ \A n \in CacheSlots : ceffect[n].serial # s

create_effect(f) ==
    /\ ~efSent /\ ef[f] = NoEffect
    /\ \E k \in EffectKinds :
        /\ ef' = [ef EXCEPT ![f] = [kind |-> k, serial |-> NewSerial]]
        /\ efMarked' = (efMarked \/ k # "ball")
    /\ UNCHANGED <<inView, ceffect, usedef, full, efSent>>

remove_effect(f) ==
    /\ ~efSent /\ ef[f] # NoEffect
    /\ ef' = [ef EXCEPT ![f] = NoEffect]
    /\ efMarked' = (efMarked \/ InPlace(f))
    /\ UNCHANGED <<inView, ceffect, usedef, full, efSent>>

\* The other walks into sight or out of it, with a mark each way.
Appear ==
    /\ ~efSent /\ inView' = ~inView /\ efMarked' = TRUE
    /\ UNCHANGED <<ef, ceffect, usedef, full, efSent>>

InViewNow == {f \in EffectSlots : efMarked /\ inView /\ InPlace(f)}

\* What the client must be shown of the tiles that are examined: the first
\* MAXEF, which are as many as it has slots.
NeedEf(needef) ==
    /\ needef \subseteq InViewNow /\ Cardinality(needef) <= Cardinality(CacheSlots)
    /\ needef = InViewNow \/ Cardinality(needef) = Cardinality(CacheSlots)

fill_ceffect(f) == [nr |-> f, kind |-> ef[f].kind, content |-> ef[f].serial, serial |-> ef[f].serial]

\* An entry stays in use while its effect lives: at the character's side as
\* long as he is seen, elsewhere always.
StillUsed(e) ==
    /\ e.nr # 0 /\ ef[e.nr] # NoEffect /\ ef[e.nr].serial = e.serial
    /\ is_char_ceffect(e.kind) => inView

Cached(needef) == {n \in CacheSlots : ceffect[n].nr \in needef}
Refreshed(needef) == [n \in CacheSlots |-> IF n \in Cached(needef) THEN fill_ceffect(ceffect[n].nr) ELSE ceffect[n]]
KeptSlots(needef) == Cached(needef) \cup {n \in CacheSlots : StillUsed(Refreshed(needef)[n])}
Missing(needef) == needef \ {ceffect[n].nr : n \in Cached(needef)}

\* The missing ones take the slots not in use, until there are none.
Transmit(needef, placed, into) ==
    /\ \A f, g \in placed : into[f] = into[g] => f = g
    /\ ceffect' = [n \in CacheSlots |->
            IF \E f \in placed : into[f] = n THEN fill_ceffect(CHOOSE f \in placed : into[f] = n)
            ELSE Refreshed(needef)[n]]
    /\ usedef' = KeptSlots(needef) \cup {into[f] : f \in placed}
    /\ placed = Missing(needef) \/ usedef' = CacheSlots

SendEffects ==
    /\ ~efSent /\ efSent' = TRUE
    /\ \E needef \in SUBSET EffectSlots : NeedEf(needef) /\ \E placed \in SUBSET Missing(needef) :
            \E into \in [placed -> CacheSlots \ KeptSlots(needef)] : Transmit(needef, placed, into)
    /\ full' = IF efMarked THEN usedef' = CacheSlots ELSE full
    /\ UNCHANGED <<ef, inView, efMarked>>

EffectTick ==
    /\ efSent /\ efSent' = FALSE /\ efMarked' = FALSE
    /\ UNCHANGED <<ef, inView, ceffect, usedef, full>>

EffectNext ==
    \/ \E f \in EffectSlots : create_effect(f) \/ remove_effect(f)
    \/ Appear \/ SendEffects \/ EffectTick

\* The effects in view are shown, unless the slots ran out, and what is shown
\* is as it is.
EffectsShown ==
    efSent =>
        /\ inView /\ ~full => \A f \in EffectSlots : InPlace(f) => \E n \in usedef : ceffect[n] = fill_ceffect(f)
        /\ \A n \in usedef : ceffect[n] = fill_ceffect(ceffect[n].nr)

-----------------------------------------------------------------------------
(* The character himself: what he holds (items and gold), his values and     *)
(* what he has opened. Possessions and values are compared only when a flag  *)
(* says that they may have changed; everything else in every tick.           *)

VARIABLES own, contents, flagged, shown, order, statsSent
statsVars == <<own, contents, flagged, shown, order, statsSent>>

Holdings == {"none", "sword"}
Stores == {"none", "chest", "shop"}     \* the depot is shown as a chest
Flags == {"CF_ITEMS", "CF_UPDATE"}
NewClient == [hand |-> "none", value |-> 0, con |-> "none", count |-> 0, ware |-> "none", act |-> "idle"]

StatsInit ==
    /\ own = [hand |-> "none", value |-> 1, open |-> "none"]
    /\ contents = [c \in Stores |-> "none"]
    /\ flagged = Flags /\ shown = NewClient /\ order = "idle" /\ statsSent = FALSE

Changes(field, value, flag) ==
    /\ ~statsSent /\ own' = [own EXCEPT ![field] = value] /\ flagged' = flagged \cup {flag}
    /\ UNCHANGED <<contents, shown, order, statsSent>>

\* An item changes hands with a chest, a shop or the depot.
SwapWith(c) ==
    /\ ~statsSent /\ own.open = c /\ c # "none" /\ own.hand # contents[c]
    /\ own' = [own EXCEPT !.hand = contents[c]] /\ contents' = [contents EXCEPT ![c] = own.hand]
    /\ flagged' = flagged \cup {"CF_ITEMS"}
    /\ UNCHANGED <<shown, order, statsSent>>

\* Others use the same chest and shop.
Restocked(c, g) ==
    /\ ~statsSent /\ c \in {"chest", "shop"} /\ contents[c] # g /\ contents' = [contents EXCEPT ![c] = g]
    /\ UNCHANGED <<own, flagged, shown, order, statsSent>>

Opens(c) ==
    /\ ~statsSent /\ own' = [own EXCEPT !.open = c]
    /\ UNCHANGED <<contents, flagged, shown, order, statsSent>>

Orders(a) ==
    /\ ~statsSent /\ order' = a
    /\ UNCHANGED <<own, contents, flagged, shown, statsSent>>

\* A new client takes the character over: it knows nothing yet.
read_login ==
    /\ ~statsSent /\ shown' = NewClient /\ flagged' = Flags /\ order' = "idle"
    /\ UNCHANGED <<own, contents, statsSent>>

player_stats(old) ==
    LET items == "CF_ITEMS" \in flagged
        opened == own.open # "none"
    IN [hand |-> IF items THEN own.hand ELSE old.hand,
        value |-> IF "CF_UPDATE" \in flagged THEN own.value ELSE old.value,
        con |-> IF own.open = "shop" THEN "shop" ELSE IF opened THEN "chest" ELSE old.con,
        count |-> IF opened THEN 1 ELSE 0,
        ware |-> IF opened THEN contents[own.open] ELSE old.ware,
        act |-> old.act]

player_act(old) == [old EXCEPT !.act = order]

SendStats ==
    /\ ~statsSent /\ statsSent' = TRUE
    /\ shown' = player_act(player_stats(shown)) /\ flagged' = {}
    /\ UNCHANGED <<own, contents, order>>

StatsNext ==
    \/ Changes("value", 1 - own.value, "CF_UPDATE")
    \/ \E g \in Holdings : Changes("hand", g, "CF_ITEMS")
    \/ \E c \in Stores : SwapWith(c) \/ Opens(c) \/ \E g \in Holdings : Restocked(c, g)
    \/ \E a \in {"idle", "kill"} : Orders(a)
    \/ read_login \/ SendStats
    \/ statsSent /\ statsSent' = FALSE /\ UNCHANGED <<own, contents, flagged, shown, order>>

\* Once sent, the client has the character's possessions, values and store.
StatsShown ==
    statsSent =>
        /\ shown.hand = own.hand /\ shown.value = own.value /\ shown.act = order
        /\ shown.count = 1 <=> own.open # "none"
        /\ own.open # "none" => shown.ware = contents[own.open] /\ (shown.con = "shop" <=> own.open = "shop")

MirrorSpec ==
    /\ ViewInit /\ [][ViewNext]_viewVars
    /\ EffectInit /\ [][EffectNext]_effectVars
    /\ StatsInit /\ [][StatsNext]_statsVars

\* After every tick's sending the player sees the world as it is: the tiles in
\* his sight with who stands there under his own name, the effects, and what
\* he has (player_map, player_stats; set_sector, tick_char and reset_name are
\* what it hangs on, and the order of the main loop). Two things he may miss:
\* what a door hides or shows when somebody asks for his line of sight before
\* the sending does, until it is looked at again; and the effects for which
\* the client had no slot when they were last looked at.
ViewCurrent == MapShown /\ EffectsShown /\ StatsShown
=============================================================================
