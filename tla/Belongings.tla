----------------------------- MODULE Belongings -----------------------------
(***************************************************************************)
(* Who has what: items on characters, on the map and in graves (map.c,     *)
(* container.c), the actions that move them (do.c starts one, act.c ends   *)
(* it some ticks later), death and its graves (death.c), expiry (expire.c) *)
(* and theft (prof.c).                                                     *)
(*                                                                         *)
(* The characters stand around a few tiles which all can reach.  Items,    *)
(* characters and containers live in tables whose entries are used again;  *)
(* every link is kept on both sides.                                       *)
(***************************************************************************)
EXTENDS Integers, FiniteSets, Functions

CONSTANTS Humans, Beasts,        \* names of players and of monsters
          Slots,                 \* places in the character table
          Items,                 \* places in the item table, a set of numbers > 0
          Ground,                \* tiles
          AutoPocket, Thieves,   \* players with that option, with that profession
          StartingKit,           \* what a name brings along when it first appears
          MaxRaised, MaxDeaths   \* bounds: how often a name enters the game, deaths

Names == Humans \cup Beasts
Vacant == "vacant"
NoItem == 0
NoKit == [hand |-> "none", pack |-> "none", gold |-> 0]

\* What a saved item can be; a grave is never carried, so it is never saved.
KitKinds == {"none", "thing", "money", "relic"}

ASSUME BelongingsAssumption ==
    /\ IsFiniteSet(Items) /\ Items \subseteq Nat \ {0} /\ Ground \subseteq Nat \ {0}
    /\ IsFiniteSet(Slots) /\ 0 \notin Slots /\ IsFiniteSet(Names)
    /\ Humans \cap Beasts = {} /\ Vacant \notin Names
    /\ AutoPocket \subseteq Humans /\ Thieves \subseteq Humans
    /\ StartingKit \in [Names -> [hand : KitKinds, pack : KitKinds, gold : Nat]]
    /\ MaxRaised \in Nat /\ MaxDeaths \in Nat

VARIABLES ch,        \* the character table
          it,        \* the item table
          con,       \* the container of each item that is a grave
          ground,    \* map[].it
          kit,       \* what is saved for those who are not in the game
          raised,    \* how often each has entered
          deaths

belongVars == <<ch, it, con, ground, kit, raised, deaths>>

Nowhere == [kind |-> "none", carried |-> Vacant, tile |-> 0, inside |-> NoItem, value |-> 0, first |-> Vacant]
NoGrave == [owner |-> Vacant, killer |-> Vacant, access |-> Vacant, items |-> {}]
NoChar == [who |-> Vacant, hand |-> NoItem, pack |-> NoItem, gold |-> 0,
           action |-> "idle", act1 |-> 0, at |-> 0]

Used(i) == it[i].kind # "none"
There(s) == ch[s].who # Vacant
Human(s) == ch[s].who \in Humans
IsIdle(s) == There(s) /\ ch[s].action = "idle"
Pockets(s) == ch[s].who \in AutoPocket
IsMoney(i) == it[i].kind = "money"
IsQuest(i) == i # NoItem /\ it[i].kind = "relic"

\* The tables an action changes.
Tables == [ch |-> ch, it |-> it, con |-> con, ground |-> ground]
TablesBecome(w) == ch' = w.ch /\ it' = w.it /\ con' = w.con /\ ground' = w.ground

FreeIn(w) == {i \in Items : w.it[i].kind = "none"}
\* alloc_item takes one from the free list.
AllocIn(w) == IF FreeIn(w) = {} THEN NoItem ELSE CHOOSE i \in FreeIn(w) : \A j \in FreeIn(w) : i <= j

\* create_item: a new item is nowhere yet.
Created(w, i, kind, value) ==
    [w EXCEPT !.it[i] = [Nowhere EXCEPT !.kind = kind, !.value = value]]

\* destroy_item: a grave takes what is in it along.
destroy_item(w, i) ==
    [w EXCEPT !.it = [j \in Items |-> IF j = i \/ j \in w.con[i].items THEN Nowhere ELSE w.it[j]],
              !.con[i] = NoGrave]

\* For the quest items: the first player who had one.
FirstOwner(w, s, i) == IF w.it[i].first = Vacant /\ w.ch[s].who \in Humans THEN w.ch[s].who ELSE w.it[i].first

Carries(w, s, i) == [w EXCEPT !.it[i].carried = w.ch[s].who, !.it[i].first = FirstOwner(w, s, i)]
InHand(w, s, i) == [Carries(w, s, i) EXCEPT !.ch[s].hand = i]
InPack(w, s, i) == [Carries(w, s, i) EXCEPT !.ch[s].pack = i]

\* Variant: the item stays.
PocketKeep(w, s, i) == [w EXCEPT !.ch[s].gold = @ + w.it[i].value]

\* pocket_money: the item is gone, its value is gold.
pocket_money(w, s, i) == [destroy_item(w, i) EXCEPT !.ch[s].gold = @ + w.it[i].value]

set_item_map(w, i, t) ==
    [w EXCEPT !.ground[t] = i, !.it[i].tile = t, !.it[i].carried = Vacant, !.it[i].inside = NoItem]

remove_item_map(w, i) ==
    [w EXCEPT !.ground[w.it[i].tile] = NoItem, !.it[i].tile = 0]

remove_item_char(w, s, i) ==
    [w EXCEPT !.ch[s] = IF @.hand = i THEN [@ EXCEPT !.hand = NoItem]
                        ELSE IF @.pack = i THEN [@ EXCEPT !.pack = NoItem] ELSE @,
              !.it[i].carried = Vacant]

\* give_char_item: gold for those who pocket; else the hand first, then the
\* pack, or the other way round.  Answers whether there was room.
RoomFor(w, s, i) ==
    (Pockets(s) /\ w.it[i].kind = "money") \/ w.ch[s].hand = NoItem \/ w.ch[s].pack = NoItem

give_char_item(w, s, i) ==
    IF Pockets(s) /\ w.it[i].kind = "money" THEN pocket_money(w, s, i)
    ELSE IF w.ch[s].pack = NoItem /\ (Pockets(s) \/ w.ch[s].hand # NoItem) THEN InPack(w, s, i)
    ELSE InHand(w, s, i)

\* swap: hand and backpack change places; money ends up as gold.
swap(w, s) ==
    LET i == w.ch[s].hand
        v == [w EXCEPT !.ch[s].hand = w.ch[s].pack]
    IN IF i # NoItem /\ w.it[i].kind = "money"
       THEN [pocket_money(v, s, i) EXCEPT !.ch[s].pack = NoItem]
       ELSE [v EXCEPT !.ch[s].pack = i]

\* store_citem: swap with a free place of the backpack.
store_citem(w, s) == IF w.ch[s].pack = NoItem THEN swap(w, s) ELSE w
-----------------------------------------------------------------------------
BelongInit ==
    /\ ch = [s \in Slots |-> NoChar]
    /\ it = [i \in Items |-> Nowhere]
    /\ con = [i \in Items |-> NoGrave]
    /\ ground = [t \in Ground |-> NoItem]
    /\ kit = StartingKit
    /\ raised = [n \in Names |-> 0]
    /\ deaths = 0

\* An item of the saved kind is created and linked to the character.
Linking(w, s, i, kind) ==
    [Created(w, i, kind, IF kind = "money" THEN 1 ELSE 0) EXCEPT
        !.it[i].carried = w.ch[s].who, !.it[i].first = w.ch[s].who]

Restored(w, s, place, what) ==
    LET i == AllocIn(w)
        v == Linking(w, s, i, what)
    IN IF what = "none" THEN w
       ELSE IF place = "hand" THEN [v EXCEPT !.ch[s].hand = i] ELSE [v EXCEPT !.ch[s].pack = i]

\* A character is loaded, or a monster created: character and items get free
\* places of their tables.
Joins(s, n) ==
    /\ ~There(s) /\ \A r \in Slots : ch[r].who # n
    /\ raised[n] < MaxRaised
    /\ Cardinality({p \in {"hand", "pack"} : kit[n][p] # "none"}) <= Cardinality(FreeIn(Tables))
    /\ LET w == [Tables EXCEPT !.ch[s] = [NoChar EXCEPT !.who = n, !.gold = kit[n].gold]]
           v == Restored(Restored(w, s, "hand", kit[n].hand), s, "pack", kit[n].pack)
       IN TablesBecome([v EXCEPT !.it = [i \in Items |-> IF n \in Beasts /\ v.it[i].carried = n
                                                     THEN [v.it[i] EXCEPT !.first = Vacant] ELSE v.it[i]]])
    /\ raised' = [raised EXCEPT ![n] = @ + 1]
    /\ UNCHANGED <<kit, deaths>>

KindOf(i) == IF i = NoItem THEN "none" ELSE it[i].kind

\* The character is saved and destroyed with all it carries, whatever it does.
destroy_char(w, s) ==
    LET v == [i \in Items |-> IF i \in {w.ch[s].hand, w.ch[s].pack} THEN Nowhere ELSE w.it[i]]
    IN [w EXCEPT !.it = v, !.ch[s] = NoChar]

Quits(s) ==
    /\ Human(s)
    /\ kit' = [kit EXCEPT ![ch[s].who] =
                  [hand |-> KindOf(ch[s].hand), pack |-> KindOf(ch[s].pack), gold |-> ch[s].gold]]
    /\ TablesBecome(destroy_char(Tables, s))
    /\ UNCHANGED <<raised, deaths>>
-----------------------------------------------------------------------------
Starts(s, action, arg, t) ==
    /\ ch' = [ch EXCEPT ![s].action = action, ![s].act1 = arg, ![s].at = t]
    /\ UNCHANGED <<it, con, ground, kit, raised, deaths>>

Done(w, s) == [w EXCEPT !.ch[s].action = "idle", !.ch[s].act1 = 0, !.ch[s].at = 0]
Ends(w, s) == TablesBecome(Done(w, s)) /\ UNCHANGED <<kit, raised, deaths>>

\* Empty hand, and an item there that can be taken.
do_take(s, t) ==
    /\ IsIdle(s) /\ Human(s) /\ ch[s].hand = NoItem
    /\ ground[t] # NoItem /\ it[ground[t]].kind # "body"
    /\ Starts(s, "take", ground[t], t)

\* Nothing happens when his hand is full by now, or another item or none is
\* there.
act_take(s) ==
    /\ ch[s].action = "take"
    /\ LET i == ground[ch[s].at]
           w == remove_item_map(Tables, i)
           taken == ch[s].hand = NoItem /\ i # NoItem /\ i = ch[s].act1 /\ it[i].kind # "body"
       IN Ends(IF ~taken THEN Tables
               ELSE IF Pockets(s) /\ IsMoney(i) THEN pocket_money(w, s, i)
               ELSE IF Pockets(s) /\ ch[s].pack = NoItem THEN InPack(w, s, i)
               ELSE InHand(w, s, i), s)

do_drop(s, t) ==
    /\ IsIdle(s) /\ Human(s) /\ ch[s].hand # NoItem /\ ~IsQuest(ch[s].hand)
    /\ ground[t] = NoItem
    /\ Starts(s, "drop", ch[s].hand, t)

act_drop(s) ==
    /\ ch[s].action = "drop"
    /\ LET i == ch[s].hand
           dropped == i # NoItem /\ i = ch[s].act1 /\ ground[ch[s].at] = NoItem /\ ~IsQuest(i)
       IN Ends(IF dropped THEN [set_item_map(Tables, i, ch[s].at) EXCEPT !.ch[s].hand = NoItem]
               ELSE Tables, s)

do_give(s, r) ==
    /\ IsIdle(s) /\ Human(s) /\ r # s /\ There(r) /\ ch[r].action # "die"
    /\ ch[s].hand # NoItem /\ ~IsQuest(ch[s].hand)
    /\ ch[r].hand = NoItem \/ (Human(r) /\ ch[r].pack = NoItem)
    /\ Starts(s, "give", r, 0)

\* He gives what he has in his hand now, unless the other one has moved.
act_give(s, moved) ==
    /\ ch[s].action = "give"
    /\ LET i == ch[s].hand
           r == ch[s].act1
           given == /\ There(r) /\ ch[r].action # "die" /\ ~moved
                    /\ i # NoItem /\ ~IsQuest(i)
                    /\ IF Human(r) THEN RoomFor(Tables, r, i) ELSE ch[r].hand = NoItem
           w == IF Human(r) THEN give_char_item(Tables, r, i) ELSE InHand(Tables, r, i)
       IN Ends(IF given THEN [w EXCEPT !.ch[s].hand = NoItem] ELSE Tables, s)

\* Instant: hand and backpack change places, in the middle of an action too.
Swaps(s) ==
    /\ Human(s) /\ ch[s].action # "die"
    /\ ch[s].hand # ch[s].pack
    /\ TablesBecome(swap(Tables, s))
    /\ UNCHANGED <<kit, raised, deaths>>

\* cmd_steal: from a player who stands still; never a quest item.
Steals(s, r) ==
    /\ ch[s].who \in Thieves /\ IsIdle(s) /\ ch[s].hand = NoItem
    /\ r # s /\ Human(r) /\ IsIdle(r)
    /\ ch[r].pack # NoItem /\ ~IsQuest(ch[r].pack)
    /\ TablesBecome(give_char_item(remove_item_char(Tables, r, ch[r].pack), s, ch[r].pack))
    /\ UNCHANGED <<kit, raised, deaths>>
-----------------------------------------------------------------------------
\* The killer is remembered by his place in the table.
IsKilled(s, r) ==
    /\ deaths < MaxDeaths /\ deaths' = deaths + 1
    /\ There(s) /\ ch[s].action # "die"
    /\ r \in {0} \cup (Slots \ {s})
    /\ r # 0 => There(r)
    /\ ch' = [ch EXCEPT ![s].action = "die", ![s].act1 = r]
    /\ UNCHANGED <<it, con, ground, kit, raised>>

FreeTiles == {t \in Ground : ground[t] = NoItem}

\* Everything he has goes into the grave, his gold as an item when there is a
\* place for one.
ThingsBuried(w, s, g) ==
    LET owned == {w.ch[s].hand, w.ch[s].pack} \ {NoItem}
    IN [w EXCEPT !.con[g].items = owned,
                 !.it = [i \in Items |-> IF i \in owned THEN [w.it[i] EXCEPT !.carried = Vacant, !.inside = g] ELSE w.it[i]],
                 !.ch[s].hand = NoItem, !.ch[s].pack = NoItem]

GoldBuried(w, s, g, m, gold) ==
    [Created(w, m, "money", gold) EXCEPT !.it[m].inside = g, !.con[g].items = @ \cup {m}, !.ch[s].gold = 0]

Buried(w, s, g) ==
    LET v == ThingsBuried(w, s, g)
        m == AllocIn(v)
    IN IF w.ch[s].gold = 0 \/ m = NoItem THEN v ELSE GoldBuried(v, s, g, m, w.ch[s].gold)

Lost(w, s) ==
    [w EXCEPT !.it = [i \in Items |-> IF i \in {w.ch[s].hand, w.ch[s].pack} THEN Nowhere ELSE w.it[i]],
              !.ch[s].hand = NoItem, !.ch[s].pack = NoItem, !.ch[s].gold = 0]

\* A body is dropped near by with all he had; when there is no item or no room
\* for it, all is lost.  A player goes on, a monster is destroyed.
Dies(s) ==
    /\ ch[s].action = "die"
    /\ LET g == AllocIn(Tables)
           t == CHOOSE x \in FreeTiles : \A y \in FreeTiles : x <= y
           r == ch[s].act1
           w == set_item_map(Created(Tables, g, "body", 0), g, t)
           v == [w EXCEPT !.con[g] = [owner |-> ch[s].who, access |-> Vacant, items |-> {},
                                      killer |-> IF r = 0 THEN Vacant ELSE ch[r].who]]
           dead == IF g = NoItem \/ FreeTiles = {} THEN Lost(Tables, s) ELSE Buried(v, s, g)
       IN Ends(IF Human(s) THEN dead ELSE destroy_char(dead, s), s)

\* allow_body: the owner lets another player at his graves.
Allows(n, m) ==
    /\ n \in Humans /\ m \in Humans \ {n}
    /\ \E i \in Items : con[i].owner = n /\ con[i].access # m
    /\ con' = [i \in Items |-> IF con[i].owner = n THEN [con[i] EXCEPT !.access = m] ELSE con[i]]
    /\ UNCHANGED <<ch, it, ground, kit, raised, deaths>>

PlayerBody(g) == con[g].owner \in Humans

\* container(): who may, and whether he may not take quest items.
MayOpen(n, g) == n \in {con[g].owner, con[g].killer, con[g].access}
KillerTakesAll(n, g) == n # con[g].owner /\ n # con[g].killer
NoQuest(n, g) == n # con[g].owner /\ (n = con[g].killer => PlayerBody(g))

\* What he holds and what is in that place of the grave change places; in is 0
\* for an empty one.
container(s, g, in, fast) ==
    /\ Human(s) /\ ch[s].action # "die"
    /\ it[g].kind = "body"
    /\ MayOpen(ch[s].who, g)
    /\ in \in con[g].items \cup {NoItem}
    /\ LET out == ch[s].hand
           w == [Tables EXCEPT !.ch[s].hand = in,
                     !.con[g].items = (@ \ {in}) \cup ({out} \ {NoItem}),
                     !.it = [i \in Items |->
                         CASE i = in -> [it[i] EXCEPT !.carried = ch[s].who, !.inside = NoItem,
                                                      !.first = FirstOwner(Tables, s, i)]
                           [] i = out -> [it[i] EXCEPT !.carried = Vacant, !.inside = g]
                           [] OTHER -> it[i]]]
       IN /\ in # NoItem \/ out # NoItem
          /\ ~IsQuest(out)
          /\ ~(NoQuest(ch[s].who, g) /\ IsQuest(in))
          /\ TablesBecome(IF fast \/ (Pockets(s) /\ out = NoItem) THEN store_citem(w, s) ELSE w)
    /\ UNCHANGED <<kit, raised, deaths>>

\* What lies on the ground is destroyed after a while (when, is for Expiry).
Expires(i) ==
    /\ it[i].tile # 0
    /\ TablesBecome(destroy_item(remove_item_map(Tables, i), i))
    /\ UNCHANGED <<kit, raised, deaths>>

BelongNext ==
    \/ \E s \in Slots :
          \/ \E n \in Names : Joins(s, n)
          \/ Quits(s) \/ act_take(s) \/ act_drop(s) \/ Swaps(s) \/ Dies(s)
          \/ \E moved \in BOOLEAN : act_give(s, moved)
          \/ \E t \in Ground : do_take(s, t) \/ do_drop(s, t)
          \/ \E r \in Slots : do_give(s, r) \/ Steals(s, r)
          \/ \E r \in {0} \cup Slots : IsKilled(s, r)
          \/ \E g \in Items, i \in {NoItem} \cup Items, fast \in BOOLEAN : container(s, g, i, fast)
    \/ \E i \in Items : Expires(i)
    \/ \E n, m \in Humans : Allows(n, m)

BelongSpec == BelongInit /\ [][BelongNext]_belongVars
-----------------------------------------------------------------------------
\* What consistency.c looks for every few seconds: an item that is used is in
\* exactly one place, on a character, on the map or in a container, and says
\* so itself; what is not used is nowhere.
PlacesOf(i) ==
    {<<"hand", s>> : s \in {r \in Slots : ch[r].hand = i}} \cup
    {<<"pack", s>> : s \in {r \in Slots : ch[r].pack = i}} \cup
    {<<"tile", t>> : t \in {u \in Ground : ground[u] = i}} \cup
    {<<"grave", g>> : g \in {b \in Items : i \in con[b].items}}

Says(i, place) ==
    CASE place[1] \in {"hand", "pack"} -> it[i] = [it[i] EXCEPT !.carried = ch[place[2]].who, !.tile = 0, !.inside = NoItem]
      [] place[1] = "tile" -> it[i] = [it[i] EXCEPT !.carried = Vacant, !.tile = place[2], !.inside = NoItem]
      [] OTHER -> it[i] = [it[i] EXCEPT !.carried = Vacant, !.tile = 0, !.inside = place[2]]

Linked ==
    \A i \in Items :
        /\ Cardinality(PlacesOf(i)) = (IF Used(i) THEN 1 ELSE 0)
        /\ \A p \in PlacesOf(i) : Says(i, p)
        /\ con[i].items # {} => it[i].kind = "body"

\* A quest item a player has got never comes into another player's hands: not
\* as a gift, from the ground or out of a grave, and not by theft (IF_QUEST is
\* asked in do.c, act.c, prof.c, each for itself).
QuestKept ==
    \A i \in Items, s \in Slots :
        IsQuest(i) /\ Human(s) /\ i \in {ch[s].hand, ch[s].pack} => it[i].first = ch[s].who

\* What is carried is where it says it is, with whom it belongs.
ItemsKept == Linked /\ QuestKept

\* Gold, money items and what is saved: nothing that moves it makes any.
Total(f, S) == SumFunctionOnSet(f, S)
KitMoney(k) == k.gold + Cardinality({p \in {"hand", "pack"} : k[p] = "money"})
In(n) == \E s \in Slots : ch[s].who = n
Money ==
    Total([s \in Slots |-> ch[s].gold], Slots) +
    Total([i \in Items |-> it[i].value], Items) +
    Total([n \in Names |-> IF In(n) \/ n \in Beasts THEN 0 ELSE KitMoney(kit[n])], Names)
NoMoneyMade ==
    [][Money' > Money => \E s \in Slots : ch'[s].who \in Beasts /\ ch[s].who = Vacant]_belongVars
=============================================================================
