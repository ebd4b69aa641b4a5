------------------------------ MODULE Walking ------------------------------
(***************************************************************************)
(* Who stands where: the map's links to characters (map.c), walking and    *)
(* swapping places (do.c, act.c), doors and teleports (base.c), death and  *)
(* respawn (death.c).                                                      *)
(*                                                                         *)
(* The map is a row of tiles.  Whoever walks reserves the tile he walks to *)
(* (MF_TMOVEBLOCK) and arrives some ticks later; a closed door blocks its  *)
(* tile with the same flag.  set_char and remove_char are the only ones    *)
(* that put a character on the map and take it off.                        *)
(***************************************************************************)
EXTENDS Integers, FiniteSets, Sequences

CONSTANTS Players, Monsters,
          Width,                 \* tiles are 1 .. Width
          Rest, Birth,           \* where the dead return to, where monsters appear
          DoorTile,              \* a tile with a door
          Gate,                  \* a tile that teleports whoever steps on it
          MaxCalls               \* bound: outstanding calls of the door's timer

Walkers == Players \cup Monsters
Nobody == "nobody"
Tiles == 1 .. Width

ASSUME WalkingAssumption ==
    /\ Width \in Nat /\ MaxCalls \in Nat
    /\ {Rest, Birth, DoorTile, Gate} \subseteq Tiles
    /\ Nobody \notin Walkers /\ Players \cap Monsters = {}

VARIABLES walker,    \* position, tile walked to (0: none), action
          on,        \* map[].ch
          blocked,   \* MF_TMOVEBLOCK
          door,      \* drdata[0] and drdata[39]: open, counted timer calls
          calls,     \* the calls scheduled
          unborn     \* monsters whose respawn timer is set

walkingVars == <<walker, on, blocked, door, calls, unborn>>

Away == [x |-> 0, to |-> 0, action |-> "away"]
Here(c) == walker[c].x # 0
AtRest(c) == Here(c) /\ walker[c].action = "idle"

\* The part of the state set_char and remove_char change.
Places == [w |-> walker, on |-> on, tmb |-> blocked]
Becomes(p) == walker' = p.w /\ on' = p.on /\ blocked' = p.tmb

FitsOn(p, m) == m \in Tiles /\ p.on[m] = Nobody /\ ~p.tmb[m]

Put(p, c, m) ==
    [w |-> [p.w EXCEPT ![c].x = m, ![c].to = 0],
     on |-> [p.on EXCEPT ![m] = c],
     tmb |-> [p.tmb EXCEPT ![m] = TRUE]]

remove_char(p, c) ==
    LET x == p.w[c].x  to == p.w[c].to
    IN [w |-> [p.w EXCEPT ![c].x = 0, ![c].to = 0],
        on |-> [m \in Tiles |-> IF m = x THEN Nobody ELSE p.on[m]],
        tmb |-> [m \in Tiles |-> m \notin {x, to} /\ p.tmb[m]]]

\* The tile itself, the one behind it, the one before it.
Around(m) == <<m, m + 1, m - 1>>
Reached(m) == <<m, m + 1, m - 1, m + 2, m - 2>>

First(p, places) ==
    LET free == {i \in DOMAIN places : FitsOn(p, places[i])}
    IN IF free = {} THEN 0 ELSE places[CHOOSE i \in free : \A j \in free : i <= j]

\* teleport_driver: off the map and back on it at the target, or, with the
\* step trap off, where he was.
Teleported(p, c, back) ==
    LET q == remove_char(p, c)
        m == First(q, Reached(Rest))
        there == IF m # 0 THEN m ELSE First(q, Around(back))
    IN IF there = 0 THEN q ELSE Put(q, c, there)

\* set_char: the tile must be free; stepping on the gate teleports.
set_char(p, c, m) ==
    IF ~FitsOn(p, m) THEN p
    ELSE IF m = Gate THEN Teleported(Put(p, c, m), c, m) ELSE Put(p, c, m)

drop_char(p, c, m) ==
    LET t == First(p, Around(m)) IN IF t = 0 THEN p ELSE set_char(p, c, t)

Does(p, c, what) == [p EXCEPT !.w[c].action = what]
-----------------------------------------------------------------------------
WalkingInit ==
    /\ walker = [c \in Walkers |-> Away]
    /\ on = [m \in Tiles |-> Nobody]
    /\ blocked = [m \in Tiles |-> m = DoorTile]
    /\ door = [open |-> FALSE, count |-> 0]
    /\ calls = 0
    /\ unborn = Monsters

\* A character enters the game near its rest place, or is sent away.
Enters(c) ==
    /\ c \in Players /\ ~Here(c)
    /\ LET p == drop_char(Does(Places, c, "idle"), c, Rest)
       IN p.w[c].x # 0 /\ Becomes(p)
    /\ UNCHANGED <<door, calls, unborn>>

\* kick_char takes a character out of the game, whatever it is doing.
Leaves(c) ==
    /\ c \in Players /\ Here(c)
    /\ Becomes(Does(remove_char(Places, c), c, "away"))
    /\ UNCHANGED <<door, calls, unborn>>

\* The tile must not be blocked; it is from now on.
do_walk(c, m) ==
    /\ AtRest(c) /\ m \in {walker[c].x - 1, walker[c].x + 1} \cap Tiles
    /\ ~blocked[m]
    /\ on[m] = Nobody
    /\ blocked' = [blocked EXCEPT ![m] = TRUE]
    /\ walker' = [walker EXCEPT ![c].to = m, ![c].action = "walk"]
    /\ UNCHANGED <<on, door, calls, unborn>>

\* Frees the tile he leaves and links the one he enters, without asking
\* whether anybody is there: it is reserved.
act_walk(c) ==
    /\ walker[c].action = "walk" /\ walker[c].to # 0
    /\ LET from == walker[c].x  m == walker[c].to
           p == [w |-> [walker EXCEPT ![c] = [x |-> m, to |-> 0, action |-> "idle"]],
                 on |-> [on EXCEPT ![from] = IF @ = c THEN Nobody ELSE @, ![m] = c],
                 tmb |-> [blocked EXCEPT ![from] = IF on[from] = c THEN FALSE ELSE @]]
       IN Becomes(IF m = Gate THEN Teleported(p, c, m) ELSE p)
    /\ UNCHANGED <<door, calls, unborn>>

\* Both idle, the other one a player: both off the map, then both on it; what
\* set_char answers is not asked.
char_swap(c, d) ==
    /\ c \in Players /\ d \in Players \ {c}
    /\ AtRest(c) /\ AtRest(d) /\ walker[d].x \in {walker[c].x - 1, walker[c].x + 1}
    /\ LET x == walker[c].x  y == walker[d].x
           p == remove_char(remove_char(Places, c), d)
       IN Becomes(set_char(set_char(p, c, y), d, x))
    /\ UNCHANGED <<door, calls, unborn>>

\* A teleport of a rescue or a spell (teleport_char_driver): drops what he does.
Recalled(c) ==
    /\ c \in Players /\ Here(c) /\ walker[c].action # "die"
    /\ LET x == walker[c].x
           far == walker[c].x - Rest \notin -1 .. 1
           q == Does(remove_char(Places, c), c, "idle")
           p == drop_char(q, c, Rest)
       IN far /\ Becomes(IF p.w[c].x # 0 THEN p ELSE drop_char(q, c, x))
    /\ UNCHANGED <<door, calls, unborn>>
-----------------------------------------------------------------------------
\* The action that was under way is forgotten, where he was walking to is not.
kill_char(c) ==
    /\ Here(c) /\ walker[c].action # "die"
    /\ walker' = [walker EXCEPT ![c].action = "die"]
    /\ unborn' = unborn \cup ({c} \cap Monsters)
    /\ UNCHANGED <<on, blocked, door, calls>>

\* Off the map; a player appears at his rest place, or leaves the game when
\* there is no room.
die_char(c) ==
    /\ walker[c].action = "die"
    /\ LET p == remove_char(Places, c)
           q == drop_char(Does(p, c, "idle"), c, Rest)
       IN Becomes(IF c \in Players /\ q.w[c].x # 0 THEN q ELSE Does(p, c, "away"))
    /\ UNCHANGED <<door, calls, unborn>>

\* When the place is taken the timer is set again: nothing has changed.
respawn_callback(c) ==
    /\ c \in unborn /\ ~Here(c)
    /\ FitsOn(Places, Birth)
    /\ Becomes(Does(set_char(Places, c, Birth), c, "idle"))
    /\ unborn' = unborn \ {c}
    /\ UNCHANGED <<door, calls>>
-----------------------------------------------------------------------------
Close ==
    /\ door' = [door EXCEPT !.open = FALSE]
    /\ blocked' = [blocked EXCEPT ![DoorTile] = TRUE]

\* Somebody uses the door: an open one is closed unless the doorway is blocked,
\* a closed one is opened and a call is scheduled.
UseDoor(c) ==
    /\ AtRest(c) /\ walker[c].x \in {DoorTile - 1, DoorTile + 1}
    /\ \/ door.open /\ ~blocked[DoorTile] /\ Close /\ UNCHANGED calls
       \/ /\ ~door.open /\ calls < MaxCalls
          /\ door' = [open |-> TRUE, count |-> door.count + 1]
          /\ blocked' = [blocked EXCEPT ![DoorTile] = FALSE]
          /\ calls' = calls + 1
    /\ UNCHANGED <<walker, on, unborn>>

Counted == IF door.count > 0 THEN door.count - 1 ELSE 0

\* Variant: no other call is scheduled when the doorway is blocked.
CloseOnce ==
    /\ calls > 0 /\ calls' = calls - 1
    /\ IF door.open /\ Counted = 0 /\ ~blocked[DoorTile]
       THEN Close ELSE door' = [door EXCEPT !.count = Counted] /\ UNCHANGED blocked
    /\ UNCHANGED <<walker, on, unborn>>

\* The timer's call: only the last of several closes the door, and when the
\* doorway is blocked another call is scheduled.
door_driver ==
    /\ calls > 0
    /\ \/ /\ ~door.open \/ Counted > 0
          /\ door' = [door EXCEPT !.count = Counted]
          /\ calls' = calls - 1
          /\ UNCHANGED blocked
       \/ /\ door.open /\ Counted = 0 /\ blocked[DoorTile]
          /\ door' = [door EXCEPT !.count = 1]
          /\ UNCHANGED <<calls, blocked>>
       \/ /\ door.open /\ Counted = 0 /\ ~blocked[DoorTile]
          /\ door' = [open |-> FALSE, count |-> 0]
          /\ blocked' = [blocked EXCEPT ![DoorTile] = TRUE]
          /\ calls' = calls - 1
    /\ UNCHANGED <<walker, on, unborn>>

WalkingNext ==
    \/ \E c \in Walkers :
          \/ Enters(c) \/ Leaves(c) \/ act_walk(c) \/ Recalled(c)
          \/ kill_char(c) \/ die_char(c) \/ respawn_callback(c) \/ UseDoor(c)
          \/ \E m \in Tiles : do_walk(c, m)
          \/ \E d \in Walkers : char_swap(c, d)
    \/ door_driver

WalkingFair == WF_walkingVars(door_driver)

WalkingSpec == WalkingInit /\ [][WalkingNext]_walkingVars /\ WalkingFair
-----------------------------------------------------------------------------
Claims(m) ==
    Cardinality({c \in Walkers : walker[c].x = m}) +
    Cardinality({c \in Walkers : walker[c].to = m}) +
    (IF m = DoorTile /\ ~door.open THEN 1 ELSE 0)

Reserved ==
    \A m \in Tiles : Claims(m) = (IF blocked[m] THEN 1 ELSE 0)

OnTheMap ==
    /\ \A m \in Tiles : \A c \in Walkers : on[m] = c <=> walker[c].x = m
    /\ \A c \in Walkers : Here(c) <=> walker[c].action # "away"

\* A tile is blocked by one thing, and only by what is there: whoever stands on
\* it, whoever walks to it, or the closed door (act_walk enters without asking
\* and remove_char clears the flag of two tiles, because of this); a character's
\* position and the map agree, and nobody is in the game and not on the map.
Placed == Reserved /\ OnTheMap

\* An open door closes by itself once its doorway stays free, whoever used it
\* how often: the calls that are counted are those that are scheduled.
DoorShuts == door.open ~> (~door.open \/ blocked[DoorTile])

\* The row stays passable: reservations are of those who walk, and doors shut.
RowPassable == []Placed /\ DoorShuts
=============================================================================
