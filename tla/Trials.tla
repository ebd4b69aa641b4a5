------------------------------- MODULE Trials -------------------------------
(***************************************************************************)
(* Tests fought alone in a room: gatekeeper.c, where the opponent makes a  *)
(* player an arch or a Seyan'Du, and warped.c, where spheres raise the     *)
(* player's level in a world of doors that open on duels.                  *)
(***************************************************************************)
EXTENDS Integers, FiniteSets

CONSTANTS Fighters, GateRooms, Duels, Bonuses, Fee, Pence, FirstBase, LastBase

None == "none"

ASSUME TrialsAssumption ==
    /\ None \notin Fighters /\ GateRooms \subseteq Nat \ {0} /\ Duels \subseteq Nat \ {0}
    /\ FirstBase \in Nat /\ LastBase \in Nat

VARIABLES kind, target, room, gate, coins, clutter,
          duel, inDuel, warp, used, stepExp
trialVars == <<kind, target, room, gate, coins, clutter, duel, inDuel, warp, used, stepExp>>
gateVars == <<kind, target, room, gate, coins, clutter>>
warpVars == <<duel, inDuel, warp, used, stepExp>>

Callings == {"warrior", "mage", "seyan", "arch warrior", "arch mage", "arch seyan"}
Arch == {"arch warrior", "arch mage", "arch seyan"}

TrialsInit ==
    /\ kind \in [Fighters -> {"warrior", "seyan"}]
    /\ target = [p \in Fighters |-> 0]
    /\ room = [p \in Fighters |-> 0]
    /\ gate = [r \in GateRooms |-> None]            \* whom the opponent in the room was made for
    /\ coins = [p \in Fighters |-> Pence]
    /\ clutter = [r \in GateRooms |-> FALSE]        \* an item on the floor
    /\ duel = [d \in Duels |-> None]
    /\ inDuel = [p \in Fighters |-> 0]
    /\ warp = [p \in Fighters |-> [base |-> FirstBase, points |-> 0, nostepexp |-> FALSE]]
    /\ used = [p \in Fighters |-> [b \in Bonuses |-> 0]]
    /\ stepExp = {}                                 \* a history: who was given experience for what

-----------------------------------------------------------------------------
\* The gatekeeper's rooms.
Choice(k) ==
    CASE k = "warrior" -> {5, 8} [] k = "mage" -> {6, 8} [] k = "seyan" -> {7} [] OTHER -> {}

RoomFree(r) == gate[r] = None /\ ~clutter[r] /\ \A p \in Fighters : room[p] # r

\* The fee is given back when no room can be had.
enter_test(p, class) ==
    /\ room[p] = 0 /\ class \in Choice(kind[p]) /\ coins[p] >= Fee
    /\ IF \E r \in GateRooms : RoomFree(r)
       THEN \E r \in GateRooms :
                /\ RoomFree(r) /\ \A s \in GateRooms : s < r => ~RoomFree(s)
                /\ gate' = [gate EXCEPT ![r] = p]
                /\ room' = [room EXCEPT ![p] = r]
                /\ target' = [target EXCEPT ![p] = class]
                /\ coins' = [coins EXCEPT ![p] = @ - Fee]
       ELSE UNCHANGED <<gate, room, target, coins>>
    /\ UNCHANGED <<kind, clutter, warpVars>>

\* Ten minutes are over.
gate_fight_driver(r) ==
    /\ gate[r] # None
    /\ gate' = [gate EXCEPT ![r] = None]
    /\ UNCHANGED <<kind, target, room, coins, clutter, warpVars>>

Promoted(k, class) ==
    CASE class = 5 /\ k = "warrior" -> "arch warrior"
      [] class = 6 /\ k = "mage" -> "arch mage"
      [] class = 7 /\ k = "seyan" -> "arch seyan"
      [] class = 8 -> "seyan"
      [] OTHER -> k

\* The opponent dies at the hands of whoever is in the room, which decides
\* by the class that player asked for last; turn_seyan makes a new Seyan'Du.
gate_fight_dead(p) ==
    /\ room[p] # 0 /\ gate[room[p]] # None
    /\ gate' = [gate EXCEPT ![room[p]] = None]
    /\ kind' = [kind EXCEPT ![p] = Promoted(@, target[p])]
    /\ room' = [room EXCEPT ![p] = IF Promoted(kind[p], target[p]) # kind[p] THEN 0 ELSE @]
    /\ UNCHANGED <<target, coins, clutter, warpVars>>

\* The player dies, uses a scroll or logs out, or drops something there.
LeaveGate(p) ==
    /\ room[p] # 0
    /\ room' = [room EXCEPT ![p] = 0]
    /\ UNCHANGED <<kind, target, gate, coins, clutter, warpVars>>
DropInGate(p) ==
    /\ room[p] # 0
    /\ clutter' = [clutter EXCEPT ![room[p]] = TRUE]
    /\ UNCHANGED <<kind, target, room, gate, coins, warpVars>>
\* Items on the floor expire.
SweepGate(r) ==
    /\ clutter[r]
    /\ clutter' = [clutter EXCEPT ![r] = FALSE]
    /\ UNCHANGED <<kind, target, room, gate, coins, warpVars>>

-----------------------------------------------------------------------------
\* The warped world.
warptrialdoor_driver(p, d) ==
    /\ inDuel[p] = 0
    /\ duel[d] = None /\ \A q \in Fighters : inDuel[q] # d
    /\ duel' = [duel EXCEPT ![d] = p]
    /\ \E at \in {d, 0} : inDuel' = [inDuel EXCEPT ![p] = at]
    /\ UNCHANGED <<gateVars, warp, used, stepExp>>

\* The fighter looks for its challenger and goes when he is not there.
warpfighter(d) ==
    /\ duel[d] # None /\ inDuel[duel[d]] # d
    /\ duel' = [duel EXCEPT ![d] = None]
    /\ UNCHANGED <<gateVars, inDuel, warp, used, stepExp>>

\* It dies: the challenger goes out by the other door, unless it was not he who
\* killed it, he is not there any more, or there is no room behind the door.
warpfighter_died(d) ==
    /\ duel[d] # None
    /\ duel' = [duel EXCEPT ![d] = None]
    /\ \/ inDuel[duel[d]] = d /\ inDuel' = [inDuel EXCEPT ![duel[d]] = 0]
       \/ UNCHANGED inDuel
    /\ UNCHANGED <<gateVars, warp, used, stepExp>>

LeaveDuel(p) ==
    /\ inDuel[p] # 0
    /\ inDuel' = [inDuel EXCEPT ![p] = 0]
    /\ UNCHANGED <<gateVars, duel, warp, used, stepExp>>

Steps(base) == base \div 4
\* A sphere is touched: once per level, the last step with a key in hand.
warpbonus_driver(p, b, key) ==
    /\ warp[p].base <= LastBase
    /\ used[p][b] < warp[p].base
    /\ warp[p].points + 1 >= Steps(warp[p].base) => key
    /\ used' = [used EXCEPT ![p][b] = warp[p].base]
    /\ IF warp[p].points + 1 >= Steps(warp[p].base)
       THEN /\ warp' = [warp EXCEPT ![p] = [base |-> @.base + 5, points |-> 0, nostepexp |-> FALSE]]
            /\ UNCHANGED stepExp
       ELSE /\ warp' = [warp EXCEPT ![p].points = @ + 1]
            /\ stepExp' = IF warp[p].nostepexp THEN stepExp
                          ELSE stepExp \cup {<<p, b, warp[p].base>>}
    /\ UNCHANGED <<gateVars, duel, inDuel>>

\* The master of the warped world lets a player begin his level again.
\* A mutant: who begins again gets experience again.
WarpAgain(p) ==
    /\ warp' = [warp EXCEPT ![p].points = 0]
    /\ used' = [used EXCEPT ![p] = [b \in Bonuses |-> 0]]
    /\ UNCHANGED <<gateVars, duel, inDuel, stepExp>>
warpmaster(p) ==
    /\ warp' = [warp EXCEPT ![p].points = 0, ![p].nostepexp = TRUE]
    /\ used' = [used EXCEPT ![p] = [b \in Bonuses |-> 0]]
    /\ UNCHANGED <<gateVars, duel, inDuel, stepExp>>

GateNext ==
    \/ \E r \in GateRooms : gate_fight_driver(r) \/ SweepGate(r)
    \/ \E p \in Fighters : \/ \E class \in 5..8 : enter_test(p, class)
                          \/ gate_fight_dead(p) \/ LeaveGate(p) \/ DropInGate(p)
WarpNext ==
    \/ \E d \in Duels : warpfighter(d) \/ warpfighter_died(d)
    \/ \E p \in Fighters :
          \/ LeaveDuel(p) \/ warpmaster(p)
          \/ \E d \in Duels : warptrialdoor_driver(p, d)
          \/ \E b \in Bonuses, key \in BOOLEAN : warpbonus_driver(p, b, key)

TrialsSpec == TrialsInit /\ [][GateNext \/ WarpNext]_trialVars

-----------------------------------------------------------------------------
\* Everybody is tested alone: a room holds one player, and an opponent there
\* was made for the one who is in it.
TestedAlone ==
    /\ \A p, q \in Fighters : p # q => /\ (room[p] # 0 => room[p] # room[q])
                                       /\ (inDuel[p] # 0 => inDuel[p] # inDuel[q])
    /\ \A p \in Fighters : /\ (room[p] # 0 => gate[room[p]] \in {None, p})
                           /\ (inDuel[p] # 0 => duel[inDuel[p]] \in {None, p})

\* A sphere gives the experience of a step once per level, however often the
\* level is begun again.
StepOnce ==
    [][\A p \in Fighters, b \in Bonuses :
          (used'[p][b] > used[p][b] /\ <<p, b, warp[p].base>> \in stepExp)
              => warp[p].nostepexp]_trialVars

\* Neither others nor repeating makes a trial easier.
TrialsSound == []TestedAlone /\ StepOnce
=============================================================================
