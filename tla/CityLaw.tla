------------------------------- MODULE CityLaw -------------------------------
(***************************************************************************)
(* two.c: the law of Exkordon.  Guards send away who may not be where he   *)
(* is, collect fines, and kill who does neither; the barkeeper sells       *)
(* passes, servants call guards or can be bribed, the thieves' guard wants *)
(* a fee.  A guard has one clock for fines and one for trespassing, and    *)
(* forgets both when he has had nobody to watch for three seconds.         *)
(***************************************************************************)
EXTENDS Integers, FiniteSets

CONSTANTS Citizens, Guards, MaxFine, Wealth

ASSUME CityAssumption == MaxFine \in Nat \ {0} /\ Wealth \in Nat

VARIABLES status, legal, fine, calm, spot, wallet,
          guard, watch, enemies, thief
cityVars == <<status, legal, fine, calm, spot, wallet, guard, watch, enemies, thief>>

\* citizen_status and the levels of places: 0 for everybody ... 4 for nobody.
Enemy == 0
Guest == 1
Free == "free"

PassPrice == 1
PardonPrice == 2
FineFor == [hit |-> 1, seen |-> 2, steal |-> 1, kill |-> 1]

CityInit ==
    /\ status = [p \in Citizens |-> Enemy]
    /\ legal = [p \in Citizens |-> "clean"]
    /\ fine = [p \in Citizens |-> 0]
    /\ calm = [p \in Citizens |-> 3]          \* since last_attack: 0: <= 2 s, 1: <= 10 s, 2: <= 60 s
    /\ spot = [p \in Citizens |-> 0]          \* illegal_place where the player stands
    /\ wallet = [p \in Citizens |-> Wealth]
    /\ guard = [p \in Citizens |-> Free]      \* current_guard, for three seconds
    /\ watch = [g \in Guards |-> [fine |-> 0, leave |-> 0, victim |-> FALSE]]
    /\ enemies = [g \in Guards |-> {}]
    /\ thief = [p \in Citizens |-> 0]

illegal_place(p) == spot[p]
Trespasses(p) == illegal_place(p) > status[p]

\* A mutant: the pass is kept.
FinedOnly(p, crime) ==
    IF legal[p] = "dead" THEN UNCHANGED <<legal, fine, status>>
    ELSE /\ legal' = [legal EXCEPT ![p] = "fine"]
         /\ fine' = [fine EXCEPT ![p] = IF @ + FineFor[crime] > MaxFine THEN MaxFine ELSE @ + FineFor[crime]]
         /\ UNCHANGED status
\* What a crime costs: a guest loses his pass with it.
Fined(p, crime) ==
    IF legal[p] = "dead" THEN UNCHANGED <<legal, fine, status>>
    ELSE /\ legal' = [legal EXCEPT ![p] = "fine"]
         /\ fine' = [fine EXCEPT ![p] = IF @ + FineFor[crime] > MaxFine THEN MaxFine ELSE @ + FineFor[crime]]
         /\ status' = IF status[p] = Guest THEN [status EXCEPT ![p] = Enemy] ELSE status

\* The players move about; the places of the palace have the higher levels.
Stroll(p, level) ==
    /\ spot' = [spot EXCEPT ![p] = level]
    /\ UNCHANGED <<status, legal, fine, calm, wallet, guard, watch, enemies, thief>>

\* A guard who is not fighting sees a player of whom no other guard takes care.
Cares(g, p) == /\ enemies[g] = {} /\ calm[p] > 0 /\ guard[p] \in {Free, g} /\ illegal_place(p) # 0

GuardKills(g, p) ==
    /\ Cares(g, p) /\ legal[p] = "dead"
    /\ enemies' = [enemies EXCEPT ![g] = @ \cup {p}]
    /\ watch' = [watch EXCEPT ![g].victim = TRUE]
    /\ UNCHANGED <<status, legal, fine, calm, spot, wallet, guard, thief>>

\* An announcement starts the clock; when the minute (or half of it) is over
\* ends the guard's patience, with whoever is in front of him.
GuardUrges(g, p, clock) ==
    /\ guard' = [guard EXCEPT ![p] = g]
    /\ \E state \in IF watch[g][clock] = 2 THEN {2} ELSE IF watch[g][clock] = 1 THEN {1, 2} ELSE {1} :
          /\ watch' = [watch EXCEPT ![g][clock] = state, ![g].victim = TRUE]
          /\ IF state = 2
             THEN /\ enemies' = [enemies EXCEPT ![g] = @ \cup {p}]
                  /\ calm' = [calm EXCEPT ![p] = 0]
             ELSE UNCHANGED <<enemies, calm>>
    /\ UNCHANGED <<status, legal, fine, spot, wallet, thief>>
GuardSendsAway(g, p) ==
    /\ Cares(g, p) /\ legal[p] # "dead" /\ Trespasses(p) /\ GuardUrges(g, p, "leave")
GuardCollects(g, p) ==
    /\ Cares(g, p) /\ ~Trespasses(p) /\ legal[p] = "fine" /\ GuardUrges(g, p, "fine")

\* Time: a guard has had nobody for three seconds,
\* a guard's hold on a player ends, a fight is forgotten, an attack is past.
VictimGone(g) ==
    /\ watch[g].victim
    /\ watch' = [watch EXCEPT ![g] = [fine |-> 0, leave |-> 0, victim |-> FALSE]]
    /\ UNCHANGED <<status, legal, fine, calm, spot, wallet, guard, enemies, thief>>
Lapse(p) ==
    /\ \/ guard[p] # Free /\ guard' = [guard EXCEPT ![p] = Free] /\ UNCHANGED <<calm, enemies>>
       \/ calm[p] < 3 /\ calm' = [calm EXCEPT ![p] = @ + 1] /\ UNCHANGED <<guard, enemies>>
       \/ \E g \in Guards : /\ p \in enemies[g] /\ enemies' = [enemies EXCEPT ![g] = @ \ {p}]
                            /\ UNCHANGED <<guard, calm>>
    /\ UNCHANGED <<status, legal, fine, spot, wallet, watch, thief>>

\* "pay", to any guard near: who owes nothing is not fought any more.
Pay(p, g) ==
    /\ legal[p] # "dead" /\ wallet[p] >= fine[p]
    /\ wallet' = [wallet EXCEPT ![p] = @ - fine[p]]
    /\ legal' = [legal EXCEPT ![p] = "clean"]
    /\ fine' = [fine EXCEPT ![p] = 0]
    /\ enemies' = IF Trespasses(p) THEN enemies ELSE [enemies EXCEPT ![g] = @ \ {p}]
    /\ UNCHANGED <<status, calm, spot, guard, watch, thief>>

\* A player hits a guard, is seen hitting somebody, picks a lock in sight of a
\* guard, kills a guard or the governor's double.
HitGuard(p, g) ==
    /\ IF calm[p] > 1 THEN Fined(p, "hit") ELSE UNCHANGED <<legal, fine, status>>
    /\ calm' = [calm EXCEPT ![p] = 0]
    /\ UNCHANGED <<spot, wallet, guard, watch, enemies, thief>>
SeenHitting(p, g) ==
    /\ IF calm[p] > 1 THEN Fined(p, "seen") ELSE UNCHANGED <<legal, fine, status>>
    /\ enemies' = [enemies EXCEPT ![g] = @ \cup {p}]
    /\ calm' = [calm EXCEPT ![p] = 0]
    /\ UNCHANGED <<spot, wallet, guard, watch, thief>>
SeenPicking(p, g) ==
    /\ calm[p] > 2
    /\ enemies' = IF Trespasses(p) THEN [enemies EXCEPT ![g] = @ \cup {p}] ELSE enemies
    /\ Fined(p, "steal")
    /\ calm' = IF Trespasses(p) \/ (legal[p] # "dead" /\ status[p] # Guest)
               THEN [calm EXCEPT ![p] = 0] ELSE calm
    /\ UNCHANGED <<spot, wallet, guard, watch, thief>>
guard_dead(p, g) ==
    /\ p \in enemies[g]
    /\ Fined(p, "kill")
    /\ enemies' = [enemies EXCEPT ![g] = {}]
    /\ watch' = [watch EXCEPT ![g] = [fine |-> 0, leave |-> 0, victim |-> FALSE]]
    /\ UNCHANGED <<calm, spot, wallet, guard, thief>>
servant_dead(p) ==
    /\ spot[p] = 4
    /\ status' = [status EXCEPT ![p] = Enemy]
    /\ legal' = [legal EXCEPT ![p] = "dead"]
    /\ UNCHANGED <<fine, calm, spot, wallet, guard, watch, enemies, thief>>

barkeeper(p) ==
    /\ status[p] < Guest \/ legal[p] = "dead"
    /\ LET cost == CASE legal[p] = "fine" -> PassPrice + fine[p]
                     [] legal[p] = "dead" -> PardonPrice
                     [] OTHER -> PassPrice
       IN wallet[p] >= cost /\ wallet' = [wallet EXCEPT ![p] = @ - cost]
    /\ status' = [status EXCEPT ![p] = Guest]
    /\ legal' = [legal EXCEPT ![p] = "clean"]
    /\ fine' = [fine EXCEPT ![p] = 0]
    /\ UNCHANGED <<calm, spot, guard, watch, enemies, thief>>

\* Servants in the palace sell a key; who frightens them gets it for nothing.
servant(p) ==
    /\ spot[p] >= 3 /\ wallet[p] >= 1
    /\ wallet' = [wallet EXCEPT ![p] = @ - 1]
    /\ UNCHANGED <<status, legal, fine, calm, spot, guard, watch, enemies, thief>>

\* The thieves' guard: who has paid his fee may pass.
ThiefGuardTalk(p) ==
    /\ thief[p] \in {0, 1, 3, 50, 51}
    /\ thief' = [thief EXCEPT ![p] = IF @ = 51 THEN 1 ELSE @ + 1]
    /\ UNCHANGED <<status, legal, fine, calm, spot, wallet, guard, watch, enemies>>
ThiefGuardPaid(p) ==
    /\ thief[p] = 2 /\ wallet[p] >= 2
    /\ wallet' = [wallet EXCEPT ![p] = @ - 2]
    /\ thief' = [thief EXCEPT ![p] = 3]
    /\ UNCHANGED <<status, legal, fine, calm, spot, guard, watch, enemies>>
ThiefGuardRepeat(p) ==
    /\ thief[p] <= 2
    /\ thief' = [thief EXCEPT ![p] = 0]
    /\ UNCHANGED <<status, legal, fine, calm, spot, wallet, guard, watch, enemies>>

CityNext ==
    \/ \E g \in Guards : VictimGone(g)
    \/ \E p \in Citizens :
          \/ Lapse(p) \/ servant_dead(p) \/ barkeeper(p) \/ servant(p)
          \/ ThiefGuardTalk(p) \/ ThiefGuardPaid(p) \/ ThiefGuardRepeat(p)
          \/ \E level \in {0, 1, 4} : Stroll(p, level)
          \/ \E g \in Guards :
                \/ GuardKills(g, p) \/ GuardSendsAway(g, p) \/ GuardCollects(g, p) \/ Pay(p, g)
                \/ HitGuard(p, g) \/ SeenHitting(p, g) \/ SeenPicking(p, g) \/ guard_dead(p, g)

CitySpec == CityInit /\ [][CityNext]_cityVars

-----------------------------------------------------------------------------
\* A guest has done nothing yet: every crime, whoever notices it, costs the
\* pass as well, and a fine that is settled leaves nothing to pay again.
GuestsBehave ==
    \A p \in Citizens : /\ status[p] = Guest => legal[p] = "clean"
                        /\ legal[p] = "clean" => fine[p] = 0
                        /\ legal[p] = "fine" => fine[p] > 0
=============================================================================
