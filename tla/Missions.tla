------------------------------ MODULE Missions ------------------------------
(***************************************************************************)
(* missions.c: Mr. Jones offers a player three jobs; accepting one fills a *)
(* free part of the mission area with foes and sends the player there.  *)
(* Jobs done are worth points, which buy rewards, Mr. Jones's special      *)
(* offer, or potions made to measure.  Difficulties, prices and the kinds  *)
(* of foes are abstracted: an enemy is worth one, a job has Targets of  *)
(* them and pays Wage points.                                               *)
(***************************************************************************)
EXTENDS Integers, FiniteSets, FiniteSetsExt

CONSTANTS Agents, Dens, Jobs, Targets, Wage, Price, MaxPoints, MaxOwed, SkillCounts, Brewers

ASSUME MissionsAssumption ==
    Dens \subseteq Nat \ {0} /\ Jobs \subseteq Nat \ {0} /\ Targets \in Nat \ {0}

VARIABLES giver, jobs, active, solved, left, inside, foes, points,
          special, cheated, owed, statcnt, stats
missionVars == <<giver, jobs, active, solved, left, inside, foes, points,
                 special, cheated, owed, statcnt, stats>>

NotThere == 0

MissionsInit ==
    /\ giver = [p \in Agents |-> 0]
    /\ jobs = [p \in Agents |-> {}]
    /\ active = [p \in Agents |-> 0]
    /\ solved = [p \in Agents |-> 0]
    /\ left = [p \in Agents |-> 0]
    /\ inside = [p \in Agents |-> NotThere]
    /\ foes = [s \in Dens |-> 0]
    /\ points = [p \in Agents |-> 0]
    /\ special = TRUE
    /\ cheated = FALSE                       \* a history: somebody paid for nothing
    /\ owed = [p \in Agents |-> 0]
    /\ statcnt = [p \in Agents |-> 0]
    /\ stats = [p \in Agents |-> 0]

Outside(p) == inside[p] = NotThere
Least(a, b) == IF a < b THEN a ELSE b

\* Mr. Jones sees a player: a job done is paid and the offers are withdrawn.
JonesSees(p) ==
    /\ Outside(p) /\ giver[p] < 2
    /\ \/ /\ giver[p] = 0 /\ solved[p] # 0
          /\ points' = [points EXCEPT ![p] = Least(@ + Wage, MaxPoints)]
          /\ solved' = [solved EXCEPT ![p] = 0]
          /\ jobs' = [jobs EXCEPT ![p] = {}]
          /\ giver' = [giver EXCEPT ![p] = 2]
       \/ /\ giver[p] = 0 /\ solved[p] = 0
          /\ giver' = [giver EXCEPT ![p] = IF active[p] # 0 THEN 2 ELSE 1]
          /\ UNCHANGED <<points, solved, jobs>>
       \/ /\ giver[p] = 1
          /\ jobs' = [jobs EXCEPT ![p] = Jobs]
          /\ giver' = [giver EXCEPT ![p] = 2]
          /\ UNCHANGED <<points, solved>>
    /\ UNCHANGED <<active, left, inside, foes, special, cheated, owed, statcnt, stats>>

\* "repeat", "new job", or half a minute away.
AskAgain(p) ==
    /\ Outside(p)
    /\ giver' = [giver EXCEPT ![p] = 0]
    /\ UNCHANGED <<jobs, active, solved, left, inside, foes, points, special, cheated, owed, statcnt, stats>>

\* A mutant: a part counts as free when the job of the one inside is done.
BusyWithJob(s) == \E p \in Agents : inside[p] = s /\ active[p] # 0
Busy(s) == \E p \in Agents : inside[p] = s

\* "accept job": the first part of the area without a player is cleared and
\* filled; the player arrives there unless the way in is blocked.
start_mission(p, n) ==
    /\ Outside(p)
    /\ n \in jobs[p] /\ active[p] = 0 /\ solved[p] = 0
    /\ \E s \in Dens :
          /\ ~Busy(s) /\ \A t \in Dens : t < s => Busy(t)
          /\ active' = [active EXCEPT ![p] = n]
          /\ foes' = [foes EXCEPT ![s] = Targets]
          /\ left' = [left EXCEPT ![p] = Targets]
          /\ \E at \in {s, NotThere} : inside' = [inside EXCEPT ![p] = at]
    /\ UNCHANGED <<giver, jobs, solved, points, special, cheated, owed, statcnt, stats>>

\* mission_done: the last target makes the job a solved one.
MissionDone(p, n) ==
    /\ left' = [left EXCEPT ![p] = n]
    /\ active' = IF n = 0 THEN [active EXCEPT ![p] = 0] ELSE active
    /\ solved' = IF n = 0 /\ active[p] # 0 THEN [solved EXCEPT ![p] = active[p]] ELSE solved

\* An enemy dies at the player's hand (or the chest is opened).
mission_fighter_dead(p) ==
    /\ ~Outside(p) /\ foes[inside[p]] > 0
    /\ foes' = [foes EXCEPT ![inside[p]] = @ - 1]
    /\ MissionDone(p, IF left[p] > 0 THEN left[p] - 1 ELSE 0)
    /\ UNCHANGED <<giver, jobs, inside, points, special, cheated, owed, statcnt, stats>>

\* The player leaves the mission area, on foot, dead or by logging out.
LeaveMission(p) ==
    /\ ~Outside(p)
    /\ inside' = [inside EXCEPT ![p] = NotThere]
    /\ UNCHANGED <<giver, jobs, active, solved, left, foes, points, special, cheated, owed, statcnt, stats>>

FailJob(p) ==
    /\ Outside(p) /\ active[p] # 0
    /\ points' = [points EXCEPT ![p] = IF @ > 0 THEN @ - 1 ELSE 0]
    /\ active' = [active EXCEPT ![p] = 0]
    /\ jobs' = [jobs EXCEPT ![p] = {}]
    /\ UNCHANGED <<giver, solved, left, inside, foes, special, cheated, owed, statcnt, stats>>

\* A reward; nothing is paid for what does not fit into the inventory.
mission_give_reward(p) ==
    /\ Outside(p) /\ points[p] >= Price
    /\ points' = [points EXCEPT ![p] = @ - Price]
    /\ UNCHANGED <<giver, jobs, active, solved, left, inside, foes, special, cheated, owed, statcnt, stats>>

BuyPotion(p) ==
    /\ p \in Brewers /\ Outside(p) /\ points[p] >= Price /\ owed[p] < MaxOwed
    /\ points' = [points EXCEPT ![p] = @ - Price]
    /\ owed' = [owed EXCEPT ![p] = @ + 1]
    /\ statcnt' = [statcnt EXCEPT ![p] = 0] /\ stats' = [stats EXCEPT ![p] = 0]
    /\ UNCHANGED <<giver, jobs, active, solved, left, inside, foes, special, cheated>>

\* "one skill", "two skills", "three skills".
ChooseCount(p, n) ==
    /\ Outside(p) /\ owed[p] >= 1
    /\ statcnt' = [statcnt EXCEPT ![p] = n]
    /\ UNCHANGED <<giver, jobs, active, solved, left, inside, foes, points, special, cheated, owed, stats>>

\* A skill is named: with the last one the potion is made, and if it can be
\* handed over nothing is owed any more, however many were paid for.
NameSkill(p) ==
    /\ Outside(p) /\ owed[p] > 0
    /\ LET n == Least(stats[p], 2) + 1
       IN IF n < statcnt[p]
          THEN stats' = [stats EXCEPT ![p] = n] /\ UNCHANGED owed
          ELSE \/ /\ owed' = [owed EXCEPT ![p] = 0]
                  /\ stats' = [stats EXCEPT ![p] = n]
               \/ /\ stats' = [stats EXCEPT ![p] = 0]
                  /\ UNCHANGED owed
    /\ UNCHANGED <<giver, jobs, active, solved, left, inside, foes, points, special, cheated, statcnt>>

\* The special offer is a single item.  It is put back on offer when Mr. Jones
\* acts next; who asks for it before that pays and gets nothing.
BuySpecial(p) ==
    /\ Outside(p) /\ points[p] >= Price
    /\ points' = [points EXCEPT ![p] = @ - Price]
    /\ cheated' = (cheated \/ ~special)
    /\ special' = FALSE
    /\ UNCHANGED <<giver, jobs, active, solved, left, inside, foes, owed, statcnt, stats>>

NewOffer ==
    /\ ~special /\ special' = TRUE
    /\ UNCHANGED <<giver, jobs, active, solved, left, inside, foes, points, cheated, owed, statcnt, stats>>

MissionsNext ==
    \/ NewOffer
    \/ \E p \in Agents :
          \/ JonesSees(p) \/ AskAgain(p) \/ mission_fighter_dead(p) \/ LeaveMission(p) \/ FailJob(p)
          \/ mission_give_reward(p) \/ BuyPotion(p) \/ NameSkill(p) \/ BuySpecial(p)
          \/ \E n \in Jobs : start_mission(p, n)
          \/ \E n \in SkillCounts : ChooseCount(p, n)

MissionsSpec == MissionsInit /\ [][MissionsNext]_missionVars

-----------------------------------------------------------------------------
\* Nobody fights in another's part of the area, and while a player is in his
\* the foes he needs are still there: whoever comes next gets a part of his own
\* and no part is filled or cleared under a player.
PartsApart ==
    \A p, q \in Agents : p # q /\ ~Outside(p) => inside[p] # inside[q]
JobCanBeDone ==
    \A p \in Agents : active[p] # 0 /\ ~Outside(p) => foes[inside[p]] >= left[p] /\ left[p] > 0
\* What is paid was done: a solved job has no target left and is not also open.
SolvedIsDone ==
    \A p \in Agents : solved[p] # 0 => left[p] = 0 /\ active[p] = 0
JobsKept == PartsApart /\ JobCanBeDone /\ SolvedIsDone
=============================================================================
