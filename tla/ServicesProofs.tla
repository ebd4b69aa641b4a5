--------------------------- MODULE ServicesProofs ----------------------------
(* What holds of tasks, account requests, timers and output buffers.        *)
EXTENDS Tasks, Accounts, Timers, Links, FiniteSetTheorems, WellFoundedInduction, TLAPS

-----------------------------------------------------------------------------
(* Tasks: how often one can have been applied to any copy of a character.   *)

Counts == [TaskIDs -> Nat]
SavedCopies == [chr : Counts, leave : BOOLEAN]
Checks == [step : {"idle", "rows", "read", "set"}, todo : SUBSET TaskIDs, row : SUBSET TaskIDs, tmp : Counts \cup {Absent}]

\* A server that has a task before it without having the lock, any more, may apply
\* it after it was applied by another.
Before(s, t) == t \in checking[s].todo \/ (checking[s].step = "read" /\ t \in checking[s].row)
Late(t) == {s \in TaskServers : locked # s /\ Before(s, t)}
\* The server with the lock has applied it and is going to delete it.
Setting(t) == \E s \in TaskServers : locked = s /\ checking[s].step = "set" /\ t \in checking[s].row
Applied(t) == IF t \in issued /\ (t \notin task \/ Setting(t)) THEN 1 ELSE 0

\* How often a task can have been applied to any copy of the character.
Bound(t) == downs + troubles + Applied(t) - Cardinality(Late(t))
Within(copy) == \A t \in TaskIDs : copy[t] <= Bound(t)

TaskTypes ==
    /\ task \subseteq issued /\ issued \subseteq TaskIDs /\ downs \in Nat /\ troubles \in Nat
    /\ current_area \in TaskServers \cup {NoServer}
    /\ chr \in Counts
    /\ login \in [TaskServers -> Counts \cup {Absent}]
    /\ mem \in [TaskServers -> Counts \cup {Absent}]
    /\ saves \in [TaskServers -> Seq(SavedCopies)]
    /\ checking \in [TaskServers -> Checks]
    /\ locked \in TaskServers \cup {NoServer}

\* What a server has before it are tasks; nobody deletes those of the server with the lock.
CheckSound(s) ==
    /\ checking[s].todo \subseteq issued /\ checking[s].row \subseteq issued
    /\ checking[s].row \cap checking[s].todo = {}
    /\ checking[s].step = "idle" => checking[s] = Idle
    /\ checking[s].step = "rows" => checking[s].row = {}
    /\ checking[s].step = "read" => checking[s].tmp \in Counts
    /\ locked = s => checking[s].todo \cup checking[s].row \subseteq task

\* All copies are within the bounds.
CopiesSafe ==
    /\ Within(chr)
    /\ \A s \in TaskServers :
         /\ login[s] # Absent => Within(login[s])
         /\ mem[s] # Absent => Within(mem[s])
         /\ checking[s].step = "read" => Within(checking[s].tmp)
         /\ \A n \in 1 .. Len(saves[s]) : Within(saves[s][n].chr)

\* Where the character is: only the server its row names has copies, and if it has
\* left the game there the last save of the queue is the one that says so.
PlaceAt(s) ==
    /\ current_area # s => login[s] = Absent /\ mem[s] = Absent /\ saves[s] = << >>
    /\ login[s] = Absent \/ mem[s] = Absent
    /\ \A n \in 1 .. Len(saves[s]) :
          saves[s][n].leave <=> (n = Len(saves[s]) /\ login[s] = Absent /\ mem[s] = Absent)
    /\ current_area = s /\ login[s] = Absent /\ mem[s] = Absent => saves[s] # << >>

BoundsRight == \A t \in TaskIDs : Bound(t) \in Nat
TasksSafe ==
    /\ TaskTypes /\ BoundsRight /\ CopiesSafe
    /\ \A s \in TaskServers : CheckSound(s) /\ PlaceAt(s)

\* Where a character is not there is no copy of it.
LEMMA AbsentIsNoCopy == Absent \notin Counts
<1>1. DOMAIN Absent = {}
  BY DEF Absent
<1> QED
  BY <1>1, TasksAssumption DEF Counts

\* The shape of what a server is at.
LEMMA IdleShape == Idle \in Checks /\ Idle.step = "idle" /\ Idle.todo = {} /\ Idle.row = {}
  BY DEF Idle, Checks
LEMMA CheckShape ==
    ASSUME TaskTypes, NEW s \in TaskServers
    PROVE  /\ checking[s] \in Checks /\ checking[s].todo \subseteq TaskIDs /\ checking[s].row \subseteq TaskIDs
           /\ checking[s].step \in {"idle", "rows", "read", "set"} /\ s # NoServer
  BY TasksAssumption DEF TaskTypes, Checks

\* The bound is a sum of numbers, in which the server that steps can be taken apart.
Apart(s, t) ==
    /\ Cardinality(Late(t) \ {s}) \in Nat /\ Applied(t) \in {0, 1}
    /\ Bound(t) = downs + troubles + Applied(t) - (Cardinality(Late(t) \ {s}) + IF s \in Late(t) THEN 1 ELSE 0)
AllApart == \A s \in TaskServers, t \in TaskIDs : Apart(s, t)
LEMMA BoundApart == AllApart
<1> SUFFICES ASSUME NEW s \in TaskServers, NEW t \in TaskIDs PROVE Apart(s, t)
  BY DEF AllApart
<1>1. Late(t) \subseteq TaskServers /\ IsFiniteSet(TaskServers)
  BY TasksAssumption DEF Late
<1>2. IsFiniteSet(Late(t)) /\ Cardinality(Late(t)) \in Nat
  BY <1>1, FS_Subset, FS_CardinalityType
<1>3. CASE s \in Late(t)
  <2>1. IsFiniteSet(Late(t) \ {s}) /\ Cardinality(Late(t) \ {s}) = Cardinality(Late(t)) - 1
    BY <1>2, <1>3, FS_RemoveElement
  <2>2. Cardinality(Late(t) \ {s}) \in Nat
    BY <2>1, FS_CardinalityType
  <2>3. Cardinality(Late(t)) = Cardinality(Late(t) \ {s}) + 1
    BY <1>2, <2>1, <2>2
  <2> QED
    BY <1>3, <2>2, <2>3 DEF Apart, Bound, Applied
<1>4. CASE s \notin Late(t)
  <2>1. Late(t) \ {s} = Late(t)
    BY <1>4
  <2> QED
    BY <1>2, <1>4, <2>1 DEF Apart, Bound, Applied
<1> QED
  BY <1>3, <1>4

\* What the step of one server does to the bound of a task: what goes wrong, is
\* applied, or is late no more.
Score(s, t) == downs + troubles + Applied(t) - IF s \in Late(t) THEN 1 ELSE 0
OthersRest(s) == \A r \in TaskServers \ {s} : checking'[r] = checking[r] /\ (locked' = r <=> locked = r)
LEMMA BoundMoves ==
    ASSUME TasksSafe, TaskTypes', NEW s \in TaskServers, NEW t \in TaskIDs, OthersRest(s)
    PROVE  /\ Bound(t)' - Bound(t) = Score(s, t)' - Score(s, t)
           /\ Bound(t) \in Nat /\ Bound(t)' \in Int /\ Score(s, t) \in Int /\ Score(s, t)' \in Int
<1>1. (Late(t) \ {s})' = Late(t) \ {s}
  BY DEF OthersRest, Late, Before
<1>2. Apart(s, t)
  BY BoundApart DEF AllApart
<1>3. AllApart'
  BY BoundApart, PTL
<1>4. Apart(s, t)'
  BY <1>3 DEF AllApart
<1>5. PICK n \in Nat : n = Cardinality(Late(t) \ {s}) /\ n = Cardinality(Late(t)' \ {s})
  BY <1>1, <1>2 DEF Apart
<1>6. downs \in Nat /\ troubles \in Nat /\ downs' \in Nat /\ troubles' \in Nat /\ Bound(t) \in Nat
  BY DEF TasksSafe, TaskTypes, BoundsRight
<1> QED
  BY <1>2, <1>4, <1>5, <1>6 DEF Score, Apart

\* A step that applies nothing: bounds do not fall, and no copy is new.
LEMMA NothingApplied ==
    ASSUME TasksSafe, TaskTypes', \A t \in TaskIDs : Bound(t)' >= Bound(t) /\ Bound(t) \in Nat /\ Bound(t)' \in Nat,
           \A t \in TaskIDs : chr'[t] <= Bound(t),
           \A s \in TaskServers : login'[s] # Absent => \A t \in TaskIDs : login'[s][t] <= Bound(t),
           \A s \in TaskServers : mem'[s] # Absent => \A t \in TaskIDs : mem'[s][t] <= Bound(t),
           \A s \in TaskServers : checking'[s].step = "read" =>
                checking'[s].tmp \in Counts /\ \A t \in TaskIDs : checking'[s].tmp[t] <= Bound(t),
           \A s \in TaskServers : \A n \in 1 .. Len(saves'[s]) : \A t \in TaskIDs : saves'[s][n].chr[t] <= Bound(t)
    PROVE  CopiesSafe'
<1>1. \A t \in TaskIDs : chr'[t] \in Nat
  BY DEF TaskTypes, Counts
<1>2. \A s \in TaskServers : login'[s] # Absent => \A t \in TaskIDs : login'[s][t] \in Nat
  BY DEF TaskTypes, Counts
<1>3. \A s \in TaskServers : mem'[s] # Absent => \A t \in TaskIDs : mem'[s][t] \in Nat
  BY DEF TaskTypes, Counts
<1>4. ASSUME NEW s \in TaskServers, NEW n \in 1 .. Len(saves'[s]) PROVE saves'[s][n].chr \in Counts
  <2>1. saves'[s] \in Seq(SavedCopies)
    BY DEF TaskTypes
  <2>2. saves'[s][n] \in SavedCopies
    BY <2>1
  <2> QED
    BY <2>2 DEF SavedCopies
<1>5. \A s \in TaskServers : \A n \in 1 .. Len(saves'[s]) : \A t \in TaskIDs : saves'[s][n].chr[t] \in Nat
  BY <1>4 DEF Counts
<1>6. Within(chr)'
  BY <1>1 DEF Within
<1>7. \A s \in TaskServers : login'[s] # Absent => Within(login[s])'
  BY <1>2 DEF Within
<1>8. \A s \in TaskServers : mem'[s] # Absent => Within(mem[s])'
  BY <1>3 DEF Within
<1>9. \A s \in TaskServers : \A n \in 1 .. Len(saves'[s]) : Within(saves[s][n].chr)'
  BY <1>5 DEF Within
<1>10. \A s \in TaskServers : checking'[s].step = "read" => Within(checking[s].tmp)'
  BY DEF Within, Counts
<1> QED
  BY <1>6, <1>7, <1>8, <1>9, <1>10 DEF CopiesSafe

\* The bounds as they are known before a step.
LEMMA BoundsKnown ==
    ASSUME TasksSafe
    PROVE  /\ Absent \notin Counts /\ NoServer \notin TaskServers
           /\ \A t \in TaskIDs : Bound(t) \in Nat
           /\ \A t \in TaskIDs : chr[t] <= Bound(t)
           /\ \A s \in TaskServers : login[s] # Absent => \A t \in TaskIDs : login[s][t] <= Bound(t)
           /\ \A s \in TaskServers : mem[s] # Absent => \A t \in TaskIDs : mem[s][t] <= Bound(t)
           /\ \A s \in TaskServers : checking[s].step = "read" =>
                checking[s].tmp \in Counts /\ \A t \in TaskIDs : checking[s].tmp[t] <= Bound(t)
           /\ \A s \in TaskServers : \A n \in 1 .. Len(saves[s]) : \A t \in TaskIDs : saves[s][n].chr[t] <= Bound(t)
  BY AbsentIsNoCopy, TasksAssumption DEF TasksSafe, TaskTypes, CopiesSafe, Within, BoundsRight, CheckSound

\* Steps of the character alone: the bounds and the checks stay.
LEMMA WorkStays ==
    ASSUME TasksSafe, UNCHANGED <<task, checking, locked, issued, downs, troubles>>
    PROVE  /\ \A t \in TaskIDs : Bound(t)' >= Bound(t) /\ Bound(t) \in Nat /\ Bound(t)' \in Nat
           /\ BoundsRight' /\ \A s \in TaskServers : CheckSound(s)'
<1>1. \A t \in TaskIDs : Late(t)' = Late(t) /\ Applied(t)' = Applied(t)
  BY DEF Late, Before, Applied, Setting
<1>2. \A t \in TaskIDs : Bound(t)' = Bound(t) /\ Bound(t) \in Nat
  BY <1>1 DEF Bound, TasksSafe, BoundsRight
<1>3. \A s \in TaskServers : CheckSound(s)'
  BY DEF TasksSafe, CheckSound
<1> QED
  BY <1>2, <1>3 DEF BoundsRight

\* A server loads the saved character: its row names it.
LEMMA LoadStep == ASSUME TasksSafe, NEW s \in TaskServers, Load(s) PROVE TasksSafe'
<1>1. /\ current_area = NoServer /\ current_area' = s /\ login' = [login EXCEPT ![s] = chr]
      /\ UNCHANGED <<task, chr, mem, saves, checking, locked, issued, downs, troubles>>
  BY DEF Load, TaskWork
<1>2. TaskTypes'
  BY <1>1 DEF TasksSafe, TaskTypes
<1>3. CopiesSafe'
  <2>1. /\ \A r \in TaskServers : login'[r] # Absent => \A t \in TaskIDs : login'[r][t] <= Bound(t)
        /\ \A r \in TaskServers : mem'[r] # Absent => \A t \in TaskIDs : mem'[r][t] <= Bound(t)
    BY BoundsKnown, <1>1 DEF TasksSafe, TaskTypes
  <2>2. \A t \in TaskIDs : Bound(t)' >= Bound(t) /\ Bound(t) \in Nat /\ Bound(t)' \in Nat
    BY <1>1, WorkStays
  <2> QED
    BY BoundsKnown, <1>1, <1>2, <2>1, <2>2, NothingApplied
<1>4. \A r \in TaskServers : PlaceAt(r)'
  BY BoundsKnown, <1>1 DEF TasksSafe, TaskTypes, PlaceAt
<1>9. BoundsRight' /\ \A r \in TaskServers : CheckSound(r)'
  BY <1>1, WorkStays
<1> QED
  BY <1>9, <1>2, <1>3, <1>4 DEF TasksSafe

\* It enters the game.
LEMMA EnterStep == ASSUME TasksSafe, NEW s \in TaskServers, Enter(s) PROVE TasksSafe'
<1>1. /\ login[s] # Absent /\ mem' = [mem EXCEPT ![s] = login[s]] /\ login' = [login EXCEPT ![s] = Absent]
      /\ UNCHANGED <<task, current_area, chr, saves, checking, locked, issued, downs, troubles>>
  BY DEF Enter, TaskWork
<1>2. TaskTypes'
  BY <1>1 DEF TasksSafe, TaskTypes
<1>3. CopiesSafe'
  <2>1. /\ \A r \in TaskServers : login'[r] # Absent => \A t \in TaskIDs : login'[r][t] <= Bound(t)
        /\ \A r \in TaskServers : mem'[r] # Absent => \A t \in TaskIDs : mem'[r][t] <= Bound(t)
    BY BoundsKnown, <1>1 DEF TasksSafe, TaskTypes
  <2>2. \A t \in TaskIDs : Bound(t)' >= Bound(t) /\ Bound(t) \in Nat /\ Bound(t)' \in Nat
    BY <1>1, WorkStays
  <2> QED
    BY BoundsKnown, <1>1, <1>2, <2>1, <2>2, NothingApplied
<1>4. \A r \in TaskServers : PlaceAt(r)'
  BY <1>1 DEF TasksSafe, TaskTypes, PlaceAt
<1>9. BoundsRight' /\ \A r \in TaskServers : CheckSound(r)'
  BY <1>1, WorkStays
<1> QED
  BY <1>9, <1>2, <1>3, <1>4 DEF TasksSafe

\* A copy of it goes to the queue.
LEMMA SaveStep == ASSUME TasksSafe, NEW s \in TaskServers, NEW leave \in BOOLEAN, Save(s, leave) PROVE TasksSafe'
<1> DEFINE new == [chr |-> mem[s], leave |-> leave]
<1>1. /\ mem[s] # Absent
      /\ saves' = [saves EXCEPT ![s] = Append(@, new)]
      /\ mem' = [mem EXCEPT ![s] = IF leave THEN Absent ELSE @]
      /\ UNCHANGED <<task, current_area, chr, login, checking, locked, issued, downs, troubles>>
  BY DEF Save, Online, TaskWork
<1>2. /\ new \in SavedCopies /\ new.chr = mem[s] /\ (new.leave <=> leave) /\ mem[s] \in Counts
      /\ saves[s] \in Seq(SavedCopies)
  BY <1>1 DEF TasksSafe, TaskTypes, SavedCopies
<1> HIDE DEF new
<1>3. /\ saves'[s] = Append(saves[s], new) /\ saves'[s] \in Seq(SavedCopies)
      /\ Len(saves'[s]) = Len(saves[s]) + 1 /\ Len(saves[s]) \in Nat
      /\ saves'[s][Len(saves[s]) + 1] = new
      /\ \A n \in 1 .. Len(saves[s]) : saves'[s][n] = saves[s][n]
      /\ \A r \in TaskServers \ {s} : saves'[r] = saves[r]
  BY <1>1, <1>2 DEF TasksSafe, TaskTypes
<1>4. TaskTypes'
  BY <1>1, <1>3 DEF TasksSafe, TaskTypes
<1>5. ASSUME NEW r \in TaskServers, NEW n \in 1 .. Len(saves'[r]), NEW t \in TaskIDs
      PROVE  saves'[r][n].chr[t] <= Bound(t)
  BY BoundsKnown, <1>1, <1>2, <1>3, <1>5
<1>6. CopiesSafe'
  <2>1. \A r \in TaskServers : mem'[r] # Absent => \A t \in TaskIDs : mem'[r][t] <= Bound(t)
    BY BoundsKnown, <1>1 DEF TasksSafe, TaskTypes
  <2>2. \A t \in TaskIDs : Bound(t)' >= Bound(t) /\ Bound(t) \in Nat /\ Bound(t)' \in Nat
    BY <1>1, WorkStays
  <2> QED
    BY BoundsKnown, <1>1, <1>4, <1>5, <2>1, <2>2, NothingApplied
<1>7. PlaceAt(s)'
  <2>1. current_area = s /\ login[s] = Absent /\ \A n \in 1 .. Len(saves[s]) : ~saves[s][n].leave
    BY <1>1 DEF TasksSafe, PlaceAt
  <2>2. mem'[s] = Absent <=> leave
    BY <1>1 DEF TasksSafe, TaskTypes
  <2>3. ASSUME NEW n \in 1 .. Len(saves'[s])
        PROVE  saves'[s][n].leave <=> (n = Len(saves'[s]) /\ mem'[s] = Absent)
    <3>1. CASE n = Len(saves[s]) + 1
      BY <1>2, <1>3, <2>2, <3>1
    <3>2. CASE n # Len(saves[s]) + 1
      <4>1. n \in 1 .. Len(saves[s])
        BY <1>3, <3>2
      <4> QED
        BY <1>3, <2>1, <3>2, <4>1
    <3> QED
      BY <3>1, <3>2
  <2>4. saves'[s] # << >>
    BY <1>3
  <2> QED
    BY <1>1, <2>1, <2>3, <2>4 DEF PlaceAt
<1>8. \A r \in TaskServers \ {s} : PlaceAt(r)'
  BY <1>1, <1>3 DEF TasksSafe, TaskTypes, PlaceAt
<1>9. BoundsRight' /\ \A r \in TaskServers : CheckSound(r)'
  BY <1>1, WorkStays
<1> QED
  BY <1>9, <1>4, <1>6, <1>7, <1>8 DEF TasksSafe

\* The oldest save of a queue is written; the row is the server's.
LEMMA DoSaveStep == ASSUME TasksSafe, NEW s \in TaskServers, DoSave(s) PROVE TasksSafe'
<1> DEFINE save == Head(saves[s])
<1>1. /\ saves[s] # << >> /\ saves' = [saves EXCEPT ![s] = Tail(@)]
      /\ IF current_area = s
         THEN chr' = save.chr /\ current_area' = IF save.leave THEN NoServer ELSE s
         ELSE UNCHANGED <<chr, current_area>>
      /\ UNCHANGED <<task, login, mem, checking, locked, issued, downs, troubles>>
  BY DEF DoSave, TaskWork
<1>2. /\ saves[s] \in Seq(SavedCopies) /\ Len(saves[s]) \in Nat /\ Len(saves[s]) > 0
      /\ save = saves[s][1] /\ save \in SavedCopies /\ save.chr \in Counts
      /\ saves'[s] \in Seq(SavedCopies) /\ Len(saves'[s]) = Len(saves[s]) - 1
      /\ \A n \in 1 .. Len(saves[s]) - 1 : saves'[s][n] = saves[s][n + 1]
      /\ \A r \in TaskServers \ {s} : saves'[r] = saves[r]
  <2>1. saves[s] \in Seq(SavedCopies) /\ saves[s] # << >>
    BY <1>1 DEF TasksSafe, TaskTypes
  <2>2. Len(saves[s]) \in Nat /\ Len(saves[s]) > 0 /\ save = saves[s][1] /\ save \in SavedCopies
    BY <2>1
  <2>3. save.chr \in Counts
    BY <2>2 DEF SavedCopies
  <2>4. saves'[s] = Tail(saves[s]) /\ \A r \in TaskServers \ {s} : saves'[r] = saves[r]
    BY <1>1 DEF TasksSafe, TaskTypes
  <2>5. /\ saves'[s] \in Seq(SavedCopies) /\ Len(saves'[s]) = Len(saves[s]) - 1
        /\ \A n \in 1 .. Len(saves[s]) - 1 : saves'[s][n] = saves[s][n + 1]
    BY <2>1, <2>4
  <2> QED
    BY <2>1, <2>2, <2>3, <2>4, <2>5
<1> HIDE DEF save
<1>3. current_area = s
  BY <1>1 DEF TasksSafe, PlaceAt
<1>4. TaskTypes'
  BY <1>1, <1>2, <1>3 DEF TasksSafe, TaskTypes
<1>5. ASSUME NEW r \in TaskServers, NEW n \in 1 .. Len(saves'[r]), NEW t \in TaskIDs
      PROVE  saves'[r][n].chr[t] <= Bound(t)
  <2>1. CASE r = s
    <3>1. n + 1 \in 1 .. Len(saves[s]) /\ saves'[r][n] = saves[s][n + 1]
      BY <1>2, <2>1
    <3> QED
      BY BoundsKnown, <3>1
  <2>2. CASE r # s
    BY BoundsKnown, <1>2, <1>5, <2>2
  <2> QED
    BY <2>1, <2>2
<1>6. CopiesSafe'
  <2>1. \A t \in TaskIDs : chr'[t] <= Bound(t)
    <3>1. 1 \in 1 .. Len(saves[s])
      BY <1>2
    <3> QED
      BY BoundsKnown, <1>1, <1>2, <1>3, <3>1
  <2>2. \A t \in TaskIDs : Bound(t)' >= Bound(t) /\ Bound(t) \in Nat /\ Bound(t)' \in Nat
    BY <1>1, WorkStays
  <2> QED
    BY BoundsKnown, <1>1, <1>4, <1>5, <2>1, <2>2, NothingApplied
<1>7. PlaceAt(s)'
  <2>1. save.leave <=> (Len(saves[s]) = 1 /\ login[s] = Absent /\ mem[s] = Absent)
    <3>1. 1 \in 1 .. Len(saves[s])
      BY <1>2
    <3> QED
      BY <1>2, <3>1 DEF TasksSafe, PlaceAt
  <2>2. saves'[s] = << >> <=> Len(saves[s]) = 1
    <3> DEFINE rest == saves'[s]
    <3>1. rest \in Seq(SavedCopies)
      BY <1>2
    <3>2. Len(rest) = Len(saves[s]) - 1 /\ Len(saves[s]) \in Nat
      BY <1>2
    <3>3. rest = << >> <=> Len(rest) = 0
      <4> HIDE DEF rest
      <4> QED
        BY <3>1
    <3> QED
      BY <3>2, <3>3
  <2>3. CASE save.leave
    BY BoundsKnown, <1>1, <1>2, <1>3, <2>1, <2>2, <2>3 DEF TasksSafe, PlaceAt
  <2>4. CASE ~save.leave
    BY BoundsKnown, <1>1, <1>2, <1>3, <2>1, <2>2, <2>4 DEF TasksSafe, PlaceAt
  <2> QED
    BY <2>3, <2>4
<1>8. \A r \in TaskServers \ {s} : PlaceAt(r)'
  BY BoundsKnown, <1>1, <1>2, <1>3 DEF TasksSafe, TaskTypes, PlaceAt
<1>9. BoundsRight' /\ \A r \in TaskServers : CheckSound(r)'
  BY <1>1, WorkStays
<1> QED
  BY <1>9, <1>4, <1>6, <1>7, <1>8 DEF TasksSafe

\* A step of one server on the tasks alone, after which the bound of a task is not lower.
LEMMA TaskWorkStep ==
    ASSUME TasksSafe, NEW s \in TaskServers, TaskTypes', OthersRest(s), CheckSound(s)',
           \A r \in TaskServers \ {s} : CheckSound(r)', UNCHANGED Characters,
           \A t \in TaskIDs : Score(s, t)' >= Score(s, t),
           checking'[s].step = "read" => checking'[s].tmp \in {chr, checking[s].tmp} /\ (checking'[s].tmp = chr \/ checking[s].step = "read")
    PROVE  TasksSafe'
<1>1. \A t \in TaskIDs : Bound(t)' >= Bound(t) /\ Bound(t) \in Nat /\ Bound(t)' \in Nat
  BY BoundMoves
<1>2. UNCHANGED <<current_area, chr, login, mem, saves>>
  BY DEF Characters
<1>3. \A r \in TaskServers : checking'[r].step = "read" =>
          checking'[r].tmp \in Counts /\ \A t \in TaskIDs : checking'[r].tmp[t] <= Bound(t)
  <2>1. \A r \in TaskServers \ {s} : checking'[r] = checking[r]
    BY DEF OthersRest
  <2>2. chr \in Counts
    BY DEF TasksSafe, TaskTypes
  <2> QED
    BY BoundsKnown, <2>1, <2>2
<1>4. CopiesSafe'
  BY BoundsKnown, <1>1, <1>2, <1>3, NothingApplied
<1>5. \A r \in TaskServers : PlaceAt(r)'
  BY <1>2 DEF TasksSafe, PlaceAt
<1> QED
  BY <1>1, <1>4, <1>5 DEF TasksSafe, BoundsRight

\* Where one server steps, and the rows of tasks stay, those of the others are sound.
LEMMA OthersSound ==
    ASSUME TasksSafe, NEW s \in TaskServers, OthersRest(s), NEW r \in TaskServers \ {s}, UNCHANGED issued,
           task' = task \/ locked # r
    PROVE  CheckSound(r)'
<1>1. checking'[r] = checking[r] /\ (locked' = r <=> locked = r) /\ CheckSound(r)
  BY DEF OthersRest, TasksSafe
<1> QED
  BY <1>1 DEF CheckSound

\* What a server is at is the only thing of it that counts.
LEMMA ScoreIs ==
    ASSUME NEW s \in TaskServers, NEW t \in TaskIDs, locked \in {NoServer, s}
    PROVE  /\ Setting(t) <=> locked = s /\ checking[s].step = "set" /\ t \in checking[s].row
           /\ s \in Late(t) <=> locked # s /\ Before(s, t)
  BY TasksAssumption DEF Setting, Late

\* A new task: nobody has it before him.
LEMMA AddStep == ASSUME TasksSafe, NEW s \in TaskServers, NEW t \in TaskIDs, add_task(s, t) PROVE TasksSafe'
<1>1. /\ t \notin issued /\ issued' = issued \cup {t} /\ task' = task \cup {t}
      /\ UNCHANGED <<Characters, checking, locked, downs, troubles>>
  BY DEF add_task
<1>2. TaskTypes' /\ OthersRest(s)
  BY <1>1 DEF TasksSafe, TaskTypes, Characters, OthersRest
<1>3. \A r \in TaskServers : CheckSound(r)'
  BY <1>1 DEF TasksSafe, CheckSound
<1>4. ASSUME NEW u \in TaskIDs PROVE Score(s, u)' >= Score(s, u)
  <2>1. ~Setting(t)
    BY <1>1 DEF Setting, TasksSafe, CheckSound
  <2>2. Setting(u)' = Setting(u) /\ Late(u)' = Late(u)
    BY <1>1 DEF Setting, Late, Before
  <2>3. Applied(u)' = Applied(u)
    BY <1>1, <2>1, <2>2 DEF Applied, TasksSafe, TaskTypes
  <2> QED
    BY <1>1, <1>2, <2>2, <2>3, BoundMoves DEF Score
<1> QED
  BY <1>1, <1>2, <1>3, <1>4, TaskWorkStep

\* The numbers a score is made of.
LEMMA Numbers ==
    ASSUME TasksSafe, TaskTypes'
    PROVE  /\ downs \in Nat /\ troubles \in Nat /\ downs' \in Nat /\ troubles' \in Nat
           /\ \A t \in TaskIDs : Applied(t) \in {0, 1} /\ Applied(t)' \in {0, 1}
  BY DEF TasksSafe, TaskTypes, Applied

\* All tasks are selected under the lock: nothing is late that was not before.
LEMMA LockStep == ASSUME TasksSafe, NEW s \in TaskServers, LockTables(s) PROVE TasksSafe'
<1>1. /\ checking[s] = Idle /\ locked \in {NoServer, s} /\ locked' = s
      /\ UNCHANGED <<task, issued, downs>> /\ UNCHANGED Characters
      /\ UNCHANGED troubles \/ troubles' = troubles + 1
  BY DEF LockTables, Free, Unlocked, Trouble, NoTrouble
<1>2. PICK record \in Checks : /\ checking' = [checking EXCEPT ![s] = record] /\ record.row = {}
                               /\ record.todo \subseteq task /\ record.step \in {"idle", "rows"}
                               /\ record.step = "idle" => record = Idle
  <2>1. PICK record : record = [step |-> "rows", todo |-> task, row |-> {}, tmp |-> Absent]
    OBVIOUS
  <2>2. record \in Checks /\ record.row = {} /\ record.todo = task /\ record.step = "rows"
    BY <2>1 DEF Checks, TasksSafe, TaskTypes
  <2>3. CASE Goes(s, record)
    BY <2>2, <2>3 DEF Goes
  <2>4. CASE UNCHANGED checking
    BY <1>1, <2>4, IdleShape DEF TasksSafe, TaskTypes
  <2> QED
    BY <2>1, <2>3, <2>4 DEF LockTables
<1>3. checking'[s] = record /\ OthersRest(s) /\ s # NoServer
  BY <1>1, <1>2, TasksAssumption DEF TasksSafe, TaskTypes, OthersRest
<1>4. TaskTypes'
  BY <1>1, <1>2 DEF TasksSafe, TaskTypes, Characters
<1>5. CheckSound(s)'
  BY <1>1, <1>2, <1>3 DEF CheckSound, TasksSafe, TaskTypes
<1>6. \A r \in TaskServers \ {s} : CheckSound(r)'
  BY <1>1, <1>3, OthersSound
<1>7. ASSUME NEW t \in TaskIDs PROVE Score(s, t)' >= Score(s, t)
  <2>1. ~Setting(t) /\ s \notin Late(t)
    BY <1>1, ScoreIs, IdleShape DEF Before
  <2>2. ~Setting(t)' /\ s \notin Late(t)'
    <3>1. \A r \in TaskServers : locked' = r => r = s
      BY <1>1
    <3> QED
      BY <1>1, <1>2, <1>3, <3>1 DEF Setting, Late, Before
  <2>3. Applied(t)' = Applied(t)
    BY <1>1, <2>1, <2>2 DEF Applied
  <2>4. Score(s, t) = downs + troubles + Applied(t) /\ Score(s, t)' = downs' + troubles' + Applied(t)'
    BY <1>4, <2>1, <2>2, Numbers DEF Score
  <2> QED
    BY <1>1, <1>4, <2>3, <2>4, Numbers
<1> QED
  BY <1>1, <1>2, <1>3, <1>4, <1>5, <1>6, <1>7, TaskWorkStep

\* The next row, or the end.
LEMMA NextRowIs ==
    ASSUME TasksSafe, NEW s \in TaskServers, locked \in {NoServer, s}, NEW todo \in SUBSET TaskIDs, NextRow(s, todo)
    PROVE  /\ checking' \in [TaskServers -> Checks] /\ locked' \in {NoServer, s} /\ OthersRest(s)
           /\ checking'[s].todo = todo /\ checking'[s].row = {} /\ checking'[s].step \in {"idle", "rows"}
           /\ checking'[s].step = "idle" => checking'[s] = Idle
           /\ locked' = locked \/ todo = {}
           /\ locked' = s => locked = s
<1>1. PICK record \in Checks : /\ checking' = [checking EXCEPT ![s] = record] /\ record.row = {}
                               /\ record.todo = todo /\ record.step \in {"idle", "rows"}
                               /\ record.step = "idle" => record = Idle
  <2>1. PICK record : record = [step |-> "rows", todo |-> todo, row |-> {}, tmp |-> Absent]
    OBVIOUS
  <2>2. record \in Checks /\ record.row = {} /\ record.todo = todo /\ record.step = "rows"
    BY <2>1 DEF Checks
  <2>3. CASE todo = {}
    <3>1. checking' = [checking EXCEPT ![s] = Idle]
      BY <2>3 DEF NextRow, Goes
    <3> QED
      BY <2>3, <3>1, IdleShape
  <2>4. CASE todo # {}
    <3>1. checking' = [checking EXCEPT ![s] = record]
      BY <2>1, <2>4 DEF NextRow, Goes
    <3> QED
      BY <2>2, <3>1
  <2> QED
    BY <2>3, <2>4
<1>2. locked' = IF todo = {} THEN NoServer ELSE locked
  BY DEF NextRow
<1>3. checking \in [TaskServers -> Checks]
  BY DEF TasksSafe, TaskTypes
<1>4. checking'[s] = record /\ checking' \in [TaskServers -> Checks]
  BY <1>1, <1>3
<1>5. OthersRest(s)
  BY <1>1, <1>2, <1>3, TasksAssumption DEF OthersRest
<1> QED
  BY <1>1, <1>2, <1>4, <1>5, TasksAssumption

\* A server goes to its next row: a task that was applied is deleted, or that failed.
LEMMA LeaveRow ==
    ASSUME TasksSafe, NEW s \in TaskServers, locked \in {NoServer, s}, NEW todo \in SUBSET checking[s].todo,
           NextRow(s, todo), UNCHANGED <<Characters, issued, downs>>,
           \/ troubles' = troubles + 1 /\ task' = task
           \/ troubles' = troubles /\ task' = task /\ checking[s].step # "set"
           \/ troubles' = troubles /\ task' = task \ checking[s].row /\ checking[s].step = "set"
    PROVE  TasksSafe'
<1>0. todo \in SUBSET TaskIDs
  BY CheckShape DEF TasksSafe
<1>1. /\ checking' \in [TaskServers -> Checks] /\ locked' \in {NoServer, s} /\ OthersRest(s)
      /\ checking'[s].todo = todo /\ checking'[s].row = {} /\ checking'[s].step \in {"idle", "rows"}
      /\ checking'[s].step = "idle" => checking'[s] = Idle
      /\ locked' = locked \/ todo = {}
      /\ locked' = s => locked = s
  BY <1>0, NextRowIs
<1>2. TaskTypes' /\ s # NoServer
  BY <1>1, TasksAssumption DEF TasksSafe, TaskTypes, Characters
<1>3. CheckSound(s)'
  BY <1>1 DEF TasksSafe, CheckSound
<1>4. \A r \in TaskServers \ {s} : CheckSound(r)'
  <2> SUFFICES ASSUME NEW r \in TaskServers \ {s} PROVE CheckSound(r)'
    OBVIOUS
  <2>1. locked # r
    BY TasksAssumption
  <2> QED
    BY <1>1, <2>1, OthersSound
<1>5. ASSUME NEW t \in TaskIDs PROVE Score(s, t)' >= Score(s, t)
  <2>1. ~Setting(t)'
    <3>1. \A r \in TaskServers : locked' = r => r = s
      BY <1>1, TasksAssumption
    <3> QED
      BY <1>1, <3>1 DEF Setting
  <2>2. Setting(t) => checking[s].step = "set" /\ t \in checking[s].row
    BY ScoreIs
  <2>3. s \in Late(t)' => s \in Late(t)
    BY <1>1 DEF Late, Before
  <2>4. troubles' + Applied(t)' >= troubles + Applied(t)
    BY <1>2, <2>1, <2>2, Numbers DEF Applied
  <2> QED
    BY <1>2, <2>3, <2>4, Numbers DEF Score
<1> QED
  BY <1>1, <1>2, <1>3, <1>4, <1>5, TaskWorkStep

\* A server applies a task: as the one with the lock, or late.
LEMMA ApplyStep ==
    ASSUME TasksSafe, TaskTypes', NEW s \in TaskServers, NEW t \in TaskIDs, OthersRest(s),
           locked \in {NoServer, s}, UNCHANGED <<task, issued, downs, troubles, locked>>,
           Before(s, t), checking[s].step # "set",
           checking'[s].step = "set", t \in checking'[s].row, t \notin checking'[s].todo,
           \A u \in TaskIDs : Before(s, u)' => Before(s, u)
    PROVE  /\ Bound(t)' >= Bound(t) + 1
           /\ \A u \in TaskIDs : Bound(u)' >= Bound(u) /\ Bound(u) \in Nat /\ Bound(u)' \in Nat
<1>1. ASSUME NEW u \in TaskIDs PROVE Score(s, u)' >= Score(s, u)
  <2>1. ~Setting(u) /\ (s \in Late(u)' => s \in Late(u))
    BY <1>1, ScoreIs DEF Late
  <2>2. Applied(u)' >= Applied(u)
    BY <2>1 DEF Applied
  <2> QED
    BY <2>1, <2>2, Numbers DEF Score
<1>2. Score(s, t)' >= Score(s, t) + 1
  <2>1. ~Setting(t) /\ ~Before(s, t)'
    BY ScoreIs DEF Before
  <2>2. CASE locked = s
    <3>1. t \in issued /\ t \in task
      BY <2>2 DEF TasksSafe, CheckSound, Before
    <3>2. Setting(t)'
      BY <2>2 DEF Setting
    <3>3. Applied(t) = 0 /\ Applied(t)' = 1
      BY <2>1, <3>1, <3>2 DEF Applied
    <3>4. s \notin Late(t) /\ s \notin Late(t)'
      BY <2>2 DEF Late
    <3> QED
      BY <3>3, <3>4, Numbers DEF Score
  <2>3. CASE locked = NoServer
    <3>1. s \in Late(t) /\ s \notin Late(t)'
      BY <2>1, <2>3, TasksAssumption DEF Late
    <3>2. Applied(t)' >= Applied(t)
      BY <2>1 DEF Applied
    <3> QED
      BY <3>1, <3>2, Numbers DEF Score
  <2> QED
    BY <2>2, <2>3
<1> QED
  BY <1>1, <1>2, BoundMoves

\* The character is in the game on this server.
LEMMA SetOnlineStep == ASSUME TasksSafe, NEW s \in TaskServers, NEW t \in TaskIDs, SetOnline(s, t) PROVE TasksSafe'
<1>1. /\ checking[s].step = "rows" /\ locked \in {NoServer, s} /\ t \in checking[s].todo
      /\ mem[s] # Absent /\ mem' = [mem EXCEPT ![s][t] = @ + 1]
      /\ UNCHANGED <<task, current_area, chr, login, saves, locked, issued, downs, troubles>>
  BY DEF SetOnline, At, Online, NoTrouble
<1>2. PICK record : record = [step |-> "set", todo |-> checking[s].todo \ {t}, row |-> {t}, tmp |-> Absent]
  OBVIOUS
<1>3. /\ checking' = [checking EXCEPT ![s] = record] /\ record \in Checks
      /\ record.todo = checking[s].todo \ {t} /\ record.row = {t} /\ record.step = "set"
  <2>1. checking[s].todo \subseteq TaskIDs
    BY CheckShape DEF TasksSafe
  <2> QED
    BY <1>2, <2>1 DEF SetOnline, Goes, Checks
<1>4. checking'[s] = record /\ OthersRest(s) /\ s # NoServer
  BY <1>1, <1>3, TasksAssumption DEF TasksSafe, TaskTypes, OthersRest
<1>5. /\ mem[s] \in Counts /\ mem' \in [TaskServers -> Counts \cup {Absent}]
      /\ \A u \in TaskIDs : mem'[s][u] = mem[s][u] + (IF u = t THEN 1 ELSE 0)
      /\ \A r \in TaskServers \ {s} : mem'[r] = mem[r]
  BY <1>1 DEF TasksSafe, TaskTypes, Counts
<1>6. TaskTypes'
  BY <1>1, <1>3, <1>5 DEF TasksSafe, TaskTypes
<1>7. /\ Bound(t)' >= Bound(t) + 1
      /\ \A u \in TaskIDs : Bound(u)' >= Bound(u) /\ Bound(u) \in Nat /\ Bound(u)' \in Nat
  <2>1. Before(s, t) /\ \A u \in TaskIDs : Before(s, u)' => Before(s, u)
    BY <1>1, <1>3, <1>4 DEF Before
  <2> QED
    BY <1>1, <1>3, <1>4, <1>6, <2>1, ApplyStep
<1>8. CheckSound(s)'
  BY <1>1, <1>3, <1>4 DEF TasksSafe, CheckSound
<1>9. \A r \in TaskServers \ {s} : CheckSound(r)'
  BY <1>1, <1>4, OthersSound
<1>10. /\ mem'[s] # Absent /\ mem'[s] \in Counts
       /\ \A u \in TaskIDs : mem[s][u] \in Nat
  BY <1>1, <1>5, AbsentIsNoCopy DEF Counts
<1>11. CopiesSafe'
  <2>1. Within(chr)'
    BY BoundsKnown, <1>1, <1>7 DEF Within, TasksSafe, TaskTypes, Counts
  <2>2. \A r \in TaskServers : login'[r] # Absent => Within(login[r])'
    BY BoundsKnown, <1>1, <1>7 DEF Within, TasksSafe, TaskTypes, Counts
  <2>3. Within(mem[s])'
    <3>1. \A u \in TaskIDs : mem[s][u] <= Bound(u)
      BY BoundsKnown, <1>1
    <3> QED
      BY <1>5, <1>7, <1>10, <3>1 DEF Within
  <2>4. ASSUME NEW r \in TaskServers \ {s}, mem'[r] # Absent PROVE Within(mem[r])'
    <3>1. mem[r] \in Counts /\ \A u \in TaskIDs : mem[r][u] <= Bound(u)
      BY BoundsKnown, <1>5, <2>4 DEF TasksSafe, TaskTypes
    <3> QED
      BY <1>5, <1>7, <3>1 DEF Within, Counts
  <2>5. ASSUME NEW r \in TaskServers, checking'[r].step = "read" PROVE Within(checking[r].tmp)'
    <3>1. checking'[r] = checking[r]
      BY <1>3, <1>4, <2>5 DEF OthersRest
    <3> QED
      BY BoundsKnown, <1>7, <2>5, <3>1 DEF Within, Counts
  <2>6. ASSUME NEW r \in TaskServers, NEW n \in 1 .. Len(saves'[r]) PROVE Within(saves[r][n].chr)'
    <3>1. saves'[r] = saves[r] /\ saves[r] \in Seq(SavedCopies) /\ saves[r][n] \in SavedCopies
      BY <1>1, <2>6 DEF TasksSafe, TaskTypes
    <3>2. saves[r][n].chr \in Counts /\ \A u \in TaskIDs : saves[r][n].chr[u] <= Bound(u)
      BY BoundsKnown, <1>1, <3>1 DEF SavedCopies
    <3> QED
      BY <1>7, <3>1, <3>2 DEF Within, Counts
  <2> QED
    BY <2>1, <2>2, <2>3, <2>4, <2>5, <2>6 DEF CopiesSafe
<1>12. \A r \in TaskServers : PlaceAt(r)'
  BY <1>1, <1>5, <1>10 DEF TasksSafe, PlaceAt
<1> QED
  BY <1>6, <1>7, <1>8, <1>9, <1>11, <1>12 DEF TasksSafe, BoundsRight

\* Nobody has it: it is read, or left for a server that has.
LEMMA SelectStep == ASSUME TasksSafe, NEW s \in TaskServers, NEW t \in TaskIDs, SelectSaved(s, t) PROVE TasksSafe'
<1>1. /\ checking[s].step = "rows" /\ locked \in {NoServer, s} /\ t \in checking[s].todo
      /\ UNCHANGED <<task, issued, downs, troubles>> /\ UNCHANGED Characters
  BY DEF SelectSaved, At, NoTrouble
<1>2. CASE NextRow(s, checking[s].todo \ {t})
  BY <1>1, <1>2, LeaveRow
<1>3. CASE UNCHANGED locked /\ Goes(s, [step |-> "read", todo |-> checking[s].todo \ {t}, row |-> {t}, tmp |-> chr])
  <2>1. PICK record : record = [step |-> "read", todo |-> checking[s].todo \ {t}, row |-> {t}, tmp |-> chr]
    OBVIOUS
  <2>2. /\ checking' = [checking EXCEPT ![s] = record] /\ record \in Checks /\ record.tmp = chr
        /\ record.todo = checking[s].todo \ {t} /\ record.row = {t} /\ record.step = "read"
    <3>1. checking[s].todo \subseteq TaskIDs /\ chr \in Counts
      BY CheckShape DEF TasksSafe, TaskTypes
    <3> QED
      BY <1>3, <2>1, <3>1 DEF Goes, Checks
  <2>3. checking'[s] = record /\ OthersRest(s) /\ s # NoServer
    BY <1>3, <2>2, TasksAssumption DEF TasksSafe, TaskTypes, OthersRest
  <2>4. TaskTypes'
    BY <1>1, <1>3, <2>2 DEF TasksSafe, TaskTypes, Characters
  <2>5. CheckSound(s)'
    BY <1>1, <1>3, <2>2, <2>3 DEF TasksSafe, TaskTypes, CheckSound, Characters
  <2>6. \A r \in TaskServers \ {s} : CheckSound(r)'
    BY <1>1, <2>3, OthersSound
  <2>7. ASSUME NEW u \in TaskIDs PROVE Score(s, u)' >= Score(s, u)
    <3>1. ~Setting(u) /\ ~Setting(u)'
      BY <1>1, <1>3, <2>2, <2>3, ScoreIs DEF Setting
    <3>2. Before(s, u)' => Before(s, u)
      BY <1>1, <2>2, <2>3 DEF Before
    <3>3. s \in Late(u)' => s \in Late(u)
      BY <1>3, <3>2 DEF Late
    <3>4. Applied(u)' = Applied(u)
      BY <1>1, <3>1 DEF Applied
    <3> QED
      BY <1>1, <2>4, <3>3, <3>4, Numbers DEF Score
  <2> QED
    BY <1>1, <2>2, <2>3, <2>4, <2>5, <2>6, <2>7, TaskWorkStep
<1> QED
  BY <1>2, <1>3 DEF SelectSaved

\* It is written back with the change, or the statement fails.
LEMMA UpdateStep == ASSUME TasksSafe, NEW s \in TaskServers, UpdateSaved(s) PROVE TasksSafe'
<1>1. /\ checking[s].step = "read" /\ locked \in {NoServer, s}
      /\ UNCHANGED <<task, current_area, login, mem, saves, issued, downs>>
  BY DEF UpdateSaved, At
<1>2. CASE troubles' = troubles + 1 /\ UNCHANGED chr /\ NextRow(s, checking[s].todo)
  BY <1>1, <1>2, LeaveRow DEF Characters
<1>3. CASE /\ UNCHANGED <<troubles, locked>>
           /\ \E t \in checking[s].row : chr' = [checking[s].tmp EXCEPT ![t] = @ + 1]
           /\ Goes(s, [checking[s] EXCEPT !.step = "set", !.tmp = Absent])
  <2>1. PICK t \in checking[s].row : chr' = [checking[s].tmp EXCEPT ![t] = @ + 1]
    BY <1>3
  <2>2. PICK record : record = [checking[s] EXCEPT !.step = "set", !.tmp = Absent]
    OBVIOUS
  <2>3. /\ checking' = [checking EXCEPT ![s] = record] /\ record \in Checks
        /\ record.todo = checking[s].todo /\ record.row = checking[s].row /\ record.step = "set" /\ t \in TaskIDs
    <3>1. checking[s] \in Checks /\ checking[s].row \subseteq TaskIDs
      BY CheckShape DEF TasksSafe
    <3> QED
      BY <1>3, <2>2, <3>1 DEF Goes, Checks
  <2>4. checking'[s] = record /\ OthersRest(s) /\ s # NoServer
    BY <1>1, <1>3, <2>3, TasksAssumption DEF TasksSafe, TaskTypes, OthersRest
  <2>5. PICK tmp \in Counts : tmp = checking[s].tmp /\ \A u \in TaskIDs : tmp[u] <= Bound(u)
    BY <1>1, BoundsKnown
  <2>6. chr' \in Counts /\ \A u \in TaskIDs : chr'[u] = tmp[u] + (IF u = t THEN 1 ELSE 0) /\ tmp[u] \in Nat
    BY <2>1, <2>3, <2>5 DEF Counts
  <2>7. TaskTypes'
    BY <1>1, <1>3, <2>3, <2>6 DEF TasksSafe, TaskTypes
  <2>8. /\ Bound(t)' >= Bound(t) + 1
        /\ \A u \in TaskIDs : Bound(u)' >= Bound(u) /\ Bound(u) \in Nat /\ Bound(u)' \in Nat
    <3>1. Before(s, t) /\ \A u \in TaskIDs : Before(s, u)' => Before(s, u)
      BY <1>1, <2>1, <2>3, <2>4 DEF Before
    <3>2. t \notin checking'[s].todo
      BY <2>1, <2>3, <2>4 DEF TasksSafe, CheckSound
    <3> QED
      BY <1>1, <1>3, <2>1, <2>3, <2>4, <2>7, <3>1, <3>2, ApplyStep
  <2>9. CheckSound(s)'
    BY <1>1, <1>3, <2>3, <2>4 DEF TasksSafe, CheckSound
  <2>10. \A r \in TaskServers \ {s} : CheckSound(r)'
    BY <1>1, <2>4, OthersSound
  <2>11. CopiesSafe'
    <3>1. Within(chr)'
      BY <2>5, <2>6, <2>8 DEF Within
    <3>2. ASSUME NEW r \in TaskServers, login'[r] # Absent PROVE Within(login[r])'
      BY BoundsKnown, <1>1, <2>8, <3>2 DEF Within, TasksSafe, TaskTypes, Counts
    <3>3. ASSUME NEW r \in TaskServers, mem'[r] # Absent PROVE Within(mem[r])'
      BY BoundsKnown, <1>1, <2>8, <3>3 DEF Within, TasksSafe, TaskTypes, Counts
    <3>4. ASSUME NEW r \in TaskServers, checking'[r].step = "read" PROVE Within(checking[r].tmp)'
      <4>1. checking'[r] = checking[r]
        BY <2>3, <2>4, <3>4 DEF OthersRest
      <4> QED
        BY BoundsKnown, <2>8, <3>4, <4>1 DEF Within, Counts
    <3>5. ASSUME NEW r \in TaskServers, NEW n \in 1 .. Len(saves'[r]) PROVE Within(saves[r][n].chr)'
      <4>1. saves'[r] = saves[r] /\ saves[r] \in Seq(SavedCopies) /\ saves[r][n] \in SavedCopies
        BY <1>1, <3>5 DEF TasksSafe, TaskTypes
      <4>2. saves[r][n].chr \in Counts /\ \A u \in TaskIDs : saves[r][n].chr[u] <= Bound(u)
        BY BoundsKnown, <1>1, <4>1 DEF SavedCopies
      <4> QED
        BY <2>8, <4>1, <4>2 DEF Within, Counts
    <3> QED
      BY <3>1, <3>2, <3>3, <3>4, <3>5 DEF CopiesSafe
  <2>12. \A r \in TaskServers : PlaceAt(r)'
    BY <1>1 DEF TasksSafe, PlaceAt
  <2> QED
    BY <2>7, <2>8, <2>9, <2>10, <2>11, <2>12 DEF TasksSafe, BoundsRight
<1> QED
  BY <1>2, <1>3 DEF UpdateSaved, Trouble, NoTrouble

\* What was applied is deleted, or that fails.
LEMMA TaskDeletedStep == ASSUME TasksSafe, NEW s \in TaskServers, DeleteTask(s) PROVE TasksSafe'
<1>1. /\ checking[s].step = "set" /\ locked \in {NoServer, s} /\ NextRow(s, checking[s].todo)
      /\ UNCHANGED Characters /\ UNCHANGED <<issued, downs>>
      /\ \/ troubles' = troubles /\ task' = task \ checking[s].row
         \/ troubles' = troubles + 1 /\ task' = task
  BY DEF DeleteTask, At, Trouble, NoTrouble
<1> QED
  BY <1>1, LeaveRow

\* The lock is lost: what is pending is late, what was applied and not deleted yet
\* can be selected by others.
LEMMA LoseLockStep == ASSUME TasksSafe, NEW s \in TaskServers, LoseLock(s) PROVE TasksSafe'
<1>1. /\ locked = s /\ locked' = NoServer /\ troubles' = troubles + 1
      /\ UNCHANGED <<task, checking, issued, downs>> /\ UNCHANGED Characters
  BY DEF LoseLock, Trouble
<1>2. TaskTypes' /\ OthersRest(s) /\ s # NoServer
  BY <1>1, TasksAssumption DEF TasksSafe, TaskTypes, Characters, OthersRest
<1>3. CheckSound(s)'
  BY <1>1, <1>2 DEF TasksSafe, CheckSound
<1>4. \A r \in TaskServers \ {s} : CheckSound(r)'
  BY <1>1, <1>2, OthersSound
<1>5. ASSUME NEW t \in TaskIDs PROVE Score(s, t)' >= Score(s, t)
  <2>1. ~Setting(t)' /\ s \notin Late(t)
    BY <1>1, TasksAssumption DEF Setting, Late
  <2>2. CASE Setting(t)
    <3>1. checking[s].step = "set" /\ t \in checking[s].row /\ t \notin checking[s].todo
      BY <1>1, <2>2, ScoreIs DEF TasksSafe, CheckSound
    <3>2. s \notin Late(t)'
      BY <1>1, <3>1 DEF Late, Before
    <3> QED
      BY <1>1, <1>2, <2>1, <3>2, Numbers DEF Score
  <2>3. CASE ~Setting(t)
    <3>1. Applied(t)' = Applied(t)
      BY <1>1, <2>1, <2>3 DEF Applied
    <3> QED
      BY <1>1, <1>2, <2>1, <3>1, Numbers DEF Score
  <2> QED
    BY <2>2, <2>3
<1> QED
  BY <1>1, <1>2, <1>3, <1>4, <1>5, TaskWorkStep

\* A server goes down: its copies are gone, and the lock if it had it.
LEMMA TaskRestartStep == ASSUME TasksSafe, NEW s \in TaskServers, TaskRestart(s) PROVE TasksSafe'
<1>1. /\ downs' = downs + 1
      /\ login' = [login EXCEPT ![s] = Absent] /\ mem' = [mem EXCEPT ![s] = Absent]
      /\ saves' = [saves EXCEPT ![s] = << >>] /\ checking' = [checking EXCEPT ![s] = Idle]
      /\ locked' = IF locked = s THEN NoServer ELSE locked
      /\ current_area' = IF current_area = s THEN NoServer ELSE current_area
      /\ UNCHANGED <<task, chr, issued, troubles>>
  BY DEF TaskRestart
<1>2. TaskTypes' /\ OthersRest(s) /\ checking'[s] = Idle /\ s # NoServer /\ locked' # s
  BY <1>1, IdleShape, TasksAssumption DEF TasksSafe, TaskTypes, OthersRest
<1>3. CheckSound(s)'
  BY <1>1, <1>2, IdleShape DEF TasksSafe, CheckSound
<1>4. \A r \in TaskServers \ {s} : CheckSound(r)'
  BY <1>1, <1>2, OthersSound
<1>5. ASSUME NEW t \in TaskIDs PROVE Score(s, t)' >= Score(s, t)
  <2>1. s \notin Late(t)'
    BY <1>2, IdleShape DEF Late, Before
  <2>2. CASE locked = s
    <3>1. s \notin Late(t)
      BY <2>2 DEF Late
    <3> QED
      BY <1>1, <1>2, <2>1, <3>1, Numbers DEF Score
  <2>3. CASE locked # s
    <3>1. Setting(t)' <=> Setting(t)
      BY <1>1, <1>2, <2>3 DEF Setting, OthersRest
    <3>2. Applied(t)' = Applied(t)
      BY <1>1, <3>1 DEF Applied
    <3> QED
      BY <1>1, <1>2, <2>1, <3>2, Numbers DEF Score
  <2> QED
    BY <2>2, <2>3
<1>6. \A t \in TaskIDs : Bound(t)' >= Bound(t) /\ Bound(t) \in Nat /\ Bound(t)' \in Nat
  BY <1>2, <1>5, BoundMoves
<1>7. CopiesSafe'
  <2>1. ASSUME NEW r \in TaskServers
        PROVE  /\ login'[r] = Absent \/ login'[r] = login[r]
               /\ mem'[r] = Absent \/ mem'[r] = mem[r]
               /\ Len(saves'[r]) = 0 \/ saves'[r] = saves[r]
               /\ checking'[r].step = "read" => checking'[r] = checking[r]
    BY <1>1, <1>2, IdleShape DEF TasksSafe, TaskTypes, OthersRest
  <2>2. \A t \in TaskIDs : chr'[t] <= Bound(t)
    BY BoundsKnown, <1>1
  <2>3. ASSUME NEW r \in TaskServers, login'[r] # Absent PROVE \A t \in TaskIDs : login'[r][t] <= Bound(t)
    BY BoundsKnown, <2>1, <2>3
  <2>4. ASSUME NEW r \in TaskServers, mem'[r] # Absent PROVE \A t \in TaskIDs : mem'[r][t] <= Bound(t)
    BY BoundsKnown, <2>1, <2>4
  <2>5. \A r \in TaskServers : \A n \in 1 .. Len(saves'[r]) : \A t \in TaskIDs : saves'[r][n].chr[t] <= Bound(t)
    BY BoundsKnown, <2>1
  <2>6. \A r \in TaskServers : checking'[r].step = "read" =>
            checking'[r].tmp \in Counts /\ \A t \in TaskIDs : checking'[r].tmp[t] <= Bound(t)
    BY BoundsKnown, <2>1
  <2> QED
    BY <1>2, <1>6, <2>2, <2>3, <2>4, <2>5, <2>6, NothingApplied
<1>8. \A r \in TaskServers : PlaceAt(r)'
  BY BoundsKnown, <1>1 DEF TasksSafe, TaskTypes, PlaceAt
<1> QED
  BY <1>2, <1>3, <1>4, <1>6, <1>7, <1>8 DEF TasksSafe, BoundsRight

LEMMA TaskStep == TasksSafe /\ [TasksNext]_taskVars => TasksSafe'
<1> SUFFICES ASSUME TasksSafe, [TasksNext]_taskVars PROVE TasksSafe'
  OBVIOUS
<1>1. CASE UNCHANGED taskVars
  <2>1. UNCHANGED <<task, current_area, chr, login, mem, saves, checking, locked, issued, downs, troubles>>
    BY <1>1 DEF taskVars
  <2>2. \A t \in TaskIDs : Bound(t)' = Bound(t)
    BY <2>1 DEF Bound, Late, Before, Applied, Setting
  <2>3. TaskTypes' /\ \A s \in TaskServers : CheckSound(s)' /\ PlaceAt(s)'
    BY <2>1 DEF TasksSafe, TaskTypes, CheckSound, PlaceAt
  <2>4. CopiesSafe' /\ BoundsRight'
    BY <2>1, <2>2 DEF TasksSafe, CopiesSafe, Within, BoundsRight
  <2> QED
    BY <2>3, <2>4 DEF TasksSafe
<1>2. CASE TasksNext
  BY <1>2, AddStep, LoadStep, EnterStep, SaveStep, DoSaveStep, LockStep, SetOnlineStep, SelectStep, UpdateStep,
     TaskDeletedStep, LoseLockStep, TaskRestartStep DEF TasksNext, check_task, process_task
<1> QED
  BY <1>1, <1>2

(* A task is applied at most once more for every restart, statement that fails and  *)
(* lock that is lost (check_task, set_task of task.c, mysql_query_con), for any      *)
(* number of servers and tasks.                                                      *)
THEOREM TasksOncePerTrouble == TasksSpec => []OncePerTrouble
<1>1. TasksInit => TasksSafe
  <2> SUFFICES ASSUME TasksInit PROVE TasksSafe
    OBVIOUS
  <2>1. /\ task = {} /\ issued = {} /\ current_area = NoServer /\ locked = NoServer /\ downs = 0 /\ troubles = 0
        /\ chr = [t \in TaskIDs |-> 0] /\ login = [s \in TaskServers |-> Absent]
        /\ mem = [s \in TaskServers |-> Absent] /\ saves = [s \in TaskServers |-> << >>]
        /\ checking = [s \in TaskServers |-> Idle]
    BY DEF TasksInit
  <2>2. TaskTypes
    BY <2>1, IdleShape DEF TaskTypes, Counts
  <2>3. ASSUME NEW t \in TaskIDs PROVE Bound(t) = 0
    <3>1. Late(t) = {} /\ Applied(t) = 0
      BY <2>1, IdleShape DEF Late, Before, Applied
    <3> QED
      BY <2>1, <3>1, FS_EmptySet DEF Bound
  <2>4. \A s \in TaskServers : CheckSound(s) /\ PlaceAt(s)
    BY <2>1, IdleShape, TasksAssumption DEF CheckSound, PlaceAt
  <2>5. CopiesSafe /\ BoundsRight
    BY <2>1, <2>3, IdleShape DEF CopiesSafe, BoundsRight, Within
  <2> QED
    BY <2>2, <2>4, <2>5 DEF TasksSafe
<1>2. TasksSafe => OncePerTrouble
  <2> SUFFICES ASSUME TasksSafe, NEW t \in TaskIDs PROVE Newest[t] <= 1 + downs + troubles
    BY DEF OncePerTrouble
  <2>1. Bound(t) \in Nat /\ Bound(t) <= 1 + downs + troubles /\ downs \in Nat /\ troubles \in Nat
    <3>1. Applied(t) \in {0, 1} /\ downs \in Nat /\ troubles \in Nat /\ Bound(t) \in Nat
      BY DEF TasksSafe, TaskTypes, BoundsRight, Applied
    <3>2. IsFiniteSet(Late(t))
      BY TasksAssumption, FS_Subset DEF Late
    <3>3. Cardinality(Late(t)) \in Nat
      BY <3>2, FS_CardinalityType
    <3> QED
      BY <3>1, <3>3 DEF Bound
  <2>2. Newest \in Counts /\ Newest[t] <= Bound(t)
    <3>1. CASE current_area = NoServer
      BY <3>1 DEF Newest, TasksSafe, TaskTypes, CopiesSafe, Within
    <3>2. CASE current_area # NoServer
      <4> DEFINE s == current_area
      <4>1. s \in TaskServers /\ mem[s] \in Counts \cup {Absent} /\ login[s] \in Counts \cup {Absent}
        BY <3>2 DEF TasksSafe, TaskTypes
      <4>2. CASE mem[s] # Absent
        BY <3>2, <4>1, <4>2 DEF Newest, Online, TasksSafe, CopiesSafe, Within
      <4>3. CASE mem[s] = Absent /\ login[s] # Absent
        BY <3>2, <4>1, <4>3 DEF Newest, Online, TasksSafe, CopiesSafe, Within
      <4>4. CASE mem[s] = Absent /\ login[s] = Absent
        <5>1. saves[s] \in Seq(SavedCopies) /\ saves[s] # << >>
          BY <4>1, <4>4 DEF TasksSafe, TaskTypes, PlaceAt
        <5>2. Len(saves[s]) \in 1 .. Len(saves[s]) /\ saves[s][Len(saves[s])] \in SavedCopies
          BY <5>1
        <5>3. Newest = saves[s][Len(saves[s])].chr
          BY <3>2, <4>4 DEF Newest, Online
        <5> QED
          BY <4>1, <5>2, <5>3 DEF TasksSafe, CopiesSafe, Within, SavedCopies
      <4> QED
        BY <4>2, <4>3, <4>4
    <3> QED
      BY <3>1, <3>2
  <2>3. Newest[t] \in Nat
    BY <2>2 DEF Counts
  <2> QED
    BY <2>1, <2>2, <2>3
<1> QED
  BY <1>1, <1>2, TaskStep, PTL DEF TasksSpec

-----------------------------------------------------------------------------
(* Account requests: the rows an account owns.                              *)

AccountRows == [id : Nat, name : Heroes \cup {NoName}, owner : Users, bound : BOOLEAN]
Asked == Wishes \cup {Blank}
Ops == {"none", "REGISTER", "LIST", "CREATE", "DELETE"}
Steps == {"idle", "start", "looked", "selected", "known", "counted", "found", "archived"}
Clients == [at : LoginServers \cup {NoName}, wish : Asked]
RequestPlace == [status : {"EMPTY", "FILLING", "READ", "DONE"}, nr : Doors \cup {0}, wish : Asked, fresh : BOOLEAN]
Works == [op : Ops, step : Steps, user : Users \cup {NoName}, id : Nat]

RequestTypes ==
    /\ client \in [Doors -> Clients] /\ aq \in [LoginServers -> RequestPlace]
    /\ work \in [LoginServers -> Works] /\ faults \in Nat

\* What the thread of a server has read is some account's; what it archived is there.
WorkSound(s) ==
    /\ work[s].step \in {"looked", "selected", "known", "counted", "found", "archived"} => work[s].user \in Users
    /\ work[s].step = "found" => work[s].id \in 1 .. rows
    /\ work[s].step = "archived" => work[s].id \in archive

\* Neither a name nor an ID is given twice.
NoRowTwice == \A c1, c2 \in chars : c1.name = c2.name \/ c1.id = c2.id => c1 = c2
\* Every ID given out is a row's or in the archive.
RowsSafe ==
    /\ rows \in Nat /\ chars \subseteq AccountRows /\ subscriber \in [Users -> Nat]
    /\ 1 .. rows = {c.id : c \in chars} \cup archive
    /\ NoRowTwice
\* A row with a copy in the archive is left by a fault, or going to be deleted.
CopiesExplained == \A c \in chars : c.id \in archive =>
    faults > 0 \/ \E s \in LoginServers : work[s].step = "archived" /\ work[s].id = c.id

\* Who has looked, and has still to insert: the limits count them.
Creating(u) == {s \in LoginServers : Doing(s, "CREATE", "counted") /\ work[s].user = u}
Registering(u) == {s \in LoginServers : Doing(s, "REGISTER", "looked") /\ work[s].user = u}
WithinLimit(u) ==
    /\ IsFiniteSet(Owned(u))
    /\ Cardinality(Owned(u)) + Cardinality(Creating(u)) < ACC_MAXCHARS + Cardinality(LoginServers)
    /\ subscriber[u] + Cardinality(Registering(u)) <= Cardinality(LoginServers) + faults

AccountsSafe ==
    /\ RequestTypes /\ RowsSafe /\ CopiesExplained
    /\ \A s \in LoginServers : WorkSound(s)
    /\ \A u \in Users : WithinLimit(u)

\* What a wish is made of.
LEMMA WishShape == ASSUME NEW w \in Asked PROVE w.op \in Ops /\ w.user \in Users \cup {NoName} /\ w.name \in Heroes \cup {NoName}
  BY DEF Asked, Wishes, Blank, Ops

\* The place of a server is in shape.
LEMMA PlaceShape ==
    ASSUME RequestTypes, NEW s \in LoginServers
    PROVE  /\ aq[s] \in RequestPlace /\ work[s] \in Works
           /\ Wish(s).op \in Ops /\ Wish(s).user \in Users \cup {NoName} /\ Wish(s).name \in Heroes \cup {NoName}
<1>1. aq[s] \in RequestPlace /\ work[s] \in Works
  BY DEF RequestTypes
<1>2. Wish(s) \in Asked
  BY <1>1 DEF Wish, RequestPlace
<1> QED
  BY <1>1, <1>2, WishShape

LEMMA NoWorkShape == NoWork \in Works /\ NoWork.step = "idle" /\ NoWork.op = "none"
  BY DEF NoWork, Works, Ops, Steps

\* An answer leaves the place in shape and the thread without work.
LEMMA ReplyTypes ==
    ASSUME RequestTypes, NEW s \in LoginServers, Reply(s)
    PROVE  /\ aq' \in [LoginServers -> RequestPlace] /\ work' \in [LoginServers -> Works]
           /\ work'[s] = NoWork /\ \A r \in LoginServers \ {s} : work'[r] = work[r]
<1>1. /\ aq' = [aq EXCEPT ![s].status = "DONE", ![s].fresh = TRUE] /\ work' = [work EXCEPT ![s] = NoWork]
  BY DEF Reply
<1>2. aq[s] \in RequestPlace
  BY PlaceShape
<1>3. [aq[s] EXCEPT !.status = "DONE", !.fresh = TRUE] \in RequestPlace
  BY <1>2 DEF RequestPlace
<1>4. aq' = [aq EXCEPT ![s] = [aq[s] EXCEPT !.status = "DONE", !.fresh = TRUE]]
  BY <1>1 DEF RequestTypes
<1>5. aq' \in [LoginServers -> RequestPlace]
  BY <1>3, <1>4 DEF RequestTypes
<1> QED
  BY <1>1, <1>5, NoWorkShape DEF RequestTypes

\* So does a thread that goes on.
LEMMA GoOnTypes ==
    ASSUME RequestTypes, NEW s \in LoginServers, NEW record \in Works, GoOn(s, record)
    PROVE  /\ aq' \in [LoginServers -> RequestPlace] /\ work' \in [LoginServers -> Works]
           /\ work'[s] = record /\ \A r \in LoginServers \ {s} : work'[r] = work[r]
  BY DEF GoOn, RequestTypes

LEMMA FaultTypes == RequestTypes /\ (Fault \/ UNCHANGED faults) => faults' \in Nat /\ faults' >= faults
  BY DEF Fault, RequestTypes
LEMMA FaultCounts == RequestTypes /\ Fault => faults' = faults + 1 /\ faults' > 0 /\ faults \in Nat
  BY DEF Fault, RequestTypes

\* The servers that have looked are finitely many, and fewer are counted.
LEMMA Lookers ==
    ASSUME NEW A, A \subseteq LoginServers
    PROVE  /\ IsFiniteSet(A) /\ Cardinality(A) \in Nat /\ Cardinality(A) <= Cardinality(LoginServers)
           /\ Cardinality(LoginServers) \in Nat
  BY FS_Subset, FS_CardinalityType, AccountsAssumption
LEMMA FewerLookers ==
    ASSUME NEW A, NEW B, A \subseteq LoginServers, B \subseteq A
    PROVE  Cardinality(B) \in Nat /\ Cardinality(A) \in Nat /\ Cardinality(B) <= Cardinality(A)
  BY Lookers, FS_Subset, FS_CardinalityType
LEMMA OneLess ==
    ASSUME NEW A, A \subseteq LoginServers, NEW s \in A
    PROVE  Cardinality(A \ {s}) = Cardinality(A) - 1 /\ Cardinality(A \ {s}) \in Nat /\ Cardinality(A) \in Nat
  BY Lookers, FS_RemoveElement, FS_CardinalityType
LEMMA OneMore ==
    ASSUME NEW A, A \subseteq LoginServers, NEW s \in LoginServers, s \notin A
    PROVE  /\ Cardinality(A \cup {s}) = Cardinality(A) + 1 /\ Cardinality(A) \in Nat
           /\ Cardinality(A) + 1 <= Cardinality(LoginServers) /\ Cardinality(LoginServers) \in Nat
<1>1. A \cup {s} \subseteq LoginServers
  OBVIOUS
<1>2. Cardinality(A \cup {s}) = Cardinality(A) + 1
  BY Lookers, FS_AddElement
<1> QED
  BY <1>1, <1>2, Lookers

\* A step that leaves the database alone, after which no thread has looked that had
\* not before, and none gives up a deletion half-way but for a fault.
LEMMA QuietStep ==
    ASSUME AccountsSafe, RequestTypes', UNCHANGED Database, faults' >= faults,
           \A r \in LoginServers : work'[r] = work[r] \/
             /\ work'[r].step \notin {"looked", "counted", "archived"}
             /\ work[r].step = "archived" => faults' > 0
             /\ WorkSound(r)'
    PROVE  AccountsSafe'
<1>1. UNCHANGED <<subscriber, chars, archive, rows>> /\ faults \in Nat /\ faults' \in Nat
  BY DEF Database, AccountsSafe, RequestTypes
<1>2. RowsSafe'
  BY <1>1 DEF AccountsSafe, RowsSafe, NoRowTwice
<1>3. \A r \in LoginServers : WorkSound(r)'
  BY <1>1 DEF AccountsSafe, WorkSound
<1>4. CopiesExplained'
  <2> SUFFICES ASSUME NEW c \in chars, c.id \in archive, ~(faults' > 0)
               PROVE  \E s \in LoginServers : work'[s].step = "archived" /\ work'[s].id = c.id
    BY <1>1 DEF CopiesExplained
  <2>1. faults = 0
    BY <1>1
  <2>2. PICK s \in LoginServers : work[s].step = "archived" /\ work[s].id = c.id
    BY <2>1 DEF AccountsSafe, CopiesExplained
  <2>3. work'[s] = work[s]
    BY <2>2
  <2> QED
    BY <2>2, <2>3
<1>5. ASSUME NEW u \in Users PROVE WithinLimit(u)'
  <2>1. Creating(u)' \subseteq Creating(u) /\ Registering(u)' \subseteq Registering(u)
    BY DEF Creating, Registering, Doing
  <2>2. Creating(u) \subseteq LoginServers /\ Registering(u) \subseteq LoginServers
    BY DEF Creating, Registering
  <2>3. Owned(u)' = Owned(u)
    BY <1>1 DEF Owned
  <2>4. WithinLimit(u) /\ subscriber[u] \in Nat /\ subscriber'[u] = subscriber[u]
    BY <1>1 DEF AccountsSafe, RowsSafe
  <2>5. /\ Cardinality(Creating(u)') <= Cardinality(Creating(u)) /\ Cardinality(Creating(u)') \in Nat
        /\ Cardinality(Creating(u)) \in Nat
    BY <2>1, <2>2, FewerLookers
  <2>6. /\ Cardinality(Registering(u)') <= Cardinality(Registering(u)) /\ Cardinality(Registering(u)') \in Nat
        /\ Cardinality(Registering(u)) \in Nat
    BY <2>1, <2>2, FewerLookers
  <2>7. Cardinality(LoginServers) \in Nat /\ ACC_MAXCHARS \in Nat
    BY AccountsAssumption, FS_CardinalityType
  <2>8. IsFiniteSet(Owned(u)) /\ Cardinality(Owned(u)) \in Nat
    BY <2>4, FS_CardinalityType DEF WithinLimit
  <2>9. Cardinality(Owned(u)') + Cardinality(Creating(u)') < ACC_MAXCHARS + Cardinality(LoginServers)
    BY <2>3, <2>4, <2>5, <2>7, <2>8 DEF WithinLimit
  <2>10. subscriber'[u] + Cardinality(Registering(u)') <= Cardinality(LoginServers) + faults'
    BY <1>1, <2>4, <2>6, <2>7 DEF WithinLimit
  <2> QED
    BY <2>3, <2>8, <2>9, <2>10 DEF WithinLimit
<1> QED
  BY <1>2, <1>3, <1>4, <1>5 DEF AccountsSafe

\* The main loop: the threads go on as they are.
LEMMA LoopStep ==
    ASSUME AccountsSafe, NEW d \in Doors, NEW s \in LoginServers,
           \/ Ages(s) \/ Disconnect(d) \/ account_op(d, s) \/ FillIn(d, s)
           \/ \E w \in Wishes : Connect(d, s, w)
    PROVE  AccountsSafe'
<1> USE DEF AccountsSafe
<1>1. /\ aq[s] \in RequestPlace /\ client \in [Doors -> Clients] /\ client[d] \in Clients
      /\ faults \in Nat /\ NoClient \in Clients
  BY PlaceShape DEF RequestTypes, NoClient, Clients, Asked
<1>2. ASSUME NEW place \in RequestPlace PROVE [aq EXCEPT ![s] = place] \in [LoginServers -> RequestPlace]
  BY <1>2 DEF RequestTypes
<1>3. client' \in [Doors -> Clients] /\ aq' \in [LoginServers -> RequestPlace] /\ UNCHANGED <<work, Database, faults>>
  <2>1. CASE Ages(s)
    <3>1. aq' = [aq EXCEPT ![s] = [aq[s] EXCEPT !.fresh = FALSE]]
      BY <2>1 DEF Ages, RequestTypes
    <3>2. [aq[s] EXCEPT !.fresh = FALSE] \in RequestPlace
      BY <1>1 DEF RequestPlace
    <3> QED
      BY <1>1, <1>2, <2>1, <3>1, <3>2 DEF Ages
  <2>2. CASE Disconnect(d)
    BY <1>1, <2>2 DEF Disconnect, RequestTypes
  <2>3. CASE account_op(d, s)
    <3>1. [AqEmpty EXCEPT !.status = "FILLING", !.nr = d] \in RequestPlace
      BY DEF AqEmpty, RequestPlace, Asked
    <3>2. [aq[s] EXCEPT !.status = "EMPTY"] \in RequestPlace
      BY <1>1 DEF RequestPlace
    <3>3. CASE aq' = [aq EXCEPT ![s] = [AqEmpty EXCEPT !.status = "FILLING", !.nr = d]] /\ UNCHANGED client
      BY <1>1, <1>2, <2>3, <3>1, <3>3 DEF account_op
    <3>4. CASE aq' = [aq EXCEPT ![s].status = "EMPTY"] /\ client' = [client EXCEPT ![d] = NoClient]
      <4>1. aq' = [aq EXCEPT ![s] = [aq[s] EXCEPT !.status = "EMPTY"]]
        BY <3>4 DEF RequestTypes
      <4> QED
        BY <1>1, <1>2, <2>3, <3>2, <3>4, <4>1 DEF account_op
    <3> QED
      BY <2>3, <3>3, <3>4 DEF account_op
  <2>4. CASE FillIn(d, s)
    <3>1. aq' = [aq EXCEPT ![s] = [aq[s] EXCEPT !.status = "READ", !.wish = client[d].wish]]
      BY <2>4 DEF FillIn, RequestTypes
    <3>2. [aq[s] EXCEPT !.status = "READ", !.wish = client[d].wish] \in RequestPlace
      BY <1>1 DEF RequestPlace, Clients
    <3> QED
      BY <1>1, <1>2, <2>4, <3>1, <3>2 DEF FillIn
  <2>5. ASSUME NEW w \in Wishes, Connect(d, s, w)
        PROVE  client' \in [Doors -> Clients] /\ aq' = aq /\ UNCHANGED <<work, Database, faults>>
    <3>1. [at |-> s, wish |-> w] \in Clients
      BY DEF Clients, Asked
    <3> QED
      BY <1>1, <2>5, <3>1 DEF Connect
  <2> QED
    BY <2>1, <2>2, <2>3, <2>4, <2>5 DEF RequestTypes
<1>4. RequestTypes'
  BY <1>3 DEF RequestTypes
<1> QED
  BY <1>1, <1>3, <1>4, QuietStep

\* A request that is answered without a change of the database.
LEMMA Answered ==
    ASSUME AccountsSafe, NEW s \in LoginServers, Reply(s), UNCHANGED <<client, Database>>,
           Fault \/ UNCHANGED faults, work[s].step = "archived" => Fault
    PROVE  AccountsSafe'
<1> USE DEF AccountsSafe
<1>1. RequestTypes'
  BY ReplyTypes, FaultTypes DEF RequestTypes
<1>2. work'[s] = NoWork /\ \A r \in LoginServers \ {s} : work'[r] = work[r]
  BY ReplyTypes
<1>3. faults' >= faults /\ (work[s].step = "archived" => faults' > 0)
  BY FaultTypes, FaultCounts
<1>4. work'[s].step = "idle" /\ WorkSound(s)'
  BY <1>2, NoWorkShape DEF WorkSound
<1> QED
  BY <1>1, <1>2, <1>3, <1>4, QuietStep

\* A thread that goes on and has not looked for what it will insert or delete.
LEMMA GoneOn ==
    ASSUME AccountsSafe, NEW s \in LoginServers, NEW record \in Works, GoOn(s, record),
           UNCHANGED <<client, Database, faults>>, work[s].step # "archived",
           record.step \in {"start", "selected", "known", "found"},
           record.step \in {"selected", "known", "found"} => record.user \in Users,
           record.step = "found" => record.id \in 1 .. rows
    PROVE  AccountsSafe'
<1> USE DEF AccountsSafe
<1>1. /\ aq' \in [LoginServers -> RequestPlace] /\ work' \in [LoginServers -> Works]
      /\ work'[s] = record /\ \A r \in LoginServers \ {s} : work'[r] = work[r]
  BY GoOnTypes
<1>2. RequestTypes'
  BY <1>1 DEF RequestTypes
<1>3. UNCHANGED rows
  BY DEF Database
<1>4. WorkSound(s)' /\ work'[s].step \notin {"looked", "counted", "archived"}
  BY <1>1, <1>3 DEF WorkSound
<1>5. faults' >= faults
  BY DEF RequestTypes
<1> QED
  BY <1>1, <1>2, <1>4, <1>5, QuietStep

\* The steps of the thread that leave the database as it is.
LEMMA ThreadStep ==
    ASSUME AccountsSafe, NEW s \in LoginServers,
           db_account_op(s) \/ Failing(s) \/ db_acc_auth(s) \/ db_acc_list(s) \/ DeleteLooks(s)
    PROVE  AccountsSafe'
<1> USE DEF AccountsSafe
<1>1. work[s] \in Works /\ Wish(s).op \in Ops /\ Wish(s).user \in Users \cup {NoName} /\ WorkSound(s)
  BY PlaceShape
<1>2. CASE db_account_op(s)
  <2>1. work[s].step = "idle"
    BY <1>2, NoWorkShape DEF db_account_op
  <2>2. CASE Reply(s)
    BY <1>2, <2>1, <2>2, Answered DEF db_account_op
  <2>3. CASE GoOn(s, [NoWork EXCEPT !.op = Wish(s).op, !.step = "start"])
    <3>1. PICK record : record = [NoWork EXCEPT !.op = Wish(s).op, !.step = "start"]
      OBVIOUS
    <3>2. record \in Works /\ record.step = "start"
      BY <1>1, <3>1 DEF NoWork, Works, Steps
    <3> QED
      BY <1>2, <2>1, <2>3, <3>1, <3>2, GoneOn DEF db_account_op
  <2> QED
    BY <1>2, <2>2, <2>3 DEF db_account_op
<1>3. CASE Failing(s)
  BY <1>3, Answered DEF Failing, Others
<1>4. CASE db_acc_auth(s)
  <2>1. work[s].step \in {"start", "selected"} /\ UNCHANGED <<client, Database, faults>>
    BY <1>4 DEF db_acc_auth, Others
  <2>2. CASE Reply(s)
    BY <2>1, <2>2, Answered
  <2>3. CASE /\ Wish(s).user # NoName
             /\ GoOn(s, [work[s] EXCEPT !.user = Wish(s).user, !.step = IF @ = "start" THEN "selected" ELSE "known"])
    <3>1. PICK record : record = [work[s] EXCEPT !.user = Wish(s).user, !.step = IF @ = "start" THEN "selected" ELSE "known"]
      OBVIOUS
    <3>2. record \in Works /\ record.step \in {"selected", "known"} /\ record.user \in Users
      BY <1>1, <2>1, <2>3, <3>1 DEF Works, Steps
    <3> QED
      BY <2>1, <2>3, <3>1, <3>2, GoneOn
  <2> QED
    BY <1>4, <2>2, <2>3 DEF db_acc_auth
<1>5. CASE db_acc_list(s)
  BY <1>5, Answered DEF db_acc_list, Doing, Others
<1>6. CASE DeleteLooks(s)
  <2>1. work[s].step = "known" /\ UNCHANGED <<client, Database, faults>>
    BY <1>6 DEF DeleteLooks, Doing, Others
  <2>2. CASE Reply(s)
    BY <2>1, <2>2, Answered
  <2>3. ASSUME NEW c \in Named(Wish(s).name) \cap Owned(work[s].user),
               GoOn(s, [work[s] EXCEPT !.step = "found", !.id = c.id])
        PROVE  AccountsSafe'
    <3>1. PICK record : record = [work[s] EXCEPT !.step = "found", !.id = c.id]
      OBVIOUS
    <3>2. c \in chars /\ c.id \in Nat /\ c.id \in 1 .. rows
      BY <2>3 DEF Named, RowsSafe, AccountRows
    <3>3. record \in Works /\ record.step = "found" /\ record.user \in Users /\ record.id \in 1 .. rows
      BY <1>1, <2>1, <3>1, <3>2 DEF Works, Steps, WorkSound
    <3> QED
      BY <2>1, <2>3, <3>1, <3>3, GoneOn
  <2> QED
    BY <1>6, <2>2, <2>3 DEF DeleteLooks
<1> QED
  BY <1>2, <1>3, <1>4, <1>5, <1>6

\* A restart: the thread of the server is at nothing.
LEMMA RestartStep == ASSUME AccountsSafe, NEW s \in LoginServers, AccountRestart(s) PROVE AccountsSafe'
<1> USE DEF AccountsSafe
<1>1. /\ client' \in [Doors -> Clients] /\ aq' \in [LoginServers -> RequestPlace]
      /\ work' \in [LoginServers -> Works] /\ work'[s] = NoWork /\ \A r \in LoginServers \ {s} : work'[r] = work[r]
  <2>1. NoClient \in Clients /\ AqEmpty \in RequestPlace
    BY DEF NoClient, Clients, Asked, AqEmpty, RequestPlace
  <2> QED
    BY <2>1, NoWorkShape DEF AccountRestart, RequestTypes
<1>2. RequestTypes' /\ faults' >= faults /\ faults' > 0
  BY <1>1, FaultTypes, FaultCounts DEF RequestTypes, AccountRestart
<1>3. WorkSound(s)' /\ work'[s].step = "idle"
  BY <1>1, NoWorkShape DEF WorkSound
<1>4. UNCHANGED Database
  BY DEF AccountRestart
<1> QED
  BY <1>1, <1>2, <1>3, <1>4, QuietStep

\* What a step of one thread does to those that have looked: only s can come or go.
LEMMA OneThread ==
    ASSUME RequestTypes, NEW s \in LoginServers, \A r \in LoginServers \ {s} : work'[r] = work[r], NEW u \in Users
    PROVE  /\ Creating(u) \subseteq LoginServers /\ Registering(u) \subseteq LoginServers
           /\ Creating(u)' = IF Doing(s, "CREATE", "counted")' /\ work'[s].user = u
                             THEN Creating(u) \cup {s} ELSE Creating(u) \ {s}
           /\ Registering(u)' = IF Doing(s, "REGISTER", "looked")' /\ work'[s].user = u
                                THEN Registering(u) \cup {s} ELSE Registering(u) \ {s}
  BY DEF Creating, Registering, Doing

\* The sums of the limits are of numbers.
LEMMA LimitTypes ==
    ASSUME AccountsSafe, NEW u \in Users
    PROVE  /\ IsFiniteSet(Owned(u)) /\ Cardinality(Owned(u)) \in Nat
           /\ Cardinality(Creating(u)) \in Nat /\ Cardinality(Registering(u)) \in Nat
           /\ Cardinality(LoginServers) \in Nat /\ ACC_MAXCHARS \in Nat /\ subscriber[u] \in Nat /\ faults \in Nat
           /\ WithinLimit(u)
<1>1. Creating(u) \subseteq LoginServers /\ Registering(u) \subseteq LoginServers
  BY DEF Creating, Registering
<1>2. IsFiniteSet(Owned(u))
  BY DEF AccountsSafe, WithinLimit
<1> QED
  BY <1>1, <1>2, Lookers, FS_CardinalityType, AccountsAssumption DEF AccountsSafe, RequestTypes, RowsSafe

\* One thread goes on with a deletion that is not half-way: copies are explained as before.
LEMMA StillExplained ==
    ASSUME AccountsSafe, UNCHANGED <<chars, archive>>, faults' >= faults, faults' \in Nat, NEW s \in LoginServers,
           \A r \in LoginServers \ {s} : work'[r] = work[r], work[s].step # "archived"
    PROVE  CopiesExplained'
  BY DEF AccountsSafe, CopiesExplained, RequestTypes

\* A name that is free is looked for.
LEMMA LookStep == ASSUME AccountsSafe, NEW s \in LoginServers, RegisterLooks(s) PROVE AccountsSafe'
<1>1. work[s] \in Works /\ Wish(s).user \in Users \cup {NoName} /\ work[s].op = "REGISTER" /\ work[s].step = "start"
  BY PlaceShape DEF RegisterLooks, Doing, AccountsSafe
<1>2. CASE Reply(s)
  BY <1>1, <1>2, Answered DEF RegisterLooks, Others
<1>3. CASE /\ Wish(s).user # NoName /\ ~(subscriber[Wish(s).user] > 0)
           /\ GoOn(s, [work[s] EXCEPT !.step = "looked", !.user = Wish(s).user])
  <2>1. PICK record : record = [work[s] EXCEPT !.step = "looked", !.user = Wish(s).user]
    OBVIOUS
  <2>2. PICK u \in Users : u = Wish(s).user
    BY <1>1, <1>3
  <2>3. record \in Works /\ record.op = "REGISTER" /\ record.step = "looked" /\ record.user = u
    BY <1>1, <2>1, <2>2 DEF Works, Steps
  <2>4. /\ aq' \in [LoginServers -> RequestPlace] /\ work' \in [LoginServers -> Works]
        /\ work'[s] = record /\ \A r \in LoginServers \ {s} : work'[r] = work[r]
    BY <1>3, <2>1, <2>3, GoOnTypes DEF AccountsSafe
  <2>5. UNCHANGED <<client, subscriber, chars, archive, rows, faults>>
    BY DEF RegisterLooks, Others, Database
  <2>6. RequestTypes' /\ RowsSafe'
    BY <2>4, <2>5 DEF RequestTypes, RowsSafe, NoRowTwice, AccountsSafe
  <2>7. \A r \in LoginServers : WorkSound(r)'
    BY <2>3, <2>4, <2>5 DEF WorkSound, AccountsSafe
  <2>8. CopiesExplained'
    BY <1>1, <2>4, <2>5, <2>6, StillExplained DEF RequestTypes
  <2>9. ASSUME NEW v \in Users PROVE WithinLimit(v)'
    <3>1. Owned(v)' = Owned(v)
      BY <2>5 DEF Owned
    <3>2. Creating(v)' = Creating(v) \ {s} /\ Creating(v) \subseteq LoginServers /\ s \notin Registering(v)
      BY <1>1, <2>3, <2>4, OneThread DEF Doing, AccountsSafe, Registering
    <3>3. Cardinality(Creating(v)') <= Cardinality(Creating(v)) /\ Cardinality(Creating(v)') \in Nat
      BY <3>2, FewerLookers
    <3>4. subscriber'[v] + Cardinality(Registering(v)') <= Cardinality(LoginServers) + faults'
      <4>1. CASE v # u
        <5>1. Registering(v)' = Registering(v) \ {s}
          BY <2>3, <2>4, <4>1, OneThread DEF AccountsSafe
        <5>2. Registering(v)' = Registering(v)
          BY <3>2, <5>1
        <5> QED
          BY <2>5, <5>2, LimitTypes DEF WithinLimit
      <4>2. CASE v = u
        <5>1. Registering(v)' = Registering(v) \cup {s} /\ Registering(v) \subseteq LoginServers
          BY <2>3, <2>4, <4>2, OneThread DEF Doing, AccountsSafe
        <5>2. Cardinality(Registering(v)') <= Cardinality(LoginServers) /\ Cardinality(Registering(v)') \in Nat
          BY <3>2, <5>1, OneMore
        <5>3. subscriber[v] = 0
          BY <1>3, <2>2, <4>2, LimitTypes
        <5> QED
          BY <2>5, <5>2, <5>3, LimitTypes
      <4> QED
        BY <4>1, <4>2
    <3> QED
      BY <3>1, <3>3, <3>4, LimitTypes DEF WithinLimit
  <2> QED
    BY <2>6, <2>7, <2>8, <2>9 DEF AccountsSafe
<1> QED
  BY <1>2, <1>3 DEF RegisterLooks

\* An account is inserted: one row for the look, and one more for a fault.
LEMMA RegisterStep == ASSUME AccountsSafe, NEW s \in LoginServers, db_acc_register(s) PROVE AccountsSafe'
<1> DEFINE u == work[s].user
<1>1. PICK n \in {1, 2} : (IF n = 1 THEN UNCHANGED faults ELSE Fault) /\ subscriber' = [subscriber EXCEPT ![u] = @ + n]
  BY DEF db_acc_register
<1>2. /\ Reply(s) /\ work[s].op = "REGISTER" /\ work[s].step = "looked" /\ u \in Users
      /\ UNCHANGED <<client, chars, archive, rows>>
  BY DEF db_acc_register, Others, Doing, AccountsSafe, WorkSound
<1> HIDE DEF u
<1>3. /\ aq' \in [LoginServers -> RequestPlace] /\ work' \in [LoginServers -> Works]
      /\ work'[s] = NoWork /\ \A r \in LoginServers \ {s} : work'[r] = work[r]
  BY <1>2, ReplyTypes DEF AccountsSafe
<1>4. faults' \in Nat /\ faults' = faults + (n - 1) /\ faults \in Nat
  BY <1>1 DEF Fault, AccountsSafe, RequestTypes
<1>5. RequestTypes' /\ RowsSafe'
  BY <1>1, <1>2, <1>3, <1>4 DEF RequestTypes, RowsSafe, NoRowTwice, AccountsSafe
<1>6. \A r \in LoginServers : WorkSound(r)'
  BY <1>2, <1>3, NoWorkShape DEF WorkSound, AccountsSafe
<1>7. CopiesExplained'
  BY <1>2, <1>3, <1>4, StillExplained
<1>8. ASSUME NEW v \in Users PROVE WithinLimit(v)'
  <2>1. Owned(v)' = Owned(v)
    BY <1>2 DEF Owned
  <2>2. /\ Creating(v)' = Creating(v) \ {s} /\ Registering(v)' = Registering(v) \ {s}
        /\ Creating(v) \subseteq LoginServers /\ Registering(v) \subseteq LoginServers
    BY <1>3, OneThread, NoWorkShape DEF Doing, AccountsSafe
  <2>3. /\ Cardinality(Creating(v)') <= Cardinality(Creating(v)) /\ Cardinality(Creating(v)') \in Nat
        /\ Cardinality(Registering(v)') <= Cardinality(Registering(v)) /\ Cardinality(Registering(v)') \in Nat
    BY <2>2, FewerLookers
  <2>4. CASE v # u
    <3>1. subscriber'[v] = subscriber[v]
      BY <1>1, <2>4 DEF AccountsSafe, RowsSafe
    <3> QED
      BY <1>4, <2>1, <2>3, <3>1, LimitTypes DEF WithinLimit
  <2>5. CASE v = u
    <3>1. s \in Registering(v)
      BY <1>2, <2>5 DEF Registering, Doing, u
    <3>2. Cardinality(Registering(v)') = Cardinality(Registering(v)) - 1
      BY <2>2, <3>1, OneLess
    <3>3. subscriber'[v] = subscriber[v] + n
      BY <1>1, <2>5 DEF AccountsSafe, RowsSafe
    <3> QED
      BY <1>4, <2>1, <2>3, <3>2, <3>3, LimitTypes DEF WithinLimit
  <2> QED
    BY <2>4, <2>5
<1> QED
  BY <1>5, <1>6, <1>7, <1>8 DEF AccountsSafe

\* The characters of an account are counted: this server is among those that may
\* insert one more.
LEMMA CountStep == ASSUME AccountsSafe, NEW s \in LoginServers, CreateCounts(s) PROVE AccountsSafe'
<1>1. /\ work[s] \in Works /\ work[s].op = "CREATE" /\ work[s].step = "known" /\ work[s].user \in Users
      /\ UNCHANGED <<client, subscriber, chars, archive, rows, faults>>
  BY PlaceShape DEF CreateCounts, Doing, AccountsSafe, WorkSound, Others, Database
<1>2. CASE Reply(s)
  BY <1>1, <1>2, Answered DEF CreateCounts, Database
<1>3. CASE Cardinality(Owned(work[s].user)) < ACC_MAXCHARS /\ GoOn(s, [work[s] EXCEPT !.step = "counted"])
  <2>1. PICK record : record = [work[s] EXCEPT !.step = "counted"]
    OBVIOUS
  <2>2. PICK u \in Users : u = work[s].user
    BY <1>1
  <2>3. record \in Works /\ record.op = "CREATE" /\ record.step = "counted" /\ record.user = u
    BY <1>1, <2>1, <2>2 DEF Works, Steps
  <2>4. /\ aq' \in [LoginServers -> RequestPlace] /\ work' \in [LoginServers -> Works]
        /\ work'[s] = record /\ \A r \in LoginServers \ {s} : work'[r] = work[r]
    BY <1>3, <2>1, <2>3, GoOnTypes DEF AccountsSafe
  <2>5. RequestTypes' /\ RowsSafe'
    BY <1>1, <2>4 DEF RequestTypes, RowsSafe, NoRowTwice, AccountsSafe
  <2>6. \A r \in LoginServers : WorkSound(r)'
    BY <1>1, <2>3, <2>4 DEF WorkSound, AccountsSafe
  <2>7. CopiesExplained'
    BY <1>1, <2>4, <2>5, StillExplained DEF RequestTypes
  <2>8. ASSUME NEW v \in Users PROVE WithinLimit(v)'
    <3>1. Owned(v)' = Owned(v)
      BY <1>1 DEF Owned
    <3>2. Registering(v)' = Registering(v) \ {s} /\ Registering(v) \subseteq LoginServers /\ s \notin Creating(v)
      BY <1>1, <2>3, <2>4, OneThread DEF Doing, AccountsSafe, Creating
    <3>3. Cardinality(Registering(v)') <= Cardinality(Registering(v)) /\ Cardinality(Registering(v)') \in Nat
      BY <3>2, FewerLookers
    <3>4. Cardinality(Owned(v)') + Cardinality(Creating(v)') < ACC_MAXCHARS + Cardinality(LoginServers)
      <4>1. CASE v # u
        <5>1. Creating(v)' = Creating(v) \ {s}
          BY <2>3, <2>4, <4>1, OneThread DEF AccountsSafe
        <5>2. Creating(v)' = Creating(v)
          BY <3>2, <5>1
        <5> QED
          BY <3>1, <5>2, LimitTypes DEF WithinLimit
      <4>2. CASE v = u
        <5>1. Creating(v)' = Creating(v) \cup {s} /\ Creating(v) \subseteq LoginServers
          BY <2>3, <2>4, <4>2, OneThread DEF Doing, AccountsSafe
        <5>2. Cardinality(Creating(v)') <= Cardinality(LoginServers) /\ Cardinality(Creating(v)') \in Nat
          BY <3>2, <5>1, OneMore
        <5> QED
          BY <1>3, <2>2, <3>1, <4>2, <5>2, LimitTypes
      <4> QED
        BY <4>1, <4>2
    <3> QED
      BY <1>1, <3>1, <3>3, <3>4, LimitTypes DEF WithinLimit
  <2> QED
    BY <2>5, <2>6, <2>7, <2>8 DEF AccountsSafe
<1> QED
  BY <1>2, <1>3 DEF CreateCounts, MayCreate

\* A character is inserted: this server is no longer among those that may.
LEMMA CreateStep == ASSUME AccountsSafe, NEW s \in LoginServers, db_acc_create(s) PROVE AccountsSafe'
<1>1. /\ work[s] \in Works /\ work[s].op = "CREATE" /\ work[s].step = "counted" /\ work[s].user \in Users
      /\ UNCHANGED <<client, subscriber, archive>> /\ Wish(s).name \in Heroes \cup {NoName} /\ Reply(s)
  BY PlaceShape DEF db_acc_create, Doing, AccountsSafe, WorkSound, Others
<1>2. CASE UNCHANGED <<chars, rows, faults>>
  BY <1>1, <1>2, Answered DEF Database
<1>3. CASE /\ Named(Wish(s).name) = {} /\ rows' = rows + 1 /\ (UNCHANGED faults \/ Fault)
           /\ chars' = chars \cup {[id |-> rows + 1, name |-> Wish(s).name, owner |-> work[s].user, bound |-> FALSE]}
  <2>1. PICK u \in Users, n \in Heroes \cup {NoName} : u = work[s].user /\ n = Wish(s).name
    BY <1>1
  <2>2. PICK new : new = [id |-> rows + 1, name |-> n, owner |-> u, bound |-> FALSE]
    OBVIOUS
  <2>3. new \in AccountRows /\ new.id = rows + 1 /\ new.name = n /\ new.owner = u /\ chars' = chars \cup {new}
    BY <1>3, <2>1, <2>2 DEF AccountRows, AccountsSafe, RowsSafe
  <2>4. /\ rows \in Nat /\ \A c \in chars : c.id \in 1 .. rows /\ c.name # n
        /\ archive \subseteq 1 .. rows
    BY <1>3, <2>1 DEF AccountsSafe, RowsSafe, Named
  <2>5. /\ aq' \in [LoginServers -> RequestPlace] /\ work' \in [LoginServers -> Works]
        /\ work'[s] = NoWork /\ \A r \in LoginServers \ {s} : work'[r] = work[r]
    BY <1>1, ReplyTypes DEF AccountsSafe
  <2>6. faults' \in Nat /\ faults' >= faults /\ faults \in Nat
    BY <1>3, FaultTypes DEF AccountsSafe, RequestTypes
  <2>7. RequestTypes'
    BY <1>1, <2>5, <2>6 DEF RequestTypes, AccountsSafe
  <2>8. RowsSafe'
    <3>1. {c.id : c \in chars'} = {c.id : c \in chars} \cup {rows + 1}
      BY <2>3
    <3>2. 1 .. rows + 1 = (1 .. rows) \cup {rows + 1}
      BY <2>4
    <3>3. 1 .. rows' = {c.id : c \in chars'} \cup archive'
      BY <1>1, <1>3, <3>1, <3>2 DEF AccountsSafe, RowsSafe
    <3>4. NoRowTwice'
      BY <2>3, <2>4 DEF AccountsSafe, RowsSafe, NoRowTwice
    <3> QED
      BY <1>1, <1>3, <2>3, <2>4, <3>3, <3>4 DEF AccountsSafe, RowsSafe
  <2>9. \A r \in LoginServers : WorkSound(r)'
    BY <1>1, <1>3, <2>4, <2>5, NoWorkShape DEF WorkSound, AccountsSafe
  <2>10. CopiesExplained'
    <3> SUFFICES ASSUME NEW c \in chars', c.id \in archive', ~(faults' > 0)
                 PROVE  \E r \in LoginServers : work'[r].step = "archived" /\ work'[r].id = c.id
      BY DEF CopiesExplained
    <3>1. faults = 0
      BY <2>6
    <3>2. c \in chars
      BY <1>1, <2>3, <2>4
    <3>3. PICK r \in LoginServers : work[r].step = "archived" /\ work[r].id = c.id
      BY <1>1, <3>1, <3>2 DEF AccountsSafe, CopiesExplained
    <3>4. work'[r] = work[r]
      BY <1>1, <2>5, <3>3
    <3> QED
      BY <3>3, <3>4
  <2>11. ASSUME NEW v \in Users PROVE WithinLimit(v)'
    <3>1. /\ Creating(v)' = Creating(v) \ {s} /\ Registering(v)' = Registering(v) \ {s}
          /\ Creating(v) \subseteq LoginServers /\ Registering(v) \subseteq LoginServers
      BY <2>5, OneThread, NoWorkShape DEF Doing, AccountsSafe
    <3>2. /\ Cardinality(Creating(v)') <= Cardinality(Creating(v)) /\ Cardinality(Creating(v)') \in Nat
          /\ Cardinality(Registering(v)') <= Cardinality(Registering(v)) /\ Cardinality(Registering(v)') \in Nat
      BY <3>1, FewerLookers
    <3>3. subscriber'[v] + Cardinality(Registering(v)') <= Cardinality(LoginServers) + faults'
      BY <1>1, <2>6, <3>2, LimitTypes DEF WithinLimit
    <3>4. /\ IsFiniteSet(Owned(v)')
          /\ Cardinality(Owned(v)') + Cardinality(Creating(v)') < ACC_MAXCHARS + Cardinality(LoginServers)
      <4>1. CASE v # u
        <5>1. Owned(v)' = Owned(v)
          BY <2>3, <4>1 DEF Owned
        <5> QED
          BY <3>2, <5>1, LimitTypes DEF WithinLimit
      <4>2. CASE v = u
        <5>1. Owned(v)' = Owned(v) \cup {new} /\ new \notin Owned(v)
          BY <2>3, <2>4, <4>2 DEF Owned
        <5>2. IsFiniteSet(Owned(v)') /\ Cardinality(Owned(v)') = Cardinality(Owned(v)) + 1
          BY <5>1, LimitTypes, FS_AddElement
        <5>3. s \in Creating(v)
          BY <1>1, <2>1, <4>2 DEF Creating, Doing
        <5>4. Cardinality(Creating(v)') = Cardinality(Creating(v)) - 1
          BY <3>1, <5>3, OneLess
        <5> QED
          BY <5>2, <5>4, LimitTypes DEF WithinLimit
      <4> QED
        BY <4>1, <4>2
    <3> QED
      BY <3>3, <3>4 DEF WithinLimit
  <2> QED
    BY <2>7, <2>8, <2>9, <2>10, <2>11 DEF AccountsSafe
<1> QED
  BY <1>2, <1>3 DEF db_acc_create

\* Fewer rows, or rows with the same owners: the limits hold.
LEMMA LimitsStay ==
    ASSUME AccountsSafe, NEW u \in Users, UNCHANGED subscriber, faults' >= faults, faults' \in Nat,
           IsFiniteSet(Owned(u)'), Cardinality(Owned(u)') <= Cardinality(Owned(u)),
           Creating(u)' \subseteq Creating(u), Registering(u)' \subseteq Registering(u)
    PROVE  WithinLimit(u)'
<1>1. Creating(u) \subseteq LoginServers /\ Registering(u) \subseteq LoginServers
  BY DEF Creating, Registering
<1>2. /\ Cardinality(Creating(u)') <= Cardinality(Creating(u)) /\ Cardinality(Creating(u)') \in Nat
      /\ Cardinality(Registering(u)') <= Cardinality(Registering(u)) /\ Cardinality(Registering(u)') \in Nat
  BY <1>1, FewerLookers
<1>3. Cardinality(Owned(u)') \in Nat
  BY FS_CardinalityType
<1>4. Cardinality(Owned(u)') + Cardinality(Creating(u)') < ACC_MAXCHARS + Cardinality(LoginServers)
  BY <1>2, <1>3, LimitTypes DEF WithinLimit
<1>5. subscriber'[u] + Cardinality(Registering(u)') <= Cardinality(LoginServers) + faults'
  BY <1>2, LimitTypes DEF WithinLimit
<1> QED
  BY <1>4, <1>5 DEF WithinLimit

\* A copy is made: the deletion goes on, or a fault has ended it.
LEMMA ArchiveStep == ASSUME AccountsSafe, NEW s \in LoginServers, DeleteArchives(s) PROVE AccountsSafe'
<1>1. /\ work[s] \in Works /\ work[s].op = "DELETE" /\ work[s].step = "found" /\ work[s].user \in Users
      /\ work[s].id \in 1 .. rows /\ UNCHANGED <<client, subscriber, chars, rows>>
  BY PlaceShape DEF DeleteArchives, Doing, AccountsSafe, WorkSound, Others
<1>2. CASE Reply(s) /\ UNCHANGED <<archive, faults>>
  BY <1>1, <1>2, Answered DEF Database
<1>3. CASE /\ archive' = archive \cup {c.id : c \in RowOf(s)}
           /\ \/ GoOn(s, [work[s] EXCEPT !.step = "archived"]) /\ UNCHANGED faults
              \/ Reply(s) /\ Fault
  <2>1. PICK id \in 1 .. rows : id = work[s].id
    BY <1>1
  <2>2. archive' = archive \cup {id} \/ (archive' = archive /\ \A c \in chars : c.id # id)
    BY <1>3, <2>1 DEF RowOf
  <2>3. id \in archive' /\ archive \subseteq archive' /\ archive' \subseteq archive \cup {id} /\ archive' \subseteq 1 .. rows
    BY <2>2 DEF AccountsSafe, RowsSafe
  <2>4. faults' \in Nat /\ faults' >= faults /\ faults \in Nat
    BY <1>3, FaultTypes DEF AccountsSafe, RequestTypes
  <2>5. /\ aq' \in [LoginServers -> RequestPlace] /\ work' \in [LoginServers -> Works]
        /\ \A r \in LoginServers \ {s} : work'[r] = work[r]
        /\ \/ work'[s].step = "idle" /\ faults' > 0
           \/ work'[s].step = "archived" /\ work'[s].id = id /\ work'[s].user \in Users
    <3>1. CASE GoOn(s, [work[s] EXCEPT !.step = "archived"])
      <4>1. PICK record : record = [work[s] EXCEPT !.step = "archived"]
        OBVIOUS
      <4>2. record \in Works /\ record.step = "archived" /\ record.id = id /\ record.user \in Users
        BY <1>1, <2>1, <4>1 DEF Works, Steps
      <4> QED
        BY <3>1, <4>1, <4>2, GoOnTypes DEF AccountsSafe
    <3>2. CASE Reply(s) /\ Fault
      <4>1. work'[s] = NoWork /\ faults' > 0
        BY <3>2, ReplyTypes, FaultCounts DEF AccountsSafe
      <4>2. /\ aq' \in [LoginServers -> RequestPlace] /\ work' \in [LoginServers -> Works]
            /\ \A r \in LoginServers \ {s} : work'[r] = work[r]
        BY <3>2, ReplyTypes DEF AccountsSafe
      <4> QED
        BY <4>1, <4>2, NoWorkShape
    <3> QED
      BY <1>3, <3>1, <3>2
  <2>6. RequestTypes'
    BY <1>1, <2>4, <2>5 DEF RequestTypes, AccountsSafe
  <2>7. RowsSafe'
    BY <1>1, <2>3 DEF AccountsSafe, RowsSafe, NoRowTwice
  <2>8. \A r \in LoginServers : WorkSound(r)'
    BY <1>1, <2>3, <2>5 DEF WorkSound, AccountsSafe
  <2>9. CopiesExplained'
    <3> SUFFICES ASSUME NEW c \in chars, c.id \in archive', ~(faults' > 0)
                 PROVE  \E r \in LoginServers : work'[r].step = "archived" /\ work'[r].id = c.id
      BY <1>1 DEF CopiesExplained
    <3>1. work'[s].step = "archived" /\ work'[s].id = id /\ faults = 0
      BY <2>4, <2>5
    <3>2. CASE c.id = id
      BY <3>1, <3>2
    <3>3. CASE c.id # id
      <4>1. c.id \in archive
        BY <2>3, <3>3
      <4>2. PICK r \in LoginServers : work[r].step = "archived" /\ work[r].id = c.id
        BY <3>1, <4>1 DEF AccountsSafe, CopiesExplained
      <4>3. work'[r] = work[r]
        BY <1>1, <2>5, <4>2
      <4> QED
        BY <4>2, <4>3
    <3> QED
      BY <3>2, <3>3
  <2>10. ASSUME NEW v \in Users PROVE WithinLimit(v)'
    <3>1. Owned(v)' = Owned(v) /\ IsFiniteSet(Owned(v)) /\ Cardinality(Owned(v)) \in Nat
      BY <1>1, LimitTypes DEF Owned
    <3>2. Creating(v)' \subseteq Creating(v) /\ Registering(v)' \subseteq Registering(v)
      BY <2>5 DEF Creating, Registering, Doing
    <3> QED
      BY <1>1, <2>4, <3>1, <3>2, LimitsStay
  <2> QED
    BY <2>6, <2>7, <2>8, <2>9, <2>10 DEF AccountsSafe
<1> QED
  BY <1>2, <1>3 DEF DeleteArchives

\* Only a row that is in the archive is deleted.
LEMMA DeleteStep == ASSUME AccountsSafe, NEW s \in LoginServers, db_acc_delete(s) PROVE AccountsSafe'
<1>1. /\ Reply(s) /\ work[s].op = "DELETE" /\ work[s].id \in archive /\ chars' = chars \ RowOf(s)
      /\ work[s].step = "archived" /\ UNCHANGED <<client, subscriber, archive, rows, faults>>
  BY DEF db_acc_delete, Doing, AccountsSafe, WorkSound, Others
<1>2. /\ aq' \in [LoginServers -> RequestPlace] /\ work' \in [LoginServers -> Works]
      /\ work'[s] = NoWork /\ \A r \in LoginServers \ {s} : work'[r] = work[r]
  BY <1>1, ReplyTypes DEF AccountsSafe
<1>3. RequestTypes'
  BY <1>1, <1>2 DEF RequestTypes, AccountsSafe
<1>4. RowsSafe'
  <2>1. {c.id : c \in chars'} = {c.id : c \in chars} \ {work[s].id}
    BY <1>1 DEF RowOf
  <2>2. 1 .. rows' = {c.id : c \in chars'} \cup archive'
    BY <1>1, <2>1 DEF AccountsSafe, RowsSafe
  <2> QED
    BY <1>1, <2>2 DEF AccountsSafe, RowsSafe, NoRowTwice
<1>5. \A r \in LoginServers : WorkSound(r)'
  BY <1>1, <1>2, NoWorkShape DEF WorkSound, AccountsSafe
<1>6. CopiesExplained'
  <2> SUFFICES ASSUME NEW c \in chars', c.id \in archive, ~(faults > 0)
               PROVE  \E r \in LoginServers : work'[r].step = "archived" /\ work'[r].id = c.id
    BY <1>1 DEF CopiesExplained
  <2>1. c \in chars /\ c.id # work[s].id
    BY <1>1 DEF RowOf
  <2>2. PICK r \in LoginServers : work[r].step = "archived" /\ work[r].id = c.id
    BY <2>1 DEF AccountsSafe, CopiesExplained
  <2>3. work'[r] = work[r]
    BY <1>2, <2>1, <2>2
  <2> QED
    BY <2>2, <2>3
<1>7. ASSUME NEW v \in Users PROVE WithinLimit(v)'
  <2>1. Owned(v)' \in SUBSET Owned(v) /\ IsFiniteSet(Owned(v))
    BY <1>1, LimitTypes DEF Owned
  <2>2. IsFiniteSet(Owned(v)') /\ Cardinality(Owned(v)') <= Cardinality(Owned(v))
    BY <2>1, FS_Subset
  <2>3. Creating(v)' \subseteq Creating(v) /\ Registering(v)' \subseteq Registering(v)
    BY <1>2, NoWorkShape DEF Creating, Registering, Doing
  <2>4. faults' >= faults /\ faults' \in Nat
    BY <1>1 DEF AccountsSafe, RequestTypes
  <2> QED
    BY <1>1, <2>2, <2>3, <2>4, LimitsStay
<1> QED
  BY <1>3, <1>4, <1>5, <1>6, <1>7 DEF AccountsSafe

\* Playing a character changes nothing its account counts.
LEMMA PlaysStep == ASSUME AccountsSafe, NEW c \in chars, Plays(c) PROVE AccountsSafe'
<1> PICK bound \in BOOLEAN : chars' = (chars \ {c}) \cup {[c EXCEPT !.bound = bound]}
  BY DEF Plays
<1>1. PICK new : new = [c EXCEPT !.bound = bound]
  OBVIOUS
<1>2. /\ new \in AccountRows /\ new.id = c.id /\ new.name = c.name /\ new.owner = c.owner
      /\ chars' = (chars \ {c}) \cup {new}
      /\ UNCHANGED <<client, aq, queries, work, subscriber, archive, rows, faults>>
  <2>1. c \in AccountRows
    BY DEF AccountsSafe, RowsSafe
  <2>2. new \in AccountRows /\ new.id = c.id /\ new.name = c.name /\ new.owner = c.owner
    BY <1>1, <2>1 DEF AccountRows
  <2> QED
    BY <1>1, <2>2 DEF Plays
<1>3. RequestTypes' /\ \A r \in LoginServers : WorkSound(r)'
  BY <1>2 DEF RequestTypes, WorkSound, AccountsSafe
<1>4. {d.id : d \in chars'} = {d.id : d \in chars}
  BY <1>2
<1>5. NoRowTwice'
  BY <1>2 DEF AccountsSafe, RowsSafe, NoRowTwice
<1>6. RowsSafe'
  BY <1>2, <1>4, <1>5 DEF AccountsSafe, RowsSafe
<1>7. CopiesExplained'
  BY <1>2 DEF AccountsSafe, CopiesExplained
<1>8. ASSUME NEW v \in Users PROVE WithinLimit(v)'
  <2>1. IsFiniteSet(Owned(v)) /\ Cardinality(Owned(v)) \in Nat
    BY LimitTypes
  <2>2. IsFiniteSet(Owned(v)') /\ Cardinality(Owned(v)') <= Cardinality(Owned(v))
    <3>1. CASE c.owner # v
      <4>1. Owned(v)' = Owned(v)
        BY <1>2, <3>1 DEF Owned
      <4> QED
        BY <2>1, <4>1
    <3>2. CASE c.owner = v
      <4>1. PICK mine : mine = Owned(v)
        OBVIOUS
      <4>2. Owned(v)' = (mine \ {c}) \cup {new} /\ c \in mine
        BY <1>2, <3>2, <4>1 DEF Owned
      <4>3. IsFiniteSet(mine \ {c}) /\ Cardinality(mine \ {c}) = Cardinality(mine) - 1 /\ Cardinality(mine \ {c}) \in Nat
        BY <2>1, <4>1, <4>2, FS_RemoveElement, FS_CardinalityType
      <4>4. PICK rest : rest = mine \ {c}
        OBVIOUS
      <4>5. /\ IsFiniteSet(rest \cup {new})
            /\ Cardinality(rest \cup {new}) = IF new \in rest THEN Cardinality(rest) ELSE Cardinality(rest) + 1
        BY <4>3, <4>4, FS_AddElement
      <4> QED
        BY <2>1, <4>1, <4>2, <4>3, <4>4, <4>5
    <3> QED
      BY <3>1, <3>2
  <2>3. Creating(v)' \subseteq Creating(v) /\ Registering(v)' \subseteq Registering(v)
    BY <1>2 DEF Creating, Registering, Doing
  <2>4. faults' >= faults /\ faults' \in Nat
    BY <1>2 DEF AccountsSafe, RequestTypes
  <2> QED
    BY <1>2, <2>2, <2>3, <2>4, LimitsStay
<1> QED
  BY <1>3, <1>6, <1>7, <1>8 DEF AccountsSafe

\* The rows of the accounts hold across every step.
LEMMA AccountsStep == AccountsSafe /\ [AccountsNext]_accountVars => AccountsSafe'
<1> SUFFICES ASSUME AccountsSafe, [AccountsNext]_accountVars PROVE AccountsSafe'
  OBVIOUS
<1>1. ASSUME NEW s \in LoginServers, AccountStep(s) PROVE AccountsSafe'
  BY <1>1, ThreadStep, LookStep, RegisterStep, CountStep, CreateStep, ArchiveStep, DeleteStep DEF AccountStep
<1>2. ASSUME NEW s \in LoginServers, Failing(s) \/ AccountRestart(s) PROVE AccountsSafe'
  BY <1>2, ThreadStep, RestartStep
<1>3. ASSUME NEW s \in LoginServers, Ages(s) PROVE AccountsSafe'
  <2>1. UNCHANGED <<client, work, Database, faults>>
    BY <1>3 DEF Ages
  <2>2. aq' = [aq EXCEPT ![s] = [aq[s] EXCEPT !.fresh = FALSE]] /\ aq[s] \in RequestPlace
    BY <1>3, PlaceShape DEF Ages, AccountsSafe, RequestTypes
  <2>3. [aq[s] EXCEPT !.fresh = FALSE] \in RequestPlace
    BY <2>2 DEF RequestPlace
  <2>4. RequestTypes'
    BY <2>1, <2>2, <2>3 DEF AccountsSafe, RequestTypes
  <2> QED
    BY <2>1, <2>4, QuietStep DEF AccountsSafe, RequestTypes
<1>4. ASSUME NEW d \in Doors, NEW s \in LoginServers, account_op(d, s) \/ FillIn(d, s) \/ \E w \in Wishes : Connect(d, s, w)
      PROVE  AccountsSafe'
  BY <1>4, LoopStep
<1>5. ASSUME NEW d \in Doors, Disconnect(d) PROVE AccountsSafe'
  BY <1>5, LoopStep, AccountsAssumption
<1>6. CASE UNCHANGED accountVars
  <2>1. UNCHANGED <<client, aq, work, subscriber, chars, archive, rows, faults>>
    BY <1>6 DEF accountVars
  <2> QED
    BY <2>1, QuietStep DEF AccountsSafe, RequestTypes, Database
<1> QED
  BY <1>1, <1>2, <1>3, <1>4, <1>5, <1>6, PlaysStep DEF AccountsNext

(* Whatever is asked twice, left behind or fails half-way: every character that was *)
(* made has its row or is archived, and every server that checks before it inserts  *)
(* costs an account's limit, and a name, one at most.                               *)
THEOREM CharactersKept == AccountsSpec => []AccountsKept
<1>1. AccountsInit => AccountsSafe
  <2> SUFFICES ASSUME AccountsInit PROVE AccountsSafe
    OBVIOUS
  <2>1. NoClient \in Clients /\ AqEmpty \in RequestPlace
    BY DEF NoClient, Clients, Asked, AqEmpty, RequestPlace
  <2>2. RequestTypes
    BY <2>1, NoWorkShape DEF AccountsInit, RequestTypes
  <2>3. RowsSafe
    <3>1. subscriber \in [Users -> Nat] /\ archive = {}
      BY DEF AccountsInit
    <3>2. CASE chars = {} /\ rows = 0
      BY <3>1, <3>2 DEF RowsSafe, NoRowTwice
    <3>3. ASSUME NEW u \in Users, NEW n \in Heroes, rows = 1, chars = {[id |-> 1, name |-> n, owner |-> u, bound |-> FALSE]}
          PROVE  RowsSafe
      <4>1. [id |-> 1, name |-> n, owner |-> u, bound |-> FALSE] \in AccountRows
        BY DEF AccountRows
      <4>2. {c.id : c \in chars} = {1} /\ 1 .. rows = {1}
        BY <3>3
      <4> QED
        BY <3>1, <3>3, <4>1, <4>2 DEF RowsSafe, NoRowTwice
    <3> QED
      BY <3>2, <3>3 DEF AccountsInit
  <2>4. CopiesExplained /\ \A s \in LoginServers : WorkSound(s)
    BY NoWorkShape DEF AccountsInit, CopiesExplained, WorkSound
  <2>5. ASSUME NEW u \in Users PROVE WithinLimit(u)
    <3>1. Creating(u) = {} /\ Registering(u) = {} /\ subscriber[u] \in {0, 1} /\ faults = 0
      BY NoWorkShape DEF AccountsInit, Creating, Registering, Doing
    <3>2. Cardinality(LoginServers) \in Nat /\ Cardinality(LoginServers) > 0
      BY AccountsAssumption, FS_CardinalityType, FS_EmptySet
    <3>3. IsFiniteSet(Owned(u)) /\ Cardinality(Owned(u)) <= 1 /\ Cardinality(Owned(u)) \in Nat
      <4>1. PICK c : chars \subseteq {c}
        BY DEF AccountsInit
      <4>2. Owned(u) \in SUBSET {c} /\ IsFiniteSet({c}) /\ Cardinality({c}) = 1
        BY <4>1, FS_Singleton DEF Owned
      <4> QED
        BY <4>2, FS_Subset, FS_CardinalityType
    <3> QED
      BY <3>1, <3>2, <3>3, FS_EmptySet, AccountsAssumption DEF WithinLimit
  <2> QED
    BY <2>2, <2>3, <2>4, <2>5 DEF AccountsSafe
<1>2. AccountsSafe => AccountsKept
  <2> SUFFICES ASSUME AccountsSafe PROVE AccountsKept
    OBVIOUS
  <2>1. ASSUME NEW u \in Users
        PROVE  /\ Cardinality(Owned(u)) < ACC_MAXCHARS + Cardinality(LoginServers)
               /\ subscriber[u] <= Cardinality(LoginServers) + faults
    BY LimitTypes DEF WithinLimit
  <2> QED
    BY <2>1 DEF AccountsSafe, RowsSafe, NoRowTwice, CopiesExplained, AccountsKept
<1> QED
  BY <1>1, <1>2, AccountsStep, PTL DEF AccountsSpec

-----------------------------------------------------------------------------
(* Timers: the order of the list and of the calls.                          *)

SetTimers == [id : Alarms, due : 0 .. LastTick]
Calls == [id : Alarms, due : 0 .. LastTick, at : Nat]
Gone == IF firing = Resting THEN 0 ELSE firing

TimerTypes ==
    /\ next_t \in Seq(SetTimers) /\ fired \in Seq(Calls)
    /\ ticker \in Nat /\ firing \in {Resting} \cup 0 .. Len(next_t)
    /\ used_timers = Len(next_t) - Gone
NamesOnce ==
    /\ \A m, n \in 1 .. Len(next_t) : next_t[m].id = next_t[n].id => m = n
    /\ \A m, n \in 1 .. Len(fired) : fired[m].id = fired[n].id => m = n
    /\ \A m \in 1 .. Len(next_t), n \in 1 .. Len(fired) : m > Gone => next_t[m].id # fired[n].id
\* The list is sorted, what has been fired comes first, and what will be fired in
\* this tick is due after what was.
CallOrder ==
    /\ \A m, n \in 1 .. Len(next_t) : m < n => next_t[m].due <= next_t[n].due
    /\ \A m \in 1 .. Len(next_t) : m <= Gone => next_t[m].due <= ticker
    /\ \A n \in 1 .. Len(fired) : fired[n].due <= fired[n].at /\ fired[n].at <= ticker
    /\ \A m, n \in 1 .. Len(fired) : m < n /\ fired[m].at = fired[n].at => fired[m].due <= fired[n].due
    /\ firing # Resting =>
         \A m \in 1 .. Len(next_t), n \in 1 .. Len(fired) :
            m > Gone /\ fired[n].at = ticker => fired[n].due <= next_t[m].due

TimersSafe == TimerTypes /\ NamesOnce /\ CallOrder

\* A set of numbers that is not empty has a least element.
LEMMA LeastNumber == ASSUME NEW T \in SUBSET Nat, T # {} PROVE \E x \in T : \A y \in T : x <= y
<1>1. PICK x \in T : \A y \in T : ~ (<<y, x>> \in OpToRel(<, Nat))
  BY NatLessThanWellFounded, WFMin
<1>2. ASSUME NEW y \in T PROVE x =< y
  <2>1. <<y, x>> \in Nat \X Nat /\ <<y, x>>[1] = y /\ <<y, x>>[2] = x
    OBVIOUS
  <2>2. <<y, x>> \notin {p \in Nat \X Nat : p[1] < p[2]}
    BY <1>1 DEF OpToRel
  <2> QED
    BY <2>1, <2>2
<1> QED
  BY <1>2

\* A sequence with an element put in: what is before it stays, what is after it moves by one.
LEMMA InsertedAt ==
    ASSUME NEW S, NEW s \in Seq(S), NEW n \in 1 .. Len(s) + 1, NEW e \in S
    PROVE  /\ InsertAt(s, n, e) \in Seq(S) /\ Len(InsertAt(s, n, e)) = Len(s) + 1
           /\ \A m \in 1 .. n - 1 : InsertAt(s, n, e)[m] = s[m]
           /\ InsertAt(s, n, e)[n] = e
           /\ \A m \in n + 1 .. Len(s) + 1 : InsertAt(s, n, e)[m] = s[m - 1]
<1> DEFINE front == SubSeq(s, 1, n - 1)
           back == SubSeq(s, n, Len(s))
           all == front \o <<e>> \o back
<1>1. /\ front \in Seq(S) /\ Len(front) = n - 1 /\ \A m \in 1 .. n - 1 : front[m] = s[m]
  OBVIOUS
<1>2. /\ back \in Seq(S) /\ Len(back) = Len(s) + 1 - n /\ \A m \in 1 .. Len(s) + 1 - n : back[m] = s[n + m - 1]
  OBVIOUS
<1>3. <<e>> \in Seq(S) /\ Len(<<e>>) = 1 /\ <<e>>[1] = e
  OBVIOUS
<1>4. InsertAt(s, n, e) = all
  BY DEF InsertAt
<1> HIDE DEF front, back
<1>5. /\ front \o <<e>> \in Seq(S) /\ Len(front \o <<e>>) = n
      /\ \A m \in 1 .. n - 1 : (front \o <<e>>)[m] = s[m]
      /\ (front \o <<e>>)[n] = e
  BY <1>1, <1>3
<1> DEFINE upto == front \o <<e>>
<1> HIDE DEF upto
<1>6. /\ upto \o back \in Seq(S) /\ Len(upto \o back) = Len(s) + 1
      /\ \A m \in 1 .. n : (upto \o back)[m] = upto[m]
      /\ \A m \in n + 1 .. Len(s) + 1 : (upto \o back)[m] = back[m - n]
  <2>1. upto \in Seq(S) /\ Len(upto) = n
    BY <1>5 DEF upto
  <2>2. upto \o back \in Seq(S) /\ Len(upto \o back) = Len(s) + 1
    BY <1>2, <2>1
  <2> QED
    BY <1>2, <2>1, <2>2
<1>7. \A m \in n + 1 .. Len(s) + 1 : back[m - n] = s[m - 1]
  BY <1>2
<1>8. all = upto \o back
  BY DEF upto
<1> HIDE DEF all
<1> QED
  BY <1>4, <1>5, <1>6, <1>7, <1>8 DEF upto

\* What the list and the history hold, place by place.
LEMMA PlacesTyped ==
    ASSUME TimersSafe
    PROVE  /\ Len(next_t) \in Nat /\ Len(fired) \in Nat
           /\ \A n \in 1 .. Len(next_t) :
                next_t[n] \in SetTimers /\ next_t[n].due \in Int /\ next_t[n].id \in Alarms
           /\ \A n \in 1 .. Len(fired) : fired[n] \in Calls /\ fired[n].due \in Int /\ fired[n].at \in Int
<1>1. next_t \in Seq(SetTimers) /\ fired \in Seq(Calls)
  BY DEF TimersSafe, TimerTypes
<1>2. \A n \in 1 .. Len(next_t) : next_t[n] \in SetTimers
  BY <1>1
<1>3. \A n \in 1 .. Len(fired) : fired[n] \in Calls
  BY <1>1
<1> QED
  BY <1>1, <1>2, <1>3 DEF SetTimers, Calls

\* A list has a first place that is not due before.
LEMMA PlaceFound ==
    ASSUME TimersSafe, NEW due \in 0 .. LastTick
    PROVE  /\ Position(due) \in 1 .. Len(next_t) + 1
           /\ \A m \in 1 .. Position(due) - 1 : next_t[m].due < due
           /\ Position(due) <= Len(next_t) => next_t[Position(due)].due >= due
<1> DEFINE T == {n \in 1 .. Len(next_t) + 1 : n <= Len(next_t) => next_t[n].due >= due}
<1>1. Len(next_t) \in Nat /\ \A n \in 1 .. Len(next_t) : next_t[n].due \in Int
  BY PlacesTyped
<1>2. Len(next_t) + 1 \in T /\ T \in SUBSET Nat
  BY <1>1
<1>3. PICK n \in T : \A m \in T : n <= m
  BY <1>2, LeastNumber
<1>4. /\ n \in 1 .. Len(next_t) + 1
      /\ \A m \in 1 .. n - 1 : next_t[m].due < due
      /\ n <= Len(next_t) => next_t[n].due >= due
  <2>1. ASSUME NEW m \in 1 .. n - 1 PROVE next_t[m].due < due
    <3>1. m \in 1 .. Len(next_t) /\ m \notin T
      BY <1>1, <1>3
    <3> QED
      BY <1>1, <3>1
  <2> QED
    BY <1>3, <2>1
<1> QED
  BY <1>4 DEF Position

\* The order of the list and of the calls holds across every step.
LEMMA TimersStep == TimersSafe /\ [TimersNext]_timerVars => TimersSafe'
<1> SUFFICES ASSUME TimersSafe, [TimersNext]_timerVars PROVE TimersSafe'
  OBVIOUS
<1>0. /\ Len(next_t) \in Nat /\ Len(fired) \in Nat /\ ticker \in Nat /\ LastTick \in Nat
      /\ Gone \in 0 .. Len(next_t)
      /\ \A n \in 1 .. Len(next_t) : next_t[n] \in SetTimers /\ next_t[n].due \in Int /\ next_t[n].id \in Alarms
      /\ \A n \in 1 .. Len(fired) : fired[n] \in Calls /\ fired[n].due \in Int /\ fired[n].at \in Int
  BY PlacesTyped, TimersAssumption DEF TimersSafe, TimerTypes, Gone, Resting
<1>1. ASSUME NEW a \in Alarms, NEW due \in 0 .. LastTick, set_timer(a, due) PROVE TimersSafe'
  <2> DEFINE n == Position(due)
             new == [id |-> a, due |-> due]
  <2>1. /\ a \in Unset /\ (firing # Resting => due > ticker)
        /\ next_t' = InsertAt(next_t, n, new) /\ used_timers' = used_timers + 1
        /\ UNCHANGED <<ticker, firing, fired>>
    BY <1>1 DEF set_timer
  <2>2. /\ n \in 1 .. Len(next_t) + 1 /\ \A m \in 1 .. n - 1 : next_t[m].due < due
        /\ n <= Len(next_t) => next_t[n].due >= due
    BY PlaceFound
  <2>3. new \in SetTimers /\ new.id = a /\ new.due = due
    BY DEF SetTimers
  <2>4. /\ \A m \in 1 .. Len(next_t) : next_t[m].id # a
        /\ \A m \in 1 .. Len(fired) : fired[m].id # a
    <3>1. \A m \in 1 .. Len(next_t) : next_t[m] \in ToSet(next_t)
      BY <1>0 DEF ToSet, TimersSafe, TimerTypes
    <3>2. \A m \in 1 .. Len(fired) : fired[m] \in ToSet(fired)
      BY <1>0 DEF ToSet, TimersSafe, TimerTypes
    <3> QED
      <4>1. a \notin {t.id : t \in ToSet(next_t)} /\ a \notin {t.id : t \in ToSet(fired)}
        BY <2>1 DEF Unset
      <4> QED
        BY <3>1, <3>2, <4>1
  <2> HIDE DEF n, new
  <2>5. /\ next_t' \in Seq(SetTimers) /\ Len(next_t') = Len(next_t) + 1
        /\ \A m \in 1 .. n - 1 : next_t'[m] = next_t[m]
        /\ next_t'[n] = new
        /\ \A m \in n + 1 .. Len(next_t) + 1 : next_t'[m] = next_t[m - 1]
    <3>1. next_t \in Seq(SetTimers)
      BY DEF TimersSafe, TimerTypes
    <3>2. /\ InsertAt(next_t, n, new) \in Seq(SetTimers) /\ Len(InsertAt(next_t, n, new)) = Len(next_t) + 1
          /\ \A m \in 1 .. n - 1 : InsertAt(next_t, n, new)[m] = next_t[m]
          /\ InsertAt(next_t, n, new)[n] = new
          /\ \A m \in n + 1 .. Len(next_t) + 1 : InsertAt(next_t, n, new)[m] = next_t[m - 1]
      <4>1. n \in 1 .. Len(next_t) + 1 /\ new \in SetTimers
        BY <2>2, <2>3
      <4> QED
        BY <3>1, <4>1, InsertedAt
    <3>3. next_t' = InsertAt(next_t, n, new)
      BY <2>1
    <3> QED
      BY <3>2, <3>3, Zenon
  <2>6. Gone' = Gone /\ Gone < n
    <3>1. Gone' = Gone
      BY <2>1 DEF Gone
    <3>2. ASSUME firing # Resting, n <= Gone PROVE FALSE
      <4>1. n \in 1 .. Len(next_t) /\ next_t[n].due <= ticker /\ next_t[n].due >= due
        BY <1>0, <2>2, <3>2 DEF TimersSafe, CallOrder
      <4>2. due \in Int /\ due > ticker
        BY <2>1, <3>2
      <4> QED
        BY <1>0, <4>1, <4>2
    <3>3. firing = Resting => Gone = 0
      BY DEF Gone
    <3> QED
      BY <1>0, <2>2, <3>1, <3>2, <3>3
  <2>7. \A m \in 1 .. Len(next_t') :
          \/ m < n /\ m \in 1 .. Len(next_t) /\ next_t'[m] = next_t[m]
          \/ m = n /\ next_t'[m].id = a /\ next_t'[m].due = due
          \/ m > n /\ m - 1 \in 1 .. Len(next_t) /\ next_t'[m] = next_t[m - 1]
    <3> SUFFICES ASSUME NEW m \in 1 .. Len(next_t) + 1
                 PROVE  \/ m < n /\ m \in 1 .. Len(next_t) /\ next_t'[m] = next_t[m]
                        \/ m = n /\ next_t'[m].id = a /\ next_t'[m].due = due
                        \/ m > n /\ m - 1 \in 1 .. Len(next_t) /\ next_t'[m] = next_t[m - 1]
      BY <2>5
    <3>1. CASE m < n
      BY <1>0, <2>2, <2>5, <3>1
    <3>2. CASE m = n
      BY <2>3, <2>5, <3>2
    <3>3. CASE m > n
      BY <1>0, <2>2, <2>5, <3>3
    <3> QED
      BY <1>0, <2>2, <3>1, <3>2, <3>3
  <2>8. TimerTypes'
    BY <1>0, <2>1, <2>5, <2>6 DEF TimersSafe, TimerTypes, Resting
  <2>9. NamesOnce'
    <3>1. ASSUME NEW m \in 1 .. Len(next_t'), NEW k \in 1 .. Len(next_t'), next_t'[m].id = next_t'[k].id
          PROVE  m = k
      <4>1. ASSUME NEW i \in 1 .. Len(next_t), NEW j \in 1 .. Len(next_t), next_t[i].id = next_t[j].id PROVE i = j
        BY <4>1 DEF TimersSafe, NamesOnce
      <4>2. n \in Int /\ m \in Int /\ k \in Int
        BY <2>2
      <4>3. CASE m < n /\ m \in 1 .. Len(next_t) /\ next_t'[m] = next_t[m]
        <5>1. k # n
          BY <2>4, <2>7, <3>1, <4>3
        <5>2. CASE k < n /\ k \in 1 .. Len(next_t) /\ next_t'[k] = next_t[k]
          BY <3>1, <4>1, <4>3, <5>2
        <5>3. CASE k > n /\ k - 1 \in 1 .. Len(next_t) /\ next_t'[k] = next_t[k - 1]
          BY <3>1, <4>1, <4>2, <4>3, <5>3
        <5> QED
          BY <2>7, <5>1, <5>2, <5>3
      <4>4. CASE m = n /\ next_t'[m].id = a
        BY <2>4, <2>7, <3>1, <4>4
      <4>5. CASE m > n /\ m - 1 \in 1 .. Len(next_t) /\ next_t'[m] = next_t[m - 1]
        <5>1. k # n
          BY <2>4, <2>7, <3>1, <4>5
        <5>2. CASE k < n /\ k \in 1 .. Len(next_t) /\ next_t'[k] = next_t[k]
          BY <3>1, <4>1, <4>2, <4>5, <5>2
        <5>3. CASE k > n /\ k - 1 \in 1 .. Len(next_t) /\ next_t'[k] = next_t[k - 1]
          BY <3>1, <4>1, <4>2, <4>5, <5>3
        <5> QED
          BY <2>7, <5>1, <5>2, <5>3
      <4> QED
        BY <2>7, <4>3, <4>4, <4>5
    <3>2. ASSUME NEW m \in 1 .. Len(next_t'), NEW k \in 1 .. Len(fired), m > Gone
          PROVE  next_t'[m].id # fired[k].id
      <4>1. CASE m < n /\ m \in 1 .. Len(next_t) /\ next_t'[m] = next_t[m]
        BY <3>2, <4>1 DEF TimersSafe, NamesOnce
      <4>2. CASE m = n /\ next_t'[m].id = a
        BY <2>4, <4>2
      <4>3. CASE m > n /\ m - 1 \in 1 .. Len(next_t) /\ next_t'[m] = next_t[m - 1]
        <5>1. m - 1 > Gone
          BY <1>0, <2>2, <2>6, <3>2, <4>3
        <5> QED
          BY <4>3, <5>1 DEF TimersSafe, NamesOnce
      <4> QED
        BY <2>7, <4>1, <4>2, <4>3
    <3> QED
      BY <2>1, <2>6, <3>1, <3>2 DEF TimersSafe, NamesOnce
  <2>10. CallOrder'
    <3>1. \A m \in 1 .. Len(next_t) : m >= n => next_t[m].due >= due
      BY <1>0, <2>2 DEF TimersSafe, CallOrder
    <3>2. ASSUME NEW m \in 1 .. Len(next_t'), NEW k \in 1 .. Len(next_t'), m < k
          PROVE  next_t'[m].due <= next_t'[k].due
      <4>0. /\ n \in Int /\ m \in Int /\ k \in Int /\ due \in Int
            /\ \A i \in 1 .. Len(next_t) : (i < n => next_t[i].due < due) /\ next_t[i].due \in Int
        BY <1>0, <2>2
      <4>1. CASE m < n /\ m \in 1 .. Len(next_t) /\ next_t'[m] = next_t[m]
        <5>1. next_t[m].due < due
          BY <4>0, <4>1
        <5>2. CASE k < n /\ k \in 1 .. Len(next_t) /\ next_t'[k] = next_t[k]
          BY <3>2, <4>1, <5>2 DEF TimersSafe, CallOrder
        <5>3. CASE k = n /\ next_t'[k].due = due
          BY <4>0, <4>1, <5>1, <5>3
        <5>4. CASE k > n /\ k - 1 \in 1 .. Len(next_t) /\ next_t'[k] = next_t[k - 1]
          <6>1. m < k - 1 \/ m = k - 1
            BY <3>2, <4>0
          <6> QED
            BY <4>0, <4>1, <5>4, <6>1 DEF TimersSafe, CallOrder
        <5> QED
          BY <2>7, <5>2, <5>3, <5>4
      <4>2. CASE m = n /\ next_t'[m].due = due
        <5>1. k > n /\ k - 1 \in 1 .. Len(next_t) /\ next_t'[k] = next_t[k - 1] /\ k - 1 >= n
          BY <2>7, <3>2, <4>0, <4>2
        <5> QED
          BY <3>1, <4>2, <5>1
      <4>3. CASE m > n /\ m - 1 \in 1 .. Len(next_t) /\ next_t'[m] = next_t[m - 1]
        <5>1. k > n /\ k - 1 \in 1 .. Len(next_t) /\ next_t'[k] = next_t[k - 1] /\ m - 1 < k - 1
          BY <2>7, <3>2, <4>0, <4>3
        <5> QED
          BY <4>3, <5>1 DEF TimersSafe, CallOrder
      <4> QED
        BY <2>7, <4>1, <4>2, <4>3
    <3>3. ASSUME NEW m \in 1 .. Len(next_t'), m <= Gone PROVE next_t'[m].due <= ticker
      <4>1. m < n
        BY <1>0, <2>2, <2>6, <3>3
      <4>2. m \in 1 .. Len(next_t) /\ next_t'[m] = next_t[m]
        BY <2>2, <2>7, <4>1
      <4> QED
        BY <3>3, <4>2 DEF TimersSafe, CallOrder
    <3>4. ASSUME firing # Resting, NEW m \in 1 .. Len(next_t'), NEW k \in 1 .. Len(fired),
                 m > Gone, fired[k].at = ticker
          PROVE  fired[k].due <= next_t'[m].due
      <4>1. fired[k].due <= ticker
        BY <3>4 DEF TimersSafe, CallOrder
      <4>2. CASE m < n /\ m \in 1 .. Len(next_t) /\ next_t'[m] = next_t[m]
        BY <3>4, <4>2 DEF TimersSafe, CallOrder
      <4>3. CASE m = n /\ next_t'[m].due = due
        <5>1. due \in Int /\ due > ticker
          BY <2>1, <3>4
        <5> QED
          BY <1>0, <4>1, <4>3, <5>1
      <4>4. CASE m > n /\ m - 1 \in 1 .. Len(next_t) /\ next_t'[m] = next_t[m - 1]
        <5>1. m - 1 > Gone
          BY <1>0, <2>2, <2>6, <3>4, <4>4
        <5> QED
          BY <3>4, <4>4, <5>1 DEF TimersSafe, CallOrder
      <4> QED
        BY <2>7, <4>2, <4>3, <4>4
    <3> QED
      BY <2>1, <2>6, <3>2, <3>3, <3>4 DEF TimersSafe, CallOrder
  <2> QED
    BY <2>8, <2>9, <2>10 DEF TimersSafe
<1>2. CASE NextTick
  <2>1. /\ firing = Resting /\ ticker' = ticker + 1 /\ firing' = 0
        /\ UNCHANGED <<next_t, used_timers, fired>>
    BY <1>2 DEF NextTick
  <2>2. Gone = 0 /\ Gone' = 0
    BY <2>1 DEF Gone, Resting
  <2>3. \A n \in 1 .. Len(fired) : fired[n].at <= ticker
    BY DEF TimersSafe, CallOrder
  <2>4. TimerTypes'
    BY <1>0, <2>1, <2>2 DEF TimersSafe, TimerTypes
  <2>5. NamesOnce'
    BY <1>0, <2>1, <2>2 DEF TimersSafe, NamesOnce
  <2>6. \A m \in 1 .. Len(fired) : fired[m].at # ticker + 1
    BY <1>0, <2>3
  <2>7. CallOrder'
    BY <1>0, <2>1, <2>2, <2>3, <2>6 DEF TimersSafe, CallOrder
  <2> QED
    BY <2>4, <2>5, <2>7 DEF TimersSafe
<1>3. CASE Fire
  <2> DEFINE k == firing + 1
             new == [id |-> next_t[k].id, due |-> next_t[k].due, at |-> ticker]
  <2>1. /\ firing # Resting /\ firing < Len(next_t) /\ next_t[k].due <= ticker
        /\ fired' = Append(fired, new) /\ firing' = k /\ used_timers' = used_timers - 1
        /\ UNCHANGED <<next_t, ticker>>
    BY <1>3 DEF Fire
  <2>2. Gone = firing /\ Gone' = k /\ firing \in Nat /\ k \in 1 .. Len(next_t)
    BY <1>0, <2>1 DEF Gone, Resting
  <2>3. new \in Calls /\ new.id = next_t[k].id /\ new.due = next_t[k].due /\ new.at = ticker
    BY <1>0, <2>2 DEF Calls, SetTimers
  <2> HIDE DEF k, new
  <2>4. /\ fired' \in Seq(Calls) /\ Len(fired') = Len(fired) + 1 /\ fired'[Len(fired) + 1] = new
        /\ \A n \in 1 .. Len(fired) : fired'[n] = fired[n]
    BY <2>1, <2>3 DEF TimersSafe, TimerTypes
  <2>5. \A n \in 1 .. Len(fired') :
          \/ n \in 1 .. Len(fired) /\ fired'[n] = fired[n]
          \/ n = Len(fired) + 1 /\ fired'[n].id = next_t[k].id /\ fired'[n].due = next_t[k].due /\ fired'[n].at = ticker
    BY <1>0, <2>3, <2>4
  <2>6. k = Gone + 1
    BY <2>2 DEF k
  <2>7. TimerTypes'
    BY <1>0, <2>1, <2>2, <2>4, SMTT(30) DEF TimersSafe, TimerTypes, k
  <2>8. NamesOnce'
    <3>0. /\ k \in 1 .. Len(next_t) /\ k > Gone
          /\ \A n \in 1 .. Len(fired) : next_t[k].id # fired[n].id
          /\ \A m, n \in 1 .. Len(fired) : fired[m].id = fired[n].id => m = n
      <4>1. k \in 1 .. Len(next_t) /\ k > Gone
        BY <1>0, <2>2, <2>6
      <4> QED
        BY <4>1 DEF TimersSafe, NamesOnce
    <3>1. \A m, n \in 1 .. Len(fired') : fired'[m].id = fired'[n].id => m = n
      BY <2>5, <3>0
    <3>2. ASSUME NEW m \in 1 .. Len(next_t), NEW n \in 1 .. Len(fired'), m > k
          PROVE  next_t[m].id # fired'[n].id
      <4>1. m > Gone /\ k \in 1 .. Len(next_t) /\ k > Gone /\ m # k
        BY <2>2, <2>6, <3>0, <3>2
      <4>2. CASE n \in 1 .. Len(fired) /\ fired'[n] = fired[n]
        BY <4>1, <4>2 DEF TimersSafe, NamesOnce
      <4>3. CASE fired'[n].id = next_t[k].id
        BY <4>1, <4>3 DEF TimersSafe, NamesOnce
      <4> QED
        BY <2>5, <4>2, <4>3
    <3> QED
      BY <2>1, <2>2, <3>1, <3>2 DEF TimersSafe, NamesOnce
  <2>9. CallOrder'
    <3>1. \A m \in 1 .. Len(next_t) : m <= k => next_t[m].due <= ticker
      BY <1>0, <2>1, <2>2, <2>6 DEF TimersSafe, CallOrder
    <3>2. \A n \in 1 .. Len(fired') : fired'[n].due <= fired'[n].at /\ fired'[n].at <= ticker
      BY <1>0, <2>1, <2>5 DEF TimersSafe, CallOrder
    <3>3. ASSUME NEW m \in 1 .. Len(fired'), NEW n \in 1 .. Len(fired'), m < n, fired'[m].at = fired'[n].at
          PROVE  fired'[m].due <= fired'[n].due
      <4>1. m \in 1 .. Len(fired) /\ fired'[m] = fired[m]
        BY <1>0, <2>4, <3>3
      <4>2. CASE n \in 1 .. Len(fired) /\ fired'[n] = fired[n]
        BY <3>3, <4>1, <4>2 DEF TimersSafe, CallOrder
      <4>3. CASE fired'[n].due = next_t[k].due /\ fired'[n].at = ticker
        BY <1>0, <2>1, <2>2, <2>6, <3>3, <4>1, <4>3 DEF TimersSafe, CallOrder
      <4> QED
        BY <2>5, <4>2, <4>3
    <3>4. ASSUME NEW m \in 1 .. Len(next_t), NEW n \in 1 .. Len(fired'), m > k, fired'[n].at = ticker
          PROVE  fired'[n].due <= next_t[m].due
      <4>1. CASE n \in 1 .. Len(fired) /\ fired'[n] = fired[n]
        BY <1>0, <2>1, <2>6, <3>4, <4>1 DEF TimersSafe, CallOrder
      <4>2. CASE fired'[n].due = next_t[k].due
        BY <1>0, <2>2, <3>4, <4>2 DEF TimersSafe, CallOrder
      <4> QED
        BY <2>5, <4>1, <4>2
    <3> QED
      BY <2>1, <2>2, <3>1, <3>2, <3>3, <3>4 DEF TimersSafe, CallOrder
  <2> QED
    BY <2>7, <2>8, <2>9 DEF TimersSafe
<1>4. CASE TickDone
  <2>1. /\ firing # Resting /\ (firing < Len(next_t) => next_t[firing + 1].due > ticker)
        /\ next_t' = SubSeq(next_t, firing + 1, Len(next_t)) /\ firing' = Resting
        /\ UNCHANGED <<used_timers, ticker, fired>>
    BY <1>4 DEF TickDone
  <2>2. Gone = firing /\ Gone' = 0 /\ firing \in 0 .. Len(next_t)
    BY <2>1 DEF Gone, TimersSafe, TimerTypes
  <2>3. /\ next_t' \in Seq(SetTimers) /\ Len(next_t') = Len(next_t) - firing
        /\ \A n \in 1 .. Len(next_t) - firing : next_t'[n] = next_t[n + firing]
    BY <2>1, <2>2 DEF TimersSafe, TimerTypes
  <2>4. \A n \in 1 .. Len(next_t') : n + firing \in 1 .. Len(next_t) /\ next_t'[n] = next_t[n + firing] /\ n + firing > Gone
    BY <1>0, <2>2, <2>3
  <2>5. TimerTypes'
    BY <1>0, <2>1, <2>2, <2>3, SMTT(30) DEF TimersSafe, TimerTypes
  <2>6. NamesOnce'
    <3>1. \A m, n \in 1 .. Len(next_t') : next_t'[m].id = next_t'[n].id => m = n
      <4> SUFFICES ASSUME NEW m \in 1 .. Len(next_t'), NEW n \in 1 .. Len(next_t'), next_t'[m].id = next_t'[n].id
                   PROVE  m = n
        OBVIOUS
      <4>1. m + firing \in 1 .. Len(next_t) /\ n + firing \in 1 .. Len(next_t) /\ next_t[m + firing].id = next_t[n + firing].id
        BY <2>4
      <4>2. m + firing = n + firing
        BY <4>1 DEF TimersSafe, NamesOnce
      <4>3. m \in Int /\ n \in Int /\ firing \in Int
        BY <2>2
      <4> QED
        BY <4>2, <4>3
    <3>2. \A m, n \in 1 .. Len(fired') : fired'[m].id = fired'[n].id => m = n
      BY <2>1 DEF TimersSafe, NamesOnce
    <3>3. ASSUME NEW m \in 1 .. Len(next_t'), NEW n \in 1 .. Len(fired') PROVE next_t'[m].id # fired'[n].id
      <4>1. m + firing \in 1 .. Len(next_t) /\ m + firing > Gone /\ next_t'[m] = next_t[m + firing]
        BY <2>4
      <4>2. n \in 1 .. Len(fired) /\ fired'[n] = fired[n]
        BY <2>1
      <4>3. next_t[m + firing].id # fired[n].id
        BY <4>1, <4>2 DEF TimersSafe, NamesOnce
      <4> QED
        BY <4>1, <4>2, <4>3
    <3> QED
      BY <3>1, <3>2, <3>3 DEF NamesOnce
  <2>7. CallOrder'
    BY <1>0, <2>1, <2>2, <2>4 DEF TimersSafe, CallOrder
  <2> QED
    BY <2>5, <2>6, <2>7 DEF TimersSafe
<1>5. CASE UNCHANGED timerVars
  BY <1>5 DEF timerVars, TimersSafe, TimerTypes, NamesOnce, CallOrder, Gone
<1> QED
  BY <1>1, <1>2, <1>3, <1>4, <1>5 DEF TimersNext

(* Timers are called once, when they are due, in order of their ticks. *)
THEOREM TimersAlwaysKeep == TimersSpec => []TimersKeep
<1>1. TimersInit => TimersSafe
  BY TimersAssumption DEF TimersInit, TimersSafe, TimerTypes, NamesOnce, CallOrder, Gone, Resting
<1>2. TimersSafe => TimersKeep
  <2> SUFFICES ASSUME TimersSafe PROVE TimersKeep
    OBVIOUS
  <2>1. DOMAIN fired = 1 .. Len(fired) /\ DOMAIN next_t = 1 .. Len(next_t)
    BY DEF TimersSafe, TimerTypes
  <2>2. IsInjective([n \in DOMAIN fired |-> fired[n].id])
    BY <2>1 DEF IsInjective, TimersSafe, NamesOnce
  <2>3. ASSUME firing = Resting, NEW n \in DOMAIN next_t
        PROVE  next_t[n].id \notin {f.id : f \in ToSet(fired)}
    BY <2>1, <2>3 DEF ToSet, TimersSafe, TimerTypes, NamesOnce, Gone
  <2>4. firing = Resting => used_timers = Len(next_t)
    BY DEF TimersSafe, TimerTypes, Gone
  <2>5. \A n \in DOMAIN fired : fired[n].due <= fired[n].at
    BY <2>1 DEF TimersSafe, CallOrder
  <2>6. \A n \in DOMAIN fired : \A m \in DOMAIN fired :
          n < m /\ fired[n].at = fired[m].at => fired[n].due <= fired[m].due
    BY <2>1 DEF TimersSafe, CallOrder
  <2> QED
    BY <2>2, <2>3, <2>4, <2>5, <2>6 DEF TimersKeep
<1> QED
  BY <1>1, <1>2, TimersStep, PTL DEF TimersSpec

-----------------------------------------------------------------------------
(* The output buffers: what is in a ring, and in which order.               *)

\* How far place i is ahead of place o in a ring of N bytes.
Ahead(i, o, N) == IF i >= o THEN i - o ELSE i - o + N

\* A remainder, for what runs past the end of a ring at most once.
LEMMA Wraps ==
    ASSUME NEW N \in Nat \ {0}, NEW a \in Nat
    PROVE  /\ a < N => a % N = a
           /\ N <= a /\ a < 2 * N => a % N = a - N
<1>1. ASSUME a < N PROVE a % N = a
  BY <1>1
<1>2. ASSUME N <= a, a < 2 * N PROVE a % N = a - N
  BY <1>2
<1> QED
  BY <1>1, <1>2

\* The distance as the code computes it.
LEMMA AheadIsRemainder ==
    ASSUME NEW N \in Nat \ {0}, NEW i \in 0 .. N - 1, NEW o \in 0 .. N - 1
    PROVE  (i - o + N) % N = Ahead(i, o, N) /\ Ahead(i, o, N) \in 0 .. N - 1
<1> DEFINE a == i - o + N
<1>1. a \in Nat /\ a < 2 * N /\ (i >= o => N <= a /\ a - N = i - o) /\ (~(i >= o) => a < N)
  OBVIOUS
<1> HIDE DEF a
<1>2. a % N = Ahead(i, o, N)
  <2>1. CASE i >= o
    BY <1>1, <2>1, Wraps DEF Ahead
  <2>2. CASE ~(i >= o)
    <3>1. a % N = a
      BY <1>1, <2>2, Wraps
    <3> QED
      BY <2>2, <3>1 DEF Ahead, a
  <2> QED
    BY <2>1, <2>2
<1>3. Ahead(i, o, N) \in 0 .. N - 1
  BY DEF Ahead
<1> QED
  BY <1>2, <1>3 DEF a

\* Bytes are put into a ring at i: those that were in it stay as far ahead as they were,
\* the new ones follow.
LEMMA RingPut ==
    ASSUME NEW N \in Nat \ {0}, NEW i \in 0 .. N - 1, NEW o \in 0 .. N - 1, NEW size \in Nat, size < N - Ahead(i, o, N)
    PROVE  /\ (i + size) % N \in 0 .. N - 1
           /\ Ahead((i + size) % N, o, N) = Ahead(i, o, N) + size
           /\ \A n \in 0 .. N - 1 :
                 /\ Ahead(n, i, N) < size =>
                       Ahead(n, o, N) = Ahead(i, o, N) + Ahead(n, i, N)
                 /\ Ahead(n, o, N) < Ahead(i, o, N) + size =>
                       Ahead(n, o, N) < Ahead(i, o, N) \/ Ahead(n, i, N) < size
<1> DEFINE a == i + size
<1>1. a \in Nat /\ a < 2 * N /\ size < N
  BY DEF Ahead
<1>2. /\ a < N => a % N = a
      /\ N <= a => a % N = a - N
  <2> HIDE DEF a
  <2> QED
    BY <1>1, Wraps
<1>3. a % N \in 0 .. N - 1 /\ Ahead(a % N, o, N) = Ahead(i, o, N) + size
  <2>1. CASE a < N
    BY <1>2, <2>1 DEF Ahead
  <2>2. CASE N <= a
    BY <1>2, <2>2 DEF Ahead
  <2> QED
    BY <1>1, <2>1, <2>2
<1>4. ASSUME NEW n \in 0 .. N - 1
      PROVE  /\ Ahead(n, i, N) < size => Ahead(n, o, N) = Ahead(i, o, N) + Ahead(n, i, N)
             /\ Ahead(n, o, N) < Ahead(i, o, N) + size => Ahead(n, o, N) < Ahead(i, o, N) \/ Ahead(n, i, N) < size
  BY DEF Ahead
<1> QED
  BY <1>3, <1>4

\* Bytes are taken from a ring at o.
LEMMA RingTake ==
    ASSUME NEW N \in Nat \ {0}, NEW i \in 0 .. N - 1, NEW o \in 0 .. N - 1, NEW taken \in Nat, taken <= Ahead(i, o, N)
    PROVE  /\ (o + taken) % N \in 0 .. N - 1
           /\ Ahead(i, (o + taken) % N, N) = Ahead(i, o, N) - taken
           /\ \A n \in 0 .. N - 1 :
                 LET p == (o + taken) % N IN
                 Ahead(n, p, N) < Ahead(i, p, N) =>
                       /\ Ahead(n, o, N) = Ahead(n, p, N) + taken
                       /\ Ahead(n, o, N) < Ahead(i, o, N)
<1> DEFINE a == o + taken
<1>1. a \in Nat /\ a < 2 * N /\ taken < N
  BY DEF Ahead
<1>2. /\ a < N => a % N = a
      /\ N <= a => a % N = a - N
  <2> HIDE DEF a
  <2> QED
    BY <1>1, Wraps
<1>3. PICK p \in 0 .. N - 1 : p = a % N /\ p = IF a < N THEN a ELSE a - N
  <2>1. CASE a < N
    BY <1>1, <1>2, <2>1
  <2>2. CASE N <= a
    BY <1>1, <1>2, <2>2
  <2> QED
    BY <1>1, <2>1, <2>2
<1>4. Ahead(i, p, N) = Ahead(i, o, N) - taken
  BY <1>1, <1>3 DEF Ahead
<1>5. ASSUME NEW n \in 0 .. N - 1, Ahead(n, p, N) < Ahead(i, p, N)
      PROVE  Ahead(n, o, N) = Ahead(n, p, N) + taken /\ Ahead(n, o, N) < Ahead(i, o, N)
  BY <1>1, <1>3, <1>5 DEF Ahead
<1> QED
  BY <1>3, <1>4, <1>5

PlayerTypes ==
    /\ obuf \in [0 .. OBUFSIZE - 1 -> Nat]
    /\ iptr \in 0 .. OBUFSIZE - 1 /\ optr \in 0 .. OBUFSIZE - 1
    /\ online \in BOOLEAN /\ put \in Nat /\ got \in Seq(Nat)

\* What waits for a player follows what he got, up to what was put in.
RingSafe == online =>
    /\ Len(got) + Ahead(iptr, optr, OBUFSIZE) = put
    /\ \A n \in 0 .. OBUFSIZE - 1 : Ahead(n, optr, OBUFSIZE) < Ahead(iptr, optr, OBUFSIZE) =>
          obuf[n] = Len(got) + 1 + Ahead(n, optr, OBUFSIZE)

PlayerLinkSafe == PlayerTypes /\ InOrder(got, 0) /\ RingSafe

\* What is received in order and followed by what comes next is in order.
LEMMA InOrderJoined ==
    ASSUME NEW s \in Seq(Nat), NEW more \in Seq(Nat), NEW from \in Nat, InOrder(s, from),
           \A m \in 1 .. Len(more) : more[m] = from + Len(s) + m
    PROVE  InOrder(s \o more, from) /\ s \o more \in Seq(Nat) /\ Len(s \o more) = Len(s) + Len(more)
<1>1. s \o more \in Seq(Nat) /\ Len(s \o more) = Len(s) + Len(more) /\ Len(s) \in Nat /\ Len(more) \in Nat
  OBVIOUS
<1>2. ASSUME NEW n \in DOMAIN (s \o more) PROVE (s \o more)[n] = from + n
  <2>1. n \in 1 .. Len(s) + Len(more)
    BY <1>1
  <2>2. CASE n <= Len(s)
    <3>1. n \in DOMAIN s /\ (s \o more)[n] = s[n]
      BY <1>1, <2>1, <2>2
    <3> QED
      BY <3>1 DEF InOrder
  <2>3. CASE n > Len(s)
    <3>1. n - Len(s) \in 1 .. Len(more) /\ (s \o more)[n] = more[n - Len(s)]
      BY <1>1, <2>1, <2>3
    <3>2. more[n - Len(s)] = from + Len(s) + (n - Len(s))
      BY <3>1
    <3> QED
      BY <1>1, <2>1, <3>1, <3>2
  <2> QED
    BY <1>1, <2>1, <2>2, <2>3
<1> QED
  BY <1>1, <1>2 DEF InOrder

\* csend: what does not fit is cut off, and so is the player.
LEMMA CsendSafe ==
    ASSUME PlayerLinkSafe, NEW len \in 1 .. MaxMessage, csend(len)
    PROVE  PlayerLinkSafe'
<1> DEFINE N == OBUFSIZE
<1>0. N \in Nat \ {0} /\ len \in Nat \ {0}
  BY LinksAssumption
<1>1. PICK size : size = Piece(len)
  OBVIOUS
<1>2. /\ online /\ obuf' = [n \in DOMAIN obuf |-> IF n >= iptr /\ n < iptr + size THEN put + 1 + n - iptr ELSE obuf[n]]
      /\ iptr' = (iptr + size) % N /\ put' = put + size /\ online' = (iptr' # optr) /\ optr' = optr /\ got' = got
  BY <1>1 DEF csend, Overflow
<1>3. /\ obuf \in [0 .. N - 1 -> Nat] /\ iptr \in 0 .. N - 1 /\ optr \in 0 .. N - 1 /\ put \in Nat
      /\ got \in Seq(Nat) /\ Len(got) \in Nat
  BY DEF PlayerLinkSafe, PlayerTypes
<1> HIDE DEF N
<1>4. size \in Nat \ {0} /\ size <= N - iptr /\ size <= N - Ahead(iptr, optr, N)
  BY <1>0, <1>1, <1>3 DEF Piece, Ahead, N
<1>5. size = N - Ahead(iptr, optr, N) => iptr' = optr
  <2> SUFFICES ASSUME size = N - Ahead(iptr, optr, N) PROVE (iptr + size) % N = optr
    BY <1>2
  <2> DEFINE a == iptr + size
  <2>1. a \in Nat /\ ((a = N /\ optr = 0) \/ (a < N /\ a = optr))
    BY <1>0, <1>3, <1>4 DEF Ahead
  <2> HIDE DEF a
  <2>2. a % N = optr
    <3>1. CASE a = N /\ optr = 0
      <4>1. a % N = a - N
        BY <1>0, <2>1, <3>1, Wraps
      <4> QED
        BY <1>0, <3>1, <4>1
    <3>2. CASE a < N /\ a = optr
      BY <1>0, <2>1, <3>2, Wraps
    <3> QED
      BY <2>1, <3>1, <3>2
  <2> QED
    BY <2>2 DEF a
<1>6. iptr' \in 0 .. N - 1
  <2> DEFINE a == iptr + size
  <2>1. a \in Nat /\ (a = N \/ a < N)
    BY <1>0, <1>3, <1>4
  <2> HIDE DEF a
  <2>2. a % N \in 0 .. N - 1
    BY <1>0, <2>1, Wraps
  <2> QED
    BY <1>2, <2>2 DEF a
<1>7. obuf' \in [0 .. N - 1 -> Nat]
  <2>1. ASSUME NEW n \in 0 .. N - 1, n >= iptr PROVE put + 1 + n - iptr \in Nat
    BY <1>0, <1>3, <2>1
  <2> QED
    BY <1>2, <1>3, <2>1
<1>8. RingSafe'
  <2> SUFFICES ASSUME online' PROVE /\ Len(got) + Ahead(iptr', optr, N) = put'
                                    /\ \A n \in 0 .. N - 1 : Ahead(n, optr, N) < Ahead(iptr', optr, N) =>
                                          obuf'[n] = Len(got) + 1 + Ahead(n, optr, N)
    BY <1>2 DEF RingSafe, N
  <2>1. size < N - Ahead(iptr, optr, N)
    <3>1. size # N - Ahead(iptr, optr, N)
      BY <1>2, <1>5
    <3>2. N - Ahead(iptr, optr, N) \in Int
      BY <1>0, <1>3 DEF Ahead
    <3> QED
      BY <1>4, <3>1, <3>2
  <2>2. Ahead(iptr', optr, N) = Ahead(iptr, optr, N) + size
    BY <1>0, <1>2, <1>3, <1>4, <2>1, RingPut
  <2>3. Len(got) + Ahead(iptr, optr, N) = put
    BY <1>2 DEF PlayerLinkSafe, RingSafe, N
  <2>4. ASSUME NEW n \in 0 .. N - 1, Ahead(n, optr, N) < Ahead(iptr', optr, N)
        PROVE  obuf'[n] = Len(got) + 1 + Ahead(n, optr, N)
    <3>1. n >= iptr /\ n < iptr + size <=> Ahead(n, iptr, N) < size
      BY <1>0, <1>3, <1>4 DEF Ahead
    <3>2. CASE Ahead(n, iptr, N) < size
      <4>1. obuf'[n] = put + 1 + n - iptr /\ n - iptr = Ahead(n, iptr, N)
        BY <1>2, <1>3, <3>1, <3>2 DEF Ahead
      <4>2. Ahead(n, optr, N) = Ahead(iptr, optr, N) + Ahead(n, iptr, N)
        BY <1>0, <1>3, <1>4, <2>1, <3>2, RingPut
      <4>3. Ahead(iptr, optr, N) \in Int /\ n - iptr \in Int /\ Len(got) \in Int
        BY <1>0, <1>3 DEF Ahead
      <4>4. put + 1 + n - iptr = put + 1 + (n - iptr)
        BY <1>3
      <4> QED
        BY <2>3, <4>1, <4>2, <4>3, <4>4
    <3>3. CASE ~(Ahead(n, iptr, N) < size)
      <4>1. Ahead(n, optr, N) < Ahead(iptr, optr, N)
        BY <1>0, <1>3, <1>4, <2>1, <2>2, <2>4, <3>3, RingPut
      <4>2. obuf[n] = Len(got) + 1 + Ahead(n, optr, N)
        BY <1>2, <4>1 DEF PlayerLinkSafe, RingSafe, N
      <4> QED
        BY <1>2, <1>3, <3>1, <3>3, <4>2
    <3> QED
      BY <3>2, <3>3
  <2>5. Ahead(iptr, optr, N) \in Int
    BY <1>0, <1>3 DEF Ahead
  <2>6. Len(got) + Ahead(iptr', optr, N) = put'
    <3>1. Len(got) \in Int /\ put' = put + size
      BY <1>2, <1>3
    <3> QED
      BY <1>4, <2>2, <2>3, <2>5, <3>1
  <2> QED
    BY <2>4, <2>6
<1>9. PlayerTypes'
  BY <1>2, <1>3, <1>4, <1>6, <1>7 DEF PlayerTypes, N
<1> QED
  BY <1>2, <1>8, <1>9 DEF PlayerLinkSafe, InOrder

\* send_player: what is taken follows what he got.
LEMMA SendSafe ==
    ASSUME PlayerLinkSafe, NEW taken \in 1 .. MaxBytes, send_player(taken)
    PROVE  PlayerLinkSafe'
<1> DEFINE N == OBUFSIZE
<1>0. N \in Nat \ {0} /\ taken \in Nat \ {0}
  BY LinksAssumption
<1>1. PICK more : more = [n \in 1 .. taken |-> obuf[optr + n - 1]]
  OBVIOUS
<1>2. /\ online /\ iptr # optr /\ got' = got \o more /\ optr' = (optr + taken) % N
      /\ taken <= (IF iptr < optr THEN N - optr ELSE iptr - optr)
      /\ obuf' = obuf /\ iptr' = iptr /\ put' = put /\ online' = online
  BY <1>1 DEF send_player
<1>3. /\ obuf \in [0 .. N - 1 -> Nat] /\ iptr \in 0 .. N - 1 /\ optr \in 0 .. N - 1 /\ put \in Nat
      /\ got \in Seq(Nat) /\ Len(got) \in Nat
      /\ Len(got) + Ahead(iptr, optr, N) = put
      /\ \A n \in 0 .. N - 1 : Ahead(n, optr, N) < Ahead(iptr, optr, N) => obuf[n] = Len(got) + 1 + Ahead(n, optr, N)
  BY <1>2 DEF PlayerLinkSafe, PlayerTypes, RingSafe
<1> HIDE DEF N
<1>4. taken <= Ahead(iptr, optr, N) /\ optr + taken <= N
  BY <1>0, <1>2, <1>3 DEF Ahead
<1>5. ASSUME NEW m \in 1 .. taken PROVE more[m] = Len(got) + m /\ more[m] \in Nat
  <2>1. optr + m - 1 \in 0 .. N - 1 /\ Ahead(optr + m - 1, optr, N) = m - 1 /\ m - 1 < Ahead(iptr, optr, N)
    BY <1>0, <1>3, <1>4 DEF Ahead
  <2>2. more[m] = obuf[optr + m - 1]
    BY <1>1
  <2> QED
    BY <1>3, <2>1, <2>2
<1>6. more \in Seq(Nat) /\ Len(more) = taken
  BY <1>0, <1>1, <1>5
<1>7. InOrder(got', 0) /\ got' \in Seq(Nat) /\ Len(got') = Len(got) + taken
  <2>1. \A m \in 1 .. Len(more) : more[m] = 0 + Len(got) + m
    BY <1>3, <1>5, <1>6
  <2>2. InOrder(got, 0) /\ 0 \in Nat
    BY DEF PlayerLinkSafe
  <2> QED
    BY <1>2, <1>3, <1>6, <2>1, <2>2, InOrderJoined
<1>9. PICK p : p = optr'
  OBVIOUS
<1>10. /\ p \in 0 .. N - 1 /\ Ahead(iptr, p, N) = Ahead(iptr, optr, N) - taken
       /\ \A n \in 0 .. N - 1 : Ahead(n, p, N) < Ahead(iptr, p, N) =>
             Ahead(n, optr, N) = Ahead(n, p, N) + taken /\ Ahead(n, optr, N) < Ahead(iptr, optr, N)
  BY <1>0, <1>2, <1>3, <1>4, <1>9, RingTake
<1>11. Len(got') + Ahead(iptr, p, N) = put
  <2>1. Ahead(iptr, optr, N) \in Int
    BY <1>0, <1>3 DEF Ahead
  <2> QED
    BY <1>0, <1>3, <1>7, <1>10, <2>1
<1>12. ASSUME NEW n \in 0 .. N - 1, Ahead(n, p, N) < Ahead(iptr, p, N)
       PROVE  obuf[n] = Len(got') + 1 + Ahead(n, p, N)
  <2>1. Ahead(n, p, N) \in Int
    BY <1>0, <1>10 DEF Ahead
  <2> QED
    BY <1>0, <1>3, <1>7, <1>10, <1>12, <2>1
<1>13. RingSafe'
  BY <1>2, <1>9, <1>11, <1>12 DEF RingSafe, N
<1>14. PlayerTypes'
  BY <1>2, <1>3, <1>7, <1>9, <1>10 DEF PlayerTypes, PlayerLinkSafe, N
<1> QED
  BY <1>7, <1>13, <1>14 DEF PlayerLinkSafe, InOrder

\* The ring is empty at the start.
LEMMA PlayerLinkInit == LinksInit => PlayerLinkSafe
<1> SUFFICES ASSUME LinksInit PROVE PlayerLinkSafe
  OBVIOUS
<1>1. /\ obuf = [n \in 0 .. OBUFSIZE - 1 |-> 0] /\ iptr = 0 /\ optr = 0 /\ online = TRUE /\ put = 0 /\ got = <<>>
  BY DEF LinksInit
<1>2. PlayerTypes
  BY <1>1, LinksAssumption DEF PlayerTypes
<1>3. Ahead(0, 0, OBUFSIZE) = 0 /\ \A n \in 0 .. OBUFSIZE - 1 : ~(Ahead(n, 0, OBUFSIZE) < 0)
  BY LinksAssumption DEF Ahead
<1> QED
  BY <1>1, <1>2, <1>3 DEF PlayerLinkSafe, RingSafe, InOrder

\* Each step of the game loop or of the connection.
LEMMA PlayerLinkStep ==
    ASSUME PlayerLinkSafe, PlayerLinkNext \/ UNCHANGED playerLink
    PROVE  PlayerLinkSafe'
<1>1. CASE UNCHANGED playerLink
  BY <1>1 DEF playerLink, PlayerLinkSafe, PlayerTypes, RingSafe, InOrder
<1>2. CASE kick_player
  BY <1>2 DEF kick_player, PlayerLinkSafe, PlayerTypes, RingSafe, InOrder
<1> QED
  BY <1>1, <1>2, CsendSafe, SendSafe DEF PlayerLinkNext

Places == 0 .. OUTBUFSIZE - 1

ChatTypes ==
    /\ cbuf \in [Peers -> [Places -> Nat]]
    /\ cin \in [Peers -> Places] /\ cout \in [Peers -> Places]
    /\ sock \in [Peers -> BOOLEAN] /\ relayed \in Nat
    /\ heard \in [Peers -> Seq(Nat)] /\ since \in [Peers -> Nat]
    /\ fanout \in [to : Peers \cup {NoPeer}, bytes : Seq(Nat)]

\* The message that is being handed out is the last that came.
FanoutSafe ==
    /\ Len(fanout.bytes) <= relayed
    /\ \A k \in 1 .. Len(fanout.bytes) : fanout.bytes[k] = relayed - Len(fanout.bytes) + k
    /\ fanout.to = NoPeer => fanout = NoFanout

\* The bytes that p has still to be handed.
Pending(p) == IF fanout.to # NoPeer /\ p >= fanout.to THEN Len(fanout.bytes) ELSE 0

\* What waits for p follows what p heard, up to what p was handed.
PeerSafe(p) == sock[p] =>
    LET waits == Ahead(cin[p], cout[p], OUTBUFSIZE)
    IN /\ since[p] + Len(heard[p]) + waits + Pending(p) = relayed
       /\ \A n \in Places : Ahead(n, cout[p], OUTBUFSIZE) < waits =>
             cbuf[p][n] = since[p] + Len(heard[p]) + 1 + Ahead(n, cout[p], OUTBUFSIZE)

ChatLinksSafe ==
    /\ ChatTypes /\ FanoutSafe
    /\ \A p \in Peers : InOrder(heard[p], since[p]) /\ PeerSafe(p)

\* The types of what belongs to one connection.
LEMMA PeerTypes ==
    ASSUME ChatTypes, NEW p \in Peers
    PROVE  /\ cbuf[p] \in [Places -> Nat] /\ cin[p] \in Places /\ cout[p] \in Places /\ sock[p] \in BOOLEAN
           /\ heard[p] \in Seq(Nat) /\ Len(heard[p]) \in Nat /\ since[p] \in Nat
           /\ p \in Nat \ {0} /\ Len(fanout.bytes) \in Nat /\ relayed \in Nat
           /\ OUTBUFSIZE \in Nat \ {0}
           /\ Ahead(cin[p], cout[p], OUTBUFSIZE) \in Places
<1>1. /\ cbuf[p] \in [Places -> Nat] /\ cin[p] \in Places /\ cout[p] \in Places /\ sock[p] \in BOOLEAN
      /\ heard[p] \in Seq(Nat) /\ Len(heard[p]) \in Nat /\ since[p] \in Nat
      /\ fanout.bytes \in Seq(Nat) /\ relayed \in Nat
  BY DEF ChatTypes
<1>2. p \in Nat \ {0} /\ OUTBUFSIZE \in Nat \ {0}
  BY LinksAssumption
<1>3. Ahead(cin[p], cout[p], OUTBUFSIZE) \in Places
  <2>1. PICK i : i = cin[p]
    OBVIOUS
  <2>2. PICK o : o = cout[p]
    OBVIOUS
  <2>3. i \in 0 .. OUTBUFSIZE - 1 /\ o \in 0 .. OUTBUFSIZE - 1
    BY <1>1, <2>1, <2>2 DEF Places
  <2>4. Ahead(i, o, OUTBUFSIZE) \in 0 .. OUTBUFSIZE - 1
    BY <1>2, <2>3 DEF Ahead
  <2> QED
    BY <2>1, <2>2, <2>4 DEF Places
<1> QED
  BY <1>1, <1>2, <1>3

\* A connection that nothing is done to.
LEMMA PeerRests ==
    ASSUME NEW p \in Peers, PeerSafe(p), sock'[p] => sock[p], cbuf'[p] = cbuf[p], cin'[p] = cin[p], cout'[p] = cout[p],
           heard'[p] = heard[p], since'[p] = since[p],
           sock'[p] => Pending(p)' - relayed' = Pending(p) - relayed,
           ChatTypes, relayed' \in Nat, Pending(p)' \in Nat
    PROVE  PeerSafe(p)'
<1> SUFFICES ASSUME sock'[p] PROVE PeerSafe(p)'
  BY DEF PeerSafe
<1>1. Pending(p) \in Nat
  BY PeerTypes DEF Pending
<1>2. since[p] + Len(heard[p]) + Ahead(cin[p], cout[p], OUTBUFSIZE) + Pending(p) = relayed
  BY DEF PeerSafe
<1>3. since[p] + Len(heard[p]) + Ahead(cin[p], cout[p], OUTBUFSIZE) + Pending(p)' = relayed'
  <2>1. /\ since[p] \in Int /\ Len(heard[p]) \in Int /\ Ahead(cin[p], cout[p], OUTBUFSIZE) \in Int
        /\ relayed \in Int /\ relayed' \in Int /\ Pending(p)' \in Int
    <3>1. /\ since[p] \in Nat /\ Len(heard[p]) \in Nat /\ relayed \in Nat /\ OUTBUFSIZE \in Nat \ {0}
          /\ Ahead(cin[p], cout[p], OUTBUFSIZE) \in 0 .. OUTBUFSIZE - 1
      BY PeerTypes DEF Places
    <3> QED
      BY <3>1
  <2>2. Pending(p)' - relayed' = Pending(p) - relayed /\ Pending(p) \in Int
    BY <1>1
  <2>3. since[p] + Len(heard[p]) + Ahead(cin[p], cout[p], OUTBUFSIZE) \in Int
    BY <2>1
  <2>4. PICK a : a = since[p] + Len(heard[p]) + Ahead(cin[p], cout[p], OUTBUFSIZE)
    OBVIOUS
  <2>5. PICK x : x = Pending(p)
    OBVIOUS
  <2>6. PICK y : y = Pending(p)'
    OBVIOUS
  <2>7. a + x = relayed /\ a \in Int /\ x \in Int /\ y \in Int /\ y - relayed' = x - relayed /\ relayed \in Int /\ relayed' \in Int
    BY <1>2, <2>1, <2>2, <2>3, <2>4, <2>5, <2>6
  <2>8. a + y = relayed'
    BY <2>7
  <2> QED
    BY <2>4, <2>6, <2>8
<1> QED
  BY <1>3 DEF PeerSafe

\* Nothing waits on a connection that is new.
LEMMA NewChatSafe ==
    ASSUME ChatLinksSafe, NEW p \in Peers, new_chat(p)
    PROVE  ChatLinksSafe'
<1>1. /\ fanout = NoFanout /\ UNCHANGED <<cbuf, relayed, fanout>>
      /\ sock' = [sock EXCEPT ![p] = TRUE] /\ cin' = [cin EXCEPT ![p] = 0] /\ cout' = [cout EXCEPT ![p] = 0]
      /\ heard' = [heard EXCEPT ![p] = <<>>] /\ since' = [since EXCEPT ![p] = relayed]
  BY DEF new_chat
<1>2. ChatTypes /\ 0 \in Places /\ relayed \in Nat
  <2>1. ChatTypes
    BY DEF ChatLinksSafe
  <2>2. relayed \in Nat
    BY <2>1 DEF ChatTypes
  <2> QED
    BY <2>1, <2>2, LinksAssumption DEF Places
<1>3. ChatTypes'
  BY <1>1, <1>2 DEF ChatTypes
<1>4. FanoutSafe'
  BY <1>1 DEF ChatLinksSafe, FanoutSafe
<1>5. ASSUME NEW q \in Peers PROVE InOrder(heard[q], since[q])' /\ PeerSafe(q)'
  <2>0. \A r \in Peers : Pending(r) = 0 /\ Pending(r)' = 0
    BY <1>1 DEF Pending, NoFanout
  <2>1. CASE q = p
    <3>1. heard'[q] = <<>> /\ since'[q] = relayed /\ cin'[q] = 0 /\ cout'[q] = 0
      BY <1>1, <1>2, <2>1 DEF ChatTypes
    <3>2. Ahead(0, 0, OUTBUFSIZE) = 0 /\ \A n \in Places : ~(Ahead(n, 0, OUTBUFSIZE) < 0)
      BY LinksAssumption DEF Ahead, Places
    <3>3. InOrder(heard'[q], since'[q])
      BY <3>1 DEF InOrder
    <3>4. since'[q] + Len(heard'[q]) + Ahead(cin'[q], cout'[q], OUTBUFSIZE) + Pending(q)' = relayed'
      BY <1>1, <1>2, <2>0, <3>1, <3>2
    <3>5. PeerSafe(q)'
      BY <3>1, <3>2, <3>4 DEF PeerSafe
    <3> QED
      BY <3>3, <3>5
  <2>2. CASE q # p
    <3>1. /\ sock'[q] = sock[q] /\ cbuf'[q] = cbuf[q] /\ cin'[q] = cin[q] /\ cout'[q] = cout[q]
          /\ heard'[q] = heard[q] /\ since'[q] = since[q]
      BY <1>1, <1>2, <2>2 DEF ChatTypes
    <3>2. PeerSafe(q) /\ InOrder(heard[q], since[q])
      BY DEF ChatLinksSafe
    <3>3. Pending(q) = 0 /\ Pending(q)' = 0 /\ relayed' = relayed
      BY <1>1, <2>0
    <3>4. Pending(q)' - relayed' = Pending(q) - relayed /\ Pending(q)' \in Nat /\ relayed' \in Nat
      BY <1>2, <3>3
    <3>5. PeerSafe(q)'
      BY <1>2, <3>1, <3>2, <3>4, PeerRests
    <3> QED
      BY <3>1, <3>2, <3>5
  <2> QED
    BY <2>1, <2>2
<1> QED
  BY <1>3, <1>4, <1>5 DEF ChatLinksSafe

\* A message has come: everybody has still to be handed it.
LEMMA RecChatSafe ==
    ASSUME ChatLinksSafe, NEW p \in Peers, NEW len \in 1 .. MaxMessage, rec_chat(p, len)
    PROVE  ChatLinksSafe'
<1>0. len \in Nat \ {0} /\ relayed \in Nat /\ 1 \in Peers /\ ChatTypes
  <2>1. ChatTypes
    BY DEF ChatLinksSafe
  <2>2. relayed \in Nat
    BY <2>1 DEF ChatTypes
  <2>3. len \in Nat \ {0} /\ 1 \in 1 .. p /\ 1 .. p \subseteq Peers
    BY LinksAssumption
  <2> QED
    BY <2>1, <2>2, <2>3
<1>1. PICK bytes : bytes = [n \in 1 .. len |-> relayed + n]
  OBVIOUS
<1>2. /\ fanout = NoFanout /\ fanout' = [to |-> 1, bytes |-> bytes] /\ relayed' = relayed + len
      /\ UNCHANGED <<cbuf, cin, cout, sock, heard, since>>
  BY <1>1 DEF rec_chat
<1>3. bytes \in Seq(Nat) /\ Len(bytes) = len
  BY <1>0, <1>1
<1>4. ChatTypes'
  <2>1. relayed' \in Nat /\ fanout' \in [to : Peers \cup {NoPeer}, bytes : Seq(Nat)]
    BY <1>0, <1>2, <1>3
  <2> QED
    BY <1>0, <1>2, <2>1 DEF ChatTypes
<1>5. FanoutSafe'
  <2>1. fanout'.bytes = bytes /\ fanout'.to = 1 /\ Len(bytes) <= relayed'
    BY <1>0, <1>2, <1>3
  <2>2. \A k \in 1 .. len : bytes[k] = relayed' - len + k
    BY <1>0, <1>1, <1>2
  <2> QED
    BY <1>3, <2>1, <2>2 DEF FanoutSafe, NoPeer
<1>6. ASSUME NEW q \in Peers PROVE InOrder(heard[q], since[q])' /\ PeerSafe(q)'
  <2>1. Pending(q) = 0 /\ Pending(q)' = len
    BY <1>0, <1>2, <1>3, PeerTypes DEF Pending, NoFanout, NoPeer
  <2>2. PeerSafe(q) /\ InOrder(heard[q], since[q])
    BY DEF ChatLinksSafe
  <2>3. PeerSafe(q)'
    BY <1>0, <1>2, <2>1, <2>2, PeerRests
  <2> QED
    BY <1>2, <2>2, <2>3
<1> QED
  BY <1>4, <1>5, <1>6 DEF ChatLinksSafe

\* The area server goes away.
LEMMA KickChatSafe ==
    ASSUME ChatLinksSafe, NEW p \in Peers, kick_chat(p)
    PROVE  ChatLinksSafe'
<1>1. /\ UNCHANGED <<cbuf, cin, cout, relayed, heard, since, fanout>> /\ sock' = [sock EXCEPT ![p] = FALSE] /\ ChatTypes
  BY DEF kick_chat, ChatLinksSafe
<1>2. ChatTypes' /\ FanoutSafe'
  BY <1>1 DEF ChatTypes, ChatLinksSafe, FanoutSafe
<1>3. ASSUME NEW q \in Peers PROVE InOrder(heard[q], since[q])' /\ PeerSafe(q)'
  <2>1. sock'[q] => sock[q]
    BY <1>1 DEF ChatTypes
  <2>2. Pending(q)' = Pending(q)
    BY <1>1 DEF Pending
  <2> QED
    BY <1>1, <2>1, <2>2 DEF ChatLinksSafe, PeerSafe
<1> QED
  BY <1>2, <1>3 DEF ChatLinksSafe

\* send_chat: what is taken follows what was heard.
LEMMA SendChatSafe ==
    ASSUME ChatLinksSafe, NEW p \in Peers, NEW taken \in 1 .. MaxChat, send_chat(p, taken)
    PROVE  ChatLinksSafe'
<1> DEFINE N == OUTBUFSIZE
<1>0. N \in Nat \ {0} /\ taken \in Nat \ {0} /\ ChatTypes /\ Places = 0 .. N - 1
  BY LinksAssumption DEF ChatLinksSafe, Places
<1>1. PICK more : more = [n \in 1 .. taken |-> cbuf[p][cout[p] + n - 1]]
  OBVIOUS
<1>2. /\ sock[p] /\ fanout = NoFanout /\ cin[p] # cout[p]
      /\ taken <= (IF cin[p] < cout[p] THEN N - cout[p] ELSE cin[p] - cout[p])
      /\ heard' = [heard EXCEPT ![p] = heard[p] \o more]
      /\ cout' = [cout EXCEPT ![p] = (cout[p] + taken) % N]
      /\ UNCHANGED <<cbuf, cin, sock, relayed, since, fanout>>
  BY <1>1 DEF send_chat
<1>i. PICK i : i = cin[p]
  OBVIOUS
<1>o. PICK c : c = cout[p]
  OBVIOUS
<1>3. /\ cbuf[p] \in [0 .. N - 1 -> Nat] /\ cin[p] \in 0 .. N - 1 /\ cout[p] \in 0 .. N - 1
      /\ heard[p] \in Seq(Nat) /\ Len(heard[p]) \in Nat /\ since[p] \in Nat /\ relayed \in Nat
  BY <1>0, PeerTypes
<1>4. /\ since[p] + Len(heard[p]) + Ahead(cin[p], cout[p], N) + Pending(p) = relayed
      /\ \A n \in 0 .. N - 1 : Ahead(n, cout[p], N) < Ahead(cin[p], cout[p], N) =>
            cbuf[p][n] = since[p] + Len(heard[p]) + 1 + Ahead(n, cout[p], N)
      /\ InOrder(heard[p], since[p])
  BY <1>0, <1>2 DEF ChatLinksSafe, PeerSafe
<1> HIDE DEF N
<1>5. Pending(p) = 0 /\ \A q \in Peers : Pending(q)' = Pending(q)
  BY <1>2 DEF Pending, NoFanout
<1>6. taken <= Ahead(cin[p], cout[p], N) /\ cout[p] + taken <= N /\ Ahead(cin[p], cout[p], N) \in Int
  <2>1. i \in 0 .. N - 1 /\ c \in 0 .. N - 1 /\ i # c /\ taken <= (IF i < c THEN N - c ELSE i - c)
    BY <1>2, <1>3, <1>i, <1>o
  <2>2. taken <= Ahead(i, c, N) /\ c + taken <= N /\ Ahead(i, c, N) \in Int
    BY <1>0, <2>1 DEF Ahead
  <2> QED
    BY <2>2, <1>i, <1>o
<1>7. ASSUME NEW m \in 1 .. taken PROVE more[m] = since[p] + Len(heard[p]) + m /\ more[m] \in Nat
  <2>1. /\ cout[p] + m - 1 \in 0 .. N - 1 /\ Ahead(cout[p] + m - 1, cout[p], N) = m - 1
        /\ m - 1 < Ahead(cin[p], cout[p], N)
    <3>1. c \in 0 .. N - 1 /\ c + taken <= N /\ Ahead(cin[p], c, N) \in Int /\ taken <= Ahead(cin[p], c, N)
      BY <1>3, <1>6, <1>o
    <3>2. c + m - 1 \in 0 .. N - 1 /\ Ahead(c + m - 1, c, N) = m - 1
      BY <1>0, <3>1 DEF Ahead
    <3>3. m - 1 < Ahead(cin[p], c, N)
      BY <1>0, <3>1
    <3> QED
      BY <3>2, <3>3, <1>o
  <2>2. more[m] = cbuf[p][cout[p] + m - 1]
    BY <1>1
  <2>3. more[m] \in Nat
    BY <1>3, <2>1, <2>2
  <2>4. more[m] = since[p] + Len(heard[p]) + 1 + (m - 1)
    BY <1>4, <2>1, <2>2
  <2>5. m \in Int /\ since[p] \in Int /\ Len(heard[p]) \in Int
    BY <1>0, <1>3
  <2> QED
    BY <2>3, <2>4, <2>5
<1>8. more \in Seq(Nat) /\ Len(more) = taken
  <2>1. DOMAIN more = 1 .. taken /\ more = [n \in 1 .. taken |-> more[n]] /\ taken \in Nat
    BY <1>0, <1>1
  <2>2. \A m \in 1 .. taken : more[m] \in Nat
    BY <1>7
  <2>3. more \in [1 .. taken -> Nat]
    BY <2>1, <2>2
  <2> QED
    BY <2>1, <2>3
<1>9. heard'[p] = heard[p] \o more /\ InOrder(heard'[p], since[p]) /\ heard'[p] \in Seq(Nat) /\ Len(heard'[p]) = Len(heard[p]) + taken
  <2>1. \A m \in 1 .. Len(more) : more[m] = since[p] + Len(heard[p]) + m
    BY <1>7, <1>8
  <2>2. heard'[p] = heard[p] \o more
    BY <1>0, <1>2 DEF ChatTypes
  <2>3. heard[p] \in Seq(Nat) /\ since[p] \in Nat /\ InOrder(heard[p], since[p]) /\ more \in Seq(Nat) /\ Len(more) = taken
    BY <1>3, <1>4, <1>8
  <2>4. InOrder(heard[p] \o more, since[p]) /\ heard[p] \o more \in Seq(Nat) /\ Len(heard[p] \o more) = Len(heard[p]) + Len(more)
    BY <2>1, <2>3, InOrderJoined
  <2> QED
    BY <2>2, <2>3, <2>4
<1>10. PICK o : o = (cout[p] + taken) % N
  OBVIOUS
<1>11. /\ o \in 0 .. N - 1 /\ Ahead(cin[p], o, N) = Ahead(cin[p], cout[p], N) - taken
       /\ \A n \in 0 .. N - 1 : Ahead(n, o, N) < Ahead(cin[p], o, N) =>
             Ahead(n, cout[p], N) = Ahead(n, o, N) + taken /\ Ahead(n, cout[p], N) < Ahead(cin[p], cout[p], N)
  <2>1. i \in 0 .. N - 1 /\ c \in 0 .. N - 1 /\ taken \in Nat /\ taken <= Ahead(i, c, N)
    BY <1>0, <1>3, <1>6, <1>i, <1>o
  <2>2. o = (c + taken) % N
    BY <1>10, <1>o
  <2>3. /\ o \in 0 .. N - 1 /\ Ahead(i, o, N) = Ahead(i, c, N) - taken
        /\ \A n \in 0 .. N - 1 : Ahead(n, o, N) < Ahead(i, o, N) =>
              Ahead(n, c, N) = Ahead(n, o, N) + taken /\ Ahead(n, c, N) < Ahead(i, c, N)
    BY <1>0, <2>1, <2>2, RingTake
  <2> QED
    BY <2>3, <1>i, <1>o
<1>12. cout'[p] = o /\ \A q \in Peers \ {p} : cout'[q] = cout[q] /\ heard'[q] = heard[q]
  BY <1>0, <1>2, <1>10 DEF ChatTypes
<1>13. ChatTypes'
  <2>1. heard' \in [Peers -> Seq(Nat)] /\ cout' \in [Peers -> Places]
    BY <1>0, <1>2, <1>9, <1>10, <1>11 DEF ChatTypes
  <2> QED
    BY <1>0, <1>2, <2>1 DEF ChatTypes
<1>14. PeerSafe(p)'
  <2>1. since[p] + Len(heard'[p]) + Ahead(cin[p], o, N) + Pending(p)' = relayed
    BY <1>0, <1>3, <1>4, <1>5, <1>6, <1>9, <1>11
  <2>2. ASSUME NEW n \in 0 .. N - 1, Ahead(n, o, N) < Ahead(cin[p], o, N)
        PROVE  cbuf[p][n] = since[p] + Len(heard'[p]) + 1 + Ahead(n, o, N)
    <3>1. Ahead(n, o, N) \in Int
      <4>1. N \in Int /\ n \in Int /\ o \in Int
        BY <1>0, <1>11
      <4> QED
        BY <4>1 DEF Ahead
    <3>2. cbuf[p][n] = since[p] + Len(heard[p]) + 1 + (Ahead(n, o, N) + taken)
      BY <1>4, <1>11, <2>2
    <3>3. PICK a : a = Ahead(n, o, N)
      OBVIOUS
    <3>4. PICK h : h = Len(heard[p])
      OBVIOUS
    <3>5. a \in Int /\ h \in Int /\ since[p] \in Int /\ taken \in Int /\ Len(heard'[p]) = h + taken
      BY <1>0, <1>3, <1>9, <3>1, <3>3, <3>4
    <3>6. since[p] + h + 1 + (a + taken) = since[p] + (h + taken) + 1 + a
      BY <3>5
    <3> QED
      BY <3>2, <3>3, <3>4, <3>5, <3>6
  <2> QED
    BY <1>0, <1>2, <1>12, <2>1, <2>2 DEF PeerSafe, N
<1>15. ASSUME NEW q \in Peers PROVE InOrder(heard[q], since[q])' /\ PeerSafe(q)'
  <2>1. CASE q = p
    BY <1>2, <1>9, <1>14, <2>1
  <2>2. CASE q # p
    BY <1>2, <1>5, <1>12, <2>2 DEF ChatLinksSafe, PeerSafe
  <2> QED
    BY <2>1, <2>2
<1> QED
  BY <1>2, <1>13, <1>15 DEF ChatLinksSafe, FanoutSafe

\* The room left in a ring, as the code computes it.
LEMMA FittingIsFree ==
    ASSUME ChatTypes, NEW p \in Peers, NEW len \in Nat
    PROVE  /\ Fitting(p, len) \in Nat /\ Fitting(p, len) <= len
           /\ Fitting(p, len) < OUTBUFSIZE - Ahead(cin[p], cout[p], OUTBUFSIZE)
<1> DEFINE N == OUTBUFSIZE
<1>1. PICK i : i = cin[p]
  OBVIOUS
<1>2. PICK o : o = cout[p]
  OBVIOUS
<1>3. N \in Nat \ {0} /\ i \in 0 .. N - 1 /\ o \in 0 .. N - 1
  BY <1>1, <1>2, PeerTypes DEF Places
<1> HIDE DEF N
<1> DEFINE a == o - i - 1 + N
<1>4. a \in Nat /\ a < 2 * N /\ (i >= o => a < N /\ a = N - 1 - (i - o)) /\ (i < o => N <= a /\ a - N = N - 1 - (i - o + N))
  BY <1>3
<1> HIDE DEF a
<1>5. a % N = N - 1 - Ahead(i, o, N)
  <2>1. CASE i >= o
    <3>1. a % N = a
      BY <1>3, <1>4, <2>1, Wraps
    <3> QED
      BY <1>4, <2>1, <3>1 DEF Ahead
  <2>2. CASE i < o
    <3>1. a % N = a - N
      BY <1>3, <1>4, <2>2, Wraps
    <3>2. ~(i >= o)
      BY <1>3, <2>2
    <3> QED
      BY <1>4, <2>2, <3>1, <3>2 DEF Ahead
  <2> QED
    BY <1>3, <2>1, <2>2
<1>6. Ahead(i, o, N) \in 0 .. N - 1
  BY <1>3 DEF Ahead
<1>7. Fitting(p, len) = IF a % N < len THEN a % N ELSE len
  BY <1>1, <1>2 DEF Fitting, a, N
<1>8. /\ Fitting(p, len) \in Nat /\ Fitting(p, len) <= len
      /\ Fitting(p, len) < N - Ahead(i, o, N)
  <2>1. a % N \in Nat /\ a % N < N - Ahead(i, o, N)
    BY <1>3, <1>5, <1>6
  <2> QED
    BY <1>3, <1>6, <1>7, <2>1
<1> QED
  BY <1>1, <1>2, <1>8 DEF N

\* Who comes after the one that is handed the message now.
LEMMA NextPending ==
    ASSUME ChatTypes, NEW q \in Peers, q = fanout.to,
           fanout' = IF fanout.to + 1 \in Peers THEN [fanout EXCEPT !.to = @ + 1] ELSE NoFanout
    PROVE  /\ Pending(q) = Len(fanout.bytes) /\ Pending(q)' = 0
           /\ \A r \in Peers \ {q} : Pending(r)' = Pending(r)
<1>1. q = fanout.to
  OBVIOUS
<1>2. /\ q \in Peers /\ q \in Nat \ {0} /\ \A r \in Peers : r \in Nat \ {0} /\ 1 .. r \subseteq Peers
  BY <1>1, LinksAssumption
<1>3. fanout \in [to : Peers \cup {NoPeer}, bytes : Seq(Nat)]
  BY DEF ChatTypes
<1>4. Pending(q) = Len(fanout.bytes)
  BY <1>1, <1>2 DEF Pending, NoPeer
<1>5. CASE q + 1 \in Peers
  <2>1. fanout'.to = q + 1 /\ fanout'.bytes = fanout.bytes
    BY <1>1, <1>3, <1>5
  <2>2. Pending(q)' = 0
    BY <1>2, <2>1 DEF Pending
  <2>3. ASSUME NEW r \in Peers \ {q} PROVE Pending(r)' = Pending(r)
    <3>1. (r >= q <=> r >= q + 1) /\ q # NoPeer /\ q + 1 # NoPeer
      BY <1>2 DEF NoPeer
    <3>2. Pending(r) = IF r >= q THEN Len(fanout.bytes) ELSE 0
      BY <1>1, <3>1 DEF Pending
    <3>3. Pending(r)' = IF r >= q + 1 THEN Len(fanout.bytes) ELSE 0
      BY <2>1, <3>1 DEF Pending
    <3> QED
      BY <3>1, <3>2, <3>3
  <2> QED
    BY <1>1, <1>4, <2>2, <2>3
<1>6. CASE q + 1 \notin Peers
  <2>1. fanout'.to = NoPeer
    BY <1>1, <1>6 DEF NoFanout
  <2>2. \A r \in Peers : Pending(r)' = 0
    BY <2>1 DEF Pending
  <2>3. ASSUME NEW r \in Peers \ {q} PROVE Pending(r) = 0
    <3>1. ASSUME r >= q PROVE FALSE
      <4>1. q + 1 \in 1 .. r
        BY <1>2, <3>1
      <4> QED
        BY <1>2, <1>6, <4>1
    <3> QED
      BY <1>1, <3>1 DEF Pending
  <2> QED
    BY <1>1, <1>2, <1>4, <2>2, <2>3
<1> QED
  BY <1>5, <1>6

\* The message stays the same while it is handed out.
LEMMA FanoutMoves ==
    ASSUME ChatTypes, FanoutSafe, fanout.to \in Peers, relayed' = relayed,
           fanout' = IF fanout.to + 1 \in Peers THEN [fanout EXCEPT !.to = @ + 1] ELSE NoFanout
    PROVE  fanout' \in [to : Peers \cup {NoPeer}, bytes : Seq(Nat)] /\ FanoutSafe'
<1>1. fanout \in [to : Peers \cup {NoPeer}, bytes : Seq(Nat)] /\ relayed \in Nat
  BY DEF ChatTypes
<1>2. CASE fanout.to + 1 \in Peers
  <2>1. fanout' = [to |-> fanout.to + 1, bytes |-> fanout.bytes]
    BY <1>1, <1>2
  <2>2. fanout'.to # NoPeer /\ fanout'.bytes = fanout.bytes
    BY <1>2, <2>1, LinksAssumption DEF NoPeer
  <2>3. FanoutSafe'
    BY <2>2 DEF FanoutSafe
  <2>4. fanout' \in [to : Peers \cup {NoPeer}, bytes : Seq(Nat)]
    BY <1>1, <1>2, <2>1
  <2> QED
    BY <2>3, <2>4
<1>3. CASE fanout.to + 1 \notin Peers
  <2>1. fanout' = NoFanout
    BY <1>3
  <2>2. fanout'.bytes = <<>> /\ Len(fanout'.bytes) = 0 /\ fanout'.to = NoPeer
    BY <2>1 DEF NoFanout
  <2>3. <<>> \in Seq(Nat)
    OBVIOUS
  <2>4. fanout' \in [to : Peers \cup {NoPeer}, bytes : Seq(Nat)]
    <3>1. NoPeer \in Peers \cup {NoPeer}
      OBVIOUS
    <3>2. fanout' = [to |-> NoPeer, bytes |-> <<>>]
      BY <2>1 DEF NoFanout
    <3>3. ASSUME NEW none, none \in Seq(Nat)
          PROVE  [to |-> NoPeer, bytes |-> none] \in [to : Peers \cup {NoPeer}, bytes : Seq(Nat)]
      BY <3>1, <3>3
    <3> QED
      BY <2>3, <3>2, <3>3
  <2>5. Len(fanout'.bytes) <= relayed'
    BY <1>1, <2>2
  <2>6. \A k \in 1 .. Len(fanout'.bytes) : fanout'.bytes[k] = relayed' - Len(fanout'.bytes) + k
    BY <2>2
  <2>7. FanoutSafe'
    BY <2>1, <2>5, <2>6 DEF FanoutSafe, NoFanout
  <2> QED
    BY <2>4, <2>7
<1> QED
  BY <1>2, <1>3

\* csend_chat: who has room for the message gets it behind what waits; who has not is cut off.
LEMMA CsendChatSafe ==
    ASSUME ChatLinksSafe, csend_chat
    PROVE  ChatLinksSafe'
<1> DEFINE N == OUTBUFSIZE
<1>1. PICK p : p = fanout.to
  OBVIOUS
<1>2. PICK bytes : bytes = fanout.bytes
  OBVIOUS
<1>3. PICK len : len = Len(bytes)
  OBVIOUS
<1>4. PICK size : size = Fitting(p, len)
  OBVIOUS
<1>0. ChatTypes /\ FanoutSafe /\ p \in Peers
  BY <1>1 DEF ChatLinksSafe, csend_chat
<1>5. /\ fanout' = IF fanout.to + 1 \in Peers THEN [fanout EXCEPT !.to = @ + 1] ELSE NoFanout
      /\ UNCHANGED <<cout, relayed, heard, since>>
  BY DEF csend_chat
<1>6. CASE ~sock[p]
  <2>1. UNCHANGED <<cbuf, cin, sock>>
    BY <1>1, <1>6 DEF csend_chat
  <2>2. ASSUME NEW r \in Peers PROVE PeerSafe(r)' /\ InOrder(heard[r], since[r])'
    <3>1. CASE r = p
      BY <1>6, <2>1, <1>5, <3>1 DEF PeerSafe, ChatLinksSafe
    <3>2. CASE r # p
      <4>1. Pending(r)' = Pending(r)
        BY <1>0, <1>1, <1>5, <3>2, NextPending
      <4> QED
        BY <1>5, <2>1, <4>1 DEF ChatLinksSafe, PeerSafe
    <3> QED
      BY <3>1, <3>2
  <2>3. fanout' \in [to : Peers \cup {NoPeer}, bytes : Seq(Nat)] /\ FanoutSafe'
    BY <1>0, <1>1, <1>5, FanoutMoves
  <2>4. ChatTypes'
    BY <1>0, <1>5, <2>1, <2>3 DEF ChatTypes
  <2> QED
    BY <2>2, <2>3, <2>4 DEF ChatLinksSafe
<1>7. CASE sock[p]
  <2>1. /\ cbuf' = [cbuf EXCEPT ![p] = [n \in DOMAIN cbuf[p] |->
                      IF ((n - cin[p] + N) % N) + 1 <= size THEN bytes[((n - cin[p] + N) % N) + 1] ELSE cbuf[p][n]]]
        /\ cin' = [cin EXCEPT ![p] = (cin[p] + size) % N]
        /\ sock' = [sock EXCEPT ![p] = size = len]
    BY <1>1, <1>2, <1>3, <1>4, <1>7 DEF csend_chat
  <2>2. PICK i : i = cin[p]
    OBVIOUS
  <2>3. PICK o : o = cout[p]
    OBVIOUS
  <2>4. /\ cbuf[p] \in [0 .. N - 1 -> Nat] /\ i \in 0 .. N - 1 /\ o \in 0 .. N - 1 /\ N \in Nat \ {0}
        /\ Len(heard[p]) \in Nat /\ since[p] \in Nat /\ relayed \in Nat /\ len \in Nat /\ bytes \in Seq(Nat)
        /\ Places = 0 .. N - 1
    BY <1>0, <1>2, <1>3, <2>2, <2>3, PeerTypes DEF Places, ChatTypes
  <2>5. size \in Nat /\ size <= len /\ size < N - Ahead(i, o, N)
    BY <1>0, <1>4, <2>2, <2>3, <2>4, FittingIsFree
  <2> HIDE DEF N
  <2>6. \A n \in 0 .. N - 1 : (n - i + N) % N = Ahead(n, i, N) /\ Ahead(n, i, N) \in 0 .. N - 1
    BY <2>4, AheadIsRemainder
  <2>7. ASSUME NEW n \in 0 .. N - 1
        PROVE  /\ cbuf'[p][n] = IF Ahead(n, i, N) < size THEN bytes[Ahead(n, i, N) + 1] ELSE cbuf[p][n]
               /\ cbuf'[p][n] \in Nat
    <3>1. /\ (n - i + N) % N = Ahead(n, i, N) /\ Ahead(n, i, N) \in Nat
          /\ (Ahead(n, i, N) + 1 <= size <=> Ahead(n, i, N) < size)
      <4>1. (n - i + N) % N = Ahead(n, i, N) /\ Ahead(n, i, N) \in Nat
        BY <2>6
      <4>2. size \in Nat
        BY <2>5
      <4> QED
        BY <4>1, <4>2
    <3>2. cbuf'[p] = [m \in 0 .. N - 1 |->
                        IF ((m - i + N) % N) + 1 <= size THEN bytes[((m - i + N) % N) + 1] ELSE cbuf[p][m]]
      <4>1. cbuf \in [Peers -> [0 .. N - 1 -> Nat]] /\ DOMAIN cbuf[p] = 0 .. N - 1 /\ cin[p] = i /\ p \in Peers
        BY <1>0, <2>2, <2>4 DEF ChatTypes
      <4> QED
        BY <2>1, <4>1
    <3>3. cbuf'[p][n] = IF Ahead(n, i, N) < size THEN bytes[Ahead(n, i, N) + 1] ELSE cbuf[p][n]
      BY <3>1, <3>2
    <3>4. Ahead(n, i, N) < size => bytes[Ahead(n, i, N) + 1] \in Nat
      <4> SUFFICES ASSUME Ahead(n, i, N) < size PROVE bytes[Ahead(n, i, N) + 1] \in Nat
        OBVIOUS
      <4>2. PICK a : a = Ahead(n, i, N)
        OBVIOUS
      <4>3. a \in Nat /\ a < size /\ size \in Nat /\ len \in Nat /\ size <= len
        BY <2>4, <2>5, <3>1, <4>2
      <4>4. a + 1 \in 1 .. len
        BY <4>3
      <4>1. Ahead(n, i, N) + 1 \in 1 .. len
        BY <4>2, <4>4
      <4> QED
        BY <1>3, <2>4, <4>1
    <3> QED
      BY <2>4, <3>3, <3>4
  <2>8. PICK j : j = (i + size) % N
    OBVIOUS
  <2>9. /\ j \in 0 .. N - 1 /\ Ahead(j, o, N) = Ahead(i, o, N) + size
        /\ \A n \in 0 .. N - 1 :
              /\ Ahead(n, i, N) < size => Ahead(n, o, N) = Ahead(i, o, N) + Ahead(n, i, N)
              /\ Ahead(n, o, N) < Ahead(i, o, N) + size => Ahead(n, o, N) < Ahead(i, o, N) \/ Ahead(n, i, N) < size
    BY <2>4, <2>5, <2>8, RingPut
  <2>10. /\ cin'[p] = j /\ sock'[p] = (size = len)
         /\ \A r \in Peers \ {p} : cin'[r] = cin[r] /\ sock'[r] = sock[r] /\ cbuf'[r] = cbuf[r]
    BY <1>0, <2>1, <2>2, <2>8 DEF ChatTypes
  <2>11. PeerSafe(p)'
    <3> SUFFICES ASSUME size = len PROVE PeerSafe(p)'
      BY <2>10 DEF PeerSafe
    <3>1. Pending(p) = len /\ Pending(p)' = 0
      <4>1. Pending(p) = Len(fanout.bytes) /\ Pending(p)' = 0
        BY <1>0, <1>1, <1>5, NextPending
      <4> QED
        BY <1>2, <1>3, <4>1
    <3>2. /\ since[p] + Len(heard[p]) + Ahead(i, o, N) + len = relayed
          /\ \A n \in 0 .. N - 1 : Ahead(n, o, N) < Ahead(i, o, N) =>
                cbuf[p][n] = since[p] + Len(heard[p]) + 1 + Ahead(n, o, N)
      BY <1>0, <1>7, <2>2, <2>3, <2>4, <3>1 DEF ChatLinksSafe, PeerSafe, N
    <3>3. Ahead(i, o, N) \in Int
      BY <2>4 DEF Ahead
    <3>4. since[p] + Len(heard[p]) + Ahead(j, o, N) + Pending(p)' = relayed
      BY <2>4, <2>9, <3>1, <3>2, <3>3
    <3>5. ASSUME NEW n \in 0 .. N - 1, Ahead(n, o, N) < Ahead(j, o, N)
          PROVE  cbuf'[p][n] = since[p] + Len(heard[p]) + 1 + Ahead(n, o, N)
      <4>1. CASE Ahead(n, i, N) < size
        <5>1. cbuf'[p][n] = bytes[Ahead(n, i, N) + 1] /\ Ahead(n, o, N) = Ahead(i, o, N) + Ahead(n, i, N)
          BY <2>7, <2>9, <4>1
        <5>2. Ahead(n, i, N) \in Nat /\ Ahead(n, i, N) + 1 \in 1 .. len
          <6>1. PICK k : k = Ahead(n, i, N)
            OBVIOUS
          <6>2. k \in Nat /\ k < size
            BY <2>6, <4>1, <6>1
          <6>3. size \in Nat /\ len \in Nat /\ size <= len
            BY <2>4, <2>5
          <6>4. k + 1 \in 1 .. len
            BY <6>2, <6>3
          <6> QED
            BY <6>1, <6>2, <6>4
        <5>3. bytes[Ahead(n, i, N) + 1] = relayed - len + (Ahead(n, i, N) + 1)
          BY <1>0, <1>2, <1>3, <5>2 DEF FanoutSafe
        <5>4. PICK k : k = Ahead(n, i, N)
          OBVIOUS
        <5>5. PICK w : w = Ahead(i, o, N)
          OBVIOUS
        <5>6. PICK h : h = since[p] + Len(heard[p])
          OBVIOUS
        <5>7. k \in Nat /\ w \in Int /\ h \in Int /\ len \in Int /\ h + w + len = relayed
          BY <2>4, <3>2, <3>3, <5>2, <5>4, <5>5, <5>6
        <5>8. relayed - len + (k + 1) = h + 1 + (w + k)
          BY <5>7
        <5> QED
          BY <5>1, <5>3, <5>4, <5>5, <5>6, <5>8
      <4>2. CASE ~(Ahead(n, i, N) < size)
        <5>1. Ahead(n, o, N) < Ahead(i, o, N)
          BY <2>9, <3>5, <4>2
        <5> QED
          BY <2>7, <3>2, <4>2, <5>1
      <4> QED
        BY <4>1, <4>2
    <3> QED
      BY <1>5, <2>3, <2>4, <2>10, <3>4, <3>5 DEF PeerSafe, N
  <2>12. ASSUME NEW r \in Peers PROVE PeerSafe(r)' /\ InOrder(heard[r], since[r])'
    <3>1. CASE r = p
      BY <1>5, <2>11, <3>1 DEF ChatLinksSafe
    <3>2. CASE r # p
      <4>1. Pending(r)' = Pending(r)
        BY <1>0, <1>1, <1>5, <3>2, NextPending
      <4> QED
        BY <1>5, <2>10, <3>2, <4>1 DEF ChatLinksSafe, PeerSafe
    <3> QED
      BY <3>1, <3>2
  <2>13. ChatTypes'
    <3>1. fanout' \in [to : Peers \cup {NoPeer}, bytes : Seq(Nat)]
      BY <1>0, <1>1, <1>5, FanoutMoves
    <3>2. cin' \in [Peers -> Places] /\ sock' \in [Peers -> BOOLEAN]
      BY <1>0, <2>1, <2>2, <2>4, <2>8, <2>9 DEF ChatTypes
    <3>3. cbuf'[p] \in [0 .. N - 1 -> Nat]
      <4>1. cbuf'[p] = [m \in 0 .. N - 1 |-> cbuf'[p][m]]
        BY <1>0, <2>1, <2>4 DEF ChatTypes
      <4> QED
        BY <2>7, <4>1
    <3>4. cbuf' \in [Peers -> [Places -> Nat]]
      <4>1. cbuf' = [cbuf EXCEPT ![p] = cbuf'[p]]
        BY <1>0, <2>1 DEF ChatTypes
      <4> QED
        BY <1>0, <2>4, <3>3, <4>1 DEF ChatTypes
    <3> QED
      BY <1>0, <1>5, <3>1, <3>2, <3>4 DEF ChatTypes
  <2>14. FanoutSafe'
    BY <1>0, <1>1, <1>5, FanoutMoves
  <2> QED
    BY <2>12, <2>13, <2>14 DEF ChatLinksSafe
<1>8. sock[p] \in BOOLEAN
  BY <1>0 DEF ChatTypes
<1> QED
  BY <1>6, <1>7, <1>8

\* No area server is connected at the start.
LEMMA ChatLinksInit == LinksInit => ChatLinksSafe
<1> SUFFICES ASSUME LinksInit PROVE ChatLinksSafe
  OBVIOUS
<1>1. /\ cbuf = [p \in Peers |-> [n \in 0 .. OUTBUFSIZE - 1 |-> 0]] /\ cin = [p \in Peers |-> 0] /\ cout = [p \in Peers |-> 0]
      /\ sock = [p \in Peers |-> FALSE] /\ relayed = 0 /\ heard = [p \in Peers |-> <<>>] /\ since = [p \in Peers |-> 0]
      /\ fanout = NoFanout
  BY DEF LinksInit
<1>2. 0 \in Places
  BY LinksAssumption DEF Places
<1>3. ChatTypes
  BY <1>1, <1>2 DEF ChatTypes, Places, NoFanout
<1>4. FanoutSafe
  BY <1>1 DEF FanoutSafe, NoFanout
<1>5. \A p \in Peers : heard[p] = <<>> /\ ~sock[p]
  BY <1>1
<1> QED
  BY <1>3, <1>4, <1>5 DEF ChatLinksSafe, PeerSafe, InOrder

\* Each step of the chat server or of a connection.
LEMMA ChatLinksStep ==
    ASSUME ChatLinksSafe, ChatLinksNext \/ UNCHANGED chatLinks
    PROVE  ChatLinksSafe'
<1>1. CASE UNCHANGED chatLinks
  BY <1>1 DEF chatLinks, ChatLinksSafe, ChatTypes, FanoutSafe, PeerSafe, Pending, InOrder
<1> QED
  BY <1>1, CsendChatSafe, NewChatSafe, KickChatSafe, RecChatSafe, SendChatSafe DEF ChatLinksNext

\* What a player receives and what waits in his ring is what was put in, without a gap
\* or a repetition (csend, send_player of io.c), and every area server hears the chat as
\* every other one (chatserver.c), for rings of any size.
THEOREM StreamsAlwaysIntact == LinksSpec => []StreamsIntact
<1>1. LinksInit => PlayerLinkSafe /\ ChatLinksSafe
  BY PlayerLinkInit, ChatLinksInit
<1>2. PlayerLinkSafe /\ ChatLinksSafe /\ [LinksNext]_<<playerLink, chatLinks>> => PlayerLinkSafe' /\ ChatLinksSafe'
  BY PlayerLinkStep, ChatLinksStep DEF LinksNext
<1>3. PlayerLinkSafe /\ ChatLinksSafe => StreamsIntact
  <2> SUFFICES ASSUME PlayerLinkSafe, ChatLinksSafe PROVE StreamsIntact
    OBVIOUS
  <2>1. InOrder(got, 0) /\ (online => Len(got) + ((iptr - optr + OBUFSIZE) % OBUFSIZE) = put)
    <3>1. (iptr - optr + OBUFSIZE) % OBUFSIZE = Ahead(iptr, optr, OBUFSIZE)
      BY AheadIsRemainder, LinksAssumption DEF PlayerLinkSafe, PlayerTypes
    <3> QED
      BY <3>1 DEF PlayerLinkSafe, RingSafe
  <2>2. ASSUME NEW p \in Peers
        PROVE  /\ InOrder(heard[p], since[p])
               /\ sock[p] /\ fanout = NoFanout =>
                     since[p] + Len(heard[p]) + ((cin[p] - cout[p] + OUTBUFSIZE) % OUTBUFSIZE) = relayed
    <3>1. InOrder(heard[p], since[p]) /\ PeerSafe(p) /\ ChatTypes
      BY DEF ChatLinksSafe
    <3>2. (cin[p] - cout[p] + OUTBUFSIZE) % OUTBUFSIZE = Ahead(cin[p], cout[p], OUTBUFSIZE)
      BY <3>1, PeerTypes, AheadIsRemainder DEF Places
    <3>3. fanout = NoFanout => Pending(p) = 0
      BY DEF Pending, NoFanout
    <3>4. ASSUME sock[p], fanout = NoFanout
          PROVE  since[p] + Len(heard[p]) + Ahead(cin[p], cout[p], OUTBUFSIZE) = relayed
      <4>1. since[p] + Len(heard[p]) + Ahead(cin[p], cout[p], OUTBUFSIZE) + 0 = relayed
        BY <3>1, <3>3, <3>4 DEF PeerSafe
      <4>2. since[p] + Len(heard[p]) + Ahead(cin[p], cout[p], OUTBUFSIZE) \in Int
        BY <3>1, PeerTypes DEF Places
      <4> QED
        BY <4>1, <4>2
    <3> QED
      BY <3>1, <3>2, <3>4
  <2> QED
    BY <2>1, <2>2 DEF StreamsIntact
<1> QED
  BY <1>1, <1>2, <1>3, PTL DEF LinksSpec
=============================================================================
