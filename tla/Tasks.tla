-------------------------------- MODULE Tasks --------------------------------
(***************************************************************************)
(* Tasks (task.c, check_task of database.c): changes to a character that   *)
(* may be in the game on any server or on none.  A task is a row that the  *)
(* database threads of all servers look at again and again; the one that   *)
(* has the character in memory changes it there, anyone changes the saved  *)
(* character while nobody has it.  One character is looked at: what the    *)
(* ownership protocol does with it is reduced to load, enter, save, leave. *)
(* A change is counted, since some of them (toggling flags, a punishment)  *)
(* must not be made twice.  A statement may fail, or find the connection   *)
(* lost: it is then run again on a new one, which has not got the lock.    *)
(***************************************************************************)
EXTENDS Integers, Sequences, FiniteSets

CONSTANTS TaskServers, TaskIDs, NoServer,
          MaxQueued, MaxDowns,    \* bounds: saves in a queue, restarts,
          MaxTroubles             \* statements that fail and locks that are lost

ASSUME TasksAssumption ==
    /\ IsFiniteSet(TaskServers) /\ NoServer \notin TaskServers /\ TaskIDs # {}
    /\ MaxQueued \in Nat /\ MaxDowns \in Nat /\ MaxTroubles \in Nat

VARIABLES task,          \* the rows of the task table
          current_area,  \* the row of the character: the server that has it
          chr,           \* and how often each task was applied to what is saved
          login, mem,    \* what a server has loaded, and has in the game
          saves,         \* the saves in its queue
          checking,          \* what check_task is at: step, rows, row, character read
          locked,        \* the server that has the tables locked
          issued, downs, troubles

taskVars == <<task, current_area, chr, login, mem, saves, checking, locked, issued, downs, troubles>>

Absent == [t \in {} |-> 0]       \* no copy: never a function on all tasks
Idle == [step |-> "idle", todo |-> {}, row |-> {}, tmp |-> Absent]

TasksInit ==
    /\ task = {} /\ issued = {}
    /\ current_area = NoServer
    /\ chr = [t \in TaskIDs |-> 0]
    /\ login = [s \in TaskServers |-> Absent]
    /\ mem = [s \in TaskServers |-> Absent]
    /\ saves = [s \in TaskServers |-> << >>]
    /\ checking = [s \in TaskServers |-> Idle] /\ locked = NoServer
    /\ downs = 0 /\ troubles = 0

Online(s) == mem[s] # Absent
Unlocked(s) == locked \in {NoServer, s}

\* One thread of a server makes all its statements, one at a time.
Free(s) == checking[s] = Idle /\ Unlocked(s)
TaskWork == <<checking, locked, issued, downs, troubles>>

-----------------------------------------------------------------------------
(* The character *)

Load(s) ==
    /\ Free(s) /\ current_area = NoServer
    /\ current_area' = s
    /\ login' = [login EXCEPT ![s] = chr]
    /\ UNCHANGED <<task, chr, mem, saves, TaskWork>>

Enter(s) ==
    /\ login[s] # Absent
    /\ mem' = [mem EXCEPT ![s] = login[s]]
    /\ login' = [login EXCEPT ![s] = Absent]
    /\ UNCHANGED <<task, current_area, chr, saves, TaskWork>>

\* A backup, or the last save of a character that leaves.
Save(s, leave) ==
    /\ Online(s) /\ Len(saves[s]) < MaxQueued
    /\ saves' = [saves EXCEPT ![s] = Append(@, [chr |-> mem[s], leave |-> leave])]
    /\ mem' = [mem EXCEPT ![s] = IF leave THEN Absent ELSE @]
    /\ UNCHANGED <<task, current_area, chr, login, TaskWork>>

DoSave(s) ==
    /\ Free(s) /\ saves[s] # << >>
    /\ LET save == Head(saves[s]) IN
       IF current_area = s
       THEN chr' = save.chr /\ current_area' = IF save.leave THEN NoServer ELSE s
       ELSE UNCHANGED <<chr, current_area>>
    /\ saves' = [saves EXCEPT ![s] = Tail(@)]
    /\ UNCHANGED <<task, login, mem, TaskWork>>

-----------------------------------------------------------------------------
(* The tasks *)

Characters == <<current_area, chr, login, mem, saves>>

add_task(s, t) ==
    /\ Free(s) /\ t \notin issued
    /\ issued' = issued \cup {t} /\ task' = task \cup {t}
    /\ UNCHANGED <<Characters, checking, locked, downs, troubles>>

Trouble == troubles < MaxTroubles /\ troubles' = troubles + 1
NoTrouble == UNCHANGED troubles

Goes(s, record) == checking' = [checking EXCEPT ![s] = record]
At(s, step) == checking[s].step = step /\ (locked \in {NoServer, s})

\* The next row, or the end: the tables are unlocked.
NextRow(s, todo) ==
    IF todo = {}
    THEN Goes(s, Idle) /\ locked' = NoServer
    ELSE Goes(s, [step |-> "rows", todo |-> todo, row |-> {}, tmp |-> Absent]) /\ UNCHANGED locked

\* check_task locks the tables and selects all tasks: without any there is nothing
\* to be told of it.  When the select fails it returns as it is: the tables stay
\* locked until the next call locks them anew.
LockTables(s) ==
    /\ Free(s) /\ task # {}
    /\ locked' = s
    /\ \/ NoTrouble /\ Goes(s, [step |-> "rows", todo |-> task, row |-> {}, tmp |-> Absent])
       \/ Trouble /\ UNCHANGED checking
    /\ UNCHANGED <<task, Characters, issued, downs>>

\* Mutant: only the saved character is changed.
SkipOnline(s, t) ==
    /\ At(s, "rows") /\ t \in checking[s].todo
    /\ Online(s)
    /\ NextRow(s, checking[s].todo \ {t})
    /\ NoTrouble
    /\ UNCHANGED <<task, Characters, issued, downs>>

\* set_task: the character is in the game here,
SetOnline(s, t) ==
    /\ At(s, "rows") /\ t \in checking[s].todo
    /\ Online(s)
    /\ mem' = [mem EXCEPT ![s][t] = @ + 1]
    /\ Goes(s, [step |-> "set", todo |-> checking[s].todo \ {t}, row |-> {t}, tmp |-> Absent])
    /\ NoTrouble
    /\ UNCHANGED <<task, current_area, chr, login, saves, locked, issued, downs>>

\* or it is read, and left alone when some server has it,
SelectSaved(s, t) ==
    /\ At(s, "rows") /\ t \in checking[s].todo
    /\ ~Online(s)
    /\ IF current_area = NoServer
       THEN /\ Goes(s, [step |-> "read", todo |-> checking[s].todo \ {t}, row |-> {t}, tmp |-> chr])
            /\ UNCHANGED locked
       ELSE NextRow(s, checking[s].todo \ {t})
    /\ NoTrouble
    /\ UNCHANGED <<task, Characters, issued, downs>>

\* else written back as it was read, with the change.
UpdateSaved(s) ==
    /\ At(s, "read")
    /\ \/ /\ NoTrouble
          /\ \E t \in checking[s].row : chr' = [checking[s].tmp EXCEPT ![t] = @ + 1]
          /\ Goes(s, [checking[s] EXCEPT !.step = "set", !.tmp = Absent])
          /\ UNCHANGED locked
       \/ Trouble /\ UNCHANGED chr /\ NextRow(s, checking[s].todo)
    /\ UNCHANGED <<task, current_area, login, mem, saves, issued, downs>>

\* Mutant: the row is left.
KeepTask(s) ==
    /\ At(s, "set")
    /\ NextRow(s, checking[s].todo) /\ NoTrouble
    /\ UNCHANGED <<task, Characters, issued, downs>>

\* The row of the task is deleted after that; a delete that fails is logged.
DeleteTask(s) ==
    /\ At(s, "set")
    /\ NextRow(s, checking[s].todo)
    /\ \/ NoTrouble /\ task' = task \ checking[s].row
       \/ Trouble /\ UNCHANGED task
    /\ UNCHANGED <<Characters, issued, downs>>

\* mysql_query_con connects again: the tables are unlocked, the rows that were
\* selected are still there and the loop goes on.
LoseLock(s) ==
    /\ locked = s /\ Trouble
    /\ locked' = NoServer
    /\ UNCHANGED <<task, Characters, checking, issued, downs>>

process_task(s, t) == SetOnline(s, t) \/ SelectSaved(s, t)

check_task(s) ==
    \/ LockTables(s) \/ UpdateSaved(s) \/ DeleteTask(s) \/ LoseLock(s)
    \/ \E t \in TaskIDs : process_task(s, t)

\* A server goes down; when it starts again no row names it any more.
TaskRestart(s) ==
    /\ downs < MaxDowns /\ downs' = downs + 1
    /\ login' = [login EXCEPT ![s] = Absent] /\ mem' = [mem EXCEPT ![s] = Absent]
    /\ saves' = [saves EXCEPT ![s] = << >>]
    /\ checking' = [checking EXCEPT ![s] = Idle]
    /\ locked' = IF locked = s THEN NoServer ELSE locked
    /\ current_area' = IF current_area = s THEN NoServer ELSE current_area
    /\ UNCHANGED <<task, chr, issued, troubles>>

TasksNext == \E s \in TaskServers :
    \/ \E t \in TaskIDs : add_task(s, t)
    \/ Load(s) \/ Enter(s) \/ DoSave(s) \/ check_task(s) \/ TaskRestart(s)
    \/ \E leave \in BOOLEAN : Save(s, leave)

AtRow(s) == UpdateSaved(s) \/ DeleteTask(s) \/ \E t \in TaskIDs : process_task(s, t)

\* The game loop asks for check_task every few seconds, which is shorter than a
\* character's stay in the game or between two.  A statement that waits for the
\* tables gets its turn, and every statement ends.
Saving == \E s \in TaskServers : DoSave(s)
TasksWorked ==
    /\ SF_taskVars(\E s \in TaskServers : LockTables(s) /\ (Online(s) \/ current_area = NoServer))
    /\ SF_taskVars(\E s \in TaskServers, t \in TaskIDs : SetOnline(s, t))
    /\ SF_taskVars(\E s \in TaskServers : locked # s /\ AtRow(s))
    /\ \A s \in TaskServers :
         WF_taskVars(Enter(s)) /\ WF_taskVars(LockTables(s)) /\ WF_taskVars(AtRow(s))

TasksFair == TasksWorked /\ SF_taskVars(Saving)

TasksSpec == TasksInit /\ [][TasksNext]_taskVars /\ TasksFair

-----------------------------------------------------------------------------
(* Properties *)

\* The character as it will be: in the game, loaded, in a queue, or saved.
Newest ==
    IF current_area = NoServer THEN chr
    ELSE LET s == current_area IN
         IF Online(s) THEN mem[s]
         ELSE IF login[s] # Absent THEN login[s]
         ELSE saves[s][Len(saves[s])].chr

\* A task is applied once, or again for something that went wrong: a restart, a
\* delete that failed, or a lock that was lost, after which another server may have
\* the same rows.  Nothing makes it be applied twice more.
OncePerTrouble == \A t \in TaskIDs : Newest[t] <= 1 + downs + troubles

\* Every task is done in the end.
TaskDone == task # {} ~> task = {}
=============================================================================
