----------------------------- MODULE CharacterDB -----------------------------
(***************************************************************************)
(* A player character lives in one row of the table "chars" and, while its *)
(* player is online, as one copy in the memory of one area server.  Area   *)
(* servers share nothing but the database.  Each has a game loop, which    *)
(* never waits for the database, and one database thread, which executes   *)
(* the server's queries in the order they were queued (database.c).        *)
(*                                                                         *)
(* The row's current_area/current_mirror says which server may write it: a *)
(* load sets it, and every delayed save carries "and current_area=... and  *)
(* current_mirror=...".  This module models that protocol: the login slot  *)
(* (find_login, load_char, tick_login, read_login), leaving a server       *)
(* (kick_char, exit_char, change_area, lost connections), backups, the     *)
(* rescue of characters whose server is down, crashes, restarts and the    *)
(* clean shutdown.                                                         *)
(***************************************************************************)
EXTENDS Naturals, Sequences, FiniteSets, FiniteSetsExt

CONSTANTS
    Servers,    (* area servers, each a pair <<area, mirror>>                *)
    Chars,      (* player characters (rows of table chars)                   *)
    Clients,    (* game clients; at most one connection each                 *)
    NumSlots,   (* character slots ch[1], ch[2], ... of every server           *)
    Subscriber, (* Subscriber[c]: the account (sID) character c belongs to   *)
    Prefers,    (* Prefers[c]: the mirror character c prefers                *)
    None,       (* no character / server / client                            *)
    Optional,   (* which behaviours of the environment occur (see below)     *)
    MaxData,    (* bound: progress a character makes                         *)
    MaxCrashes, (* bound: server crashes                                     *)
    MaxQueue    (* bound: queue length up to which periodic queries are added *)

(* The optional behaviours: "refuse" (a load fails or is refused), "npc"    *)
(* (monsters take and free character slots), "bareKick" (a character is     *)
(* kicked and its connection is not told), "allocFail" (tables are full),   *)
(* "noRoom" (no free map tile), "refresh" (the periodic area queries),      *)
(* "late" (alive_time of a running server lapses), "shutdown".              *)
Behaviours == {"refuse", "npc", "bareKick", "allocFail", "noRoom", "refresh", "late", "shutdown"}

Area(s) == s[1]
Mirror(s) == s[2]
Areas == {Area(s) : s \in Servers}
Slots == 1 .. NumSlots

ASSUME ServersAssumption == Servers \subseteq (Nat \ {0}) \X (Nat \ {0})
ASSUME NoneAssumption == None \notin Servers \cup Chars \cup Clients
ASSUME CharsAssumption == /\ Subscriber \in [Chars -> Nat]
                          /\ Prefers \in [Chars -> Nat \ {0}]
ASSUME BoundsAssumption == /\ NumSlots \in Nat /\ MaxData \in Nat
                           /\ MaxCrashes \in Nat /\ MaxQueue \in Nat
                           /\ Optional \subseteq Behaviours

VARIABLES
    row,     (* row[c]: current_area/mirror, allowed_area and data of table chars *)
    fresh,   (* servers whose alive_time in table area is less than 5 minutes old *)
    run,     (* run[s]: "down", "up", "leaving" (end of main) or "draining" (exit_database) *)
    isUp,    (* isUp[s]: the servers whose status is 1 in the array area[][] of s *)
    queue,   (* queue[s]: wquery..equery, the queries the database thread has to do *)
    ch,      (* ch[s][n]: character slot n of server s                           *)
    login,   (* login[s]: the one login slot of server s                         *)
    conn,    (* conn[k]: the connection of client k                              *)
    strayed, (* history: characters rescued away from a running server           *)
    crashes  (* crashes so far, for the bound                                    *)

vars == <<row, fresh, run, isUp, queue, ch, login, conn, strayed, crashes>>

-----------------------------------------------------------------------------
(* Values. *)

About == {"backup", "logout", "release", "rescue"}  \* the queries about one character

Query == {q \in [op : About \cup {"load", "alive", "dead", "arealist"},
                 id : Chars \cup {None}, data : Nat, area : Nat] :
            q.op \in About => q.id \in Chars}

\* A query that carries no character.
Plain(op) == [op |-> op, id |-> None, data |-> 0, area |-> 0]

\* A slot that no character has used: alloc_char clears it, ID is 0.
FreeSlot == [used |-> FALSE, id |-> None, data |-> 0, player |-> None, lost |-> FALSE]

SlotType == [used : BOOLEAN, id : Chars \cup {None}, data : Nat,
             player : Clients \cup {None}, lost : BOOLEAN]

\* Mutant of Results: find_login also clears a request that is being worked on.
AnyStatus == {"ok", "failed", "newarea", "read", "create"}

\* The statuses above LS_CREATE that the game loop has to collect.
Results == {"ok", "failed", "newarea"}

\* LS_EMPTY; the other fields are dead then.
NoLogin == [status |-> "empty", name |-> None, to |-> <<0, 0>>, cn |-> 0, data |-> 0,
            current |-> FALSE, usurped |-> FALSE, old |-> FALSE]

LoginType == {l \in [status : {"empty", "read", "create"} \cup Results, name : Chars \cup {None},
                     to : Nat \X Nat, cn : Slots \cup {0}, data : Nat,
                     current : BOOLEAN, usurped : BOOLEAN, old : BOOLEAN] :
                /\ l.status # "empty" => l.name \in Chars
                /\ l.status = "ok" => l.cn \in Slots}

Offline == [state |-> "off", at |-> None, name |-> None, cn |-> 0]
Waiting(s, c) == [state |-> "login", at |-> s, name |-> c, cn |-> 0]
InGame(s, c, n) == [state |-> "play", at |-> s, name |-> c, cn |-> n]

ConnType == {x \in [state : {"off", "login", "play"}, at : Servers \cup {None},
                    name : Chars \cup {None}, cn : Slots \cup {0}] :
               /\ x.state # "off" => x.at \in Servers /\ x.name \in Chars
               /\ x.state = "play" => x.cn \in Slots}

-----------------------------------------------------------------------------
(* Helpers. *)

Up(s) == run[s] = "up"
Enqueue(s, qs) == queue' = [queue EXCEPT ![s] = @ \o qs]

\* get_mirror: the nearest running mirror at or below m, else the lowest above it, else 0.
get_mirror(U, a, m) ==
    LET alive == {t[2] : t \in {t \in U : t[1] = a}}
        below == {n \in alive : n <= m}
    IN  CASE m = 0 \/ alive = {} -> 0
          [] below # {}          -> Max(below)
          [] OTHER               -> Min(alive)

\* get_area: the server a client is sent to for area a and mirror m, or None.
get_area(U, a, m) == LET n == get_mirror(U, a, m) IN IF n = 0 THEN None ELSE <<a, n>>

\* player_to_server: client k, if still connected, follows to server t; nobody answers
\* there if t is not running.
Hop(k, t) == IF conn[k].state # "off" /\ t \in Servers /\ run[t] = "up"
             THEN Waiting(t, conn[k].name) ELSE Offline

\* Mutant of save_char: a character that has lost its player is not saved.
SaveConnected(s, n, a) ==
    LET x == ch[s][n]
    IN  IF x.player = None THEN <<>>
        ELSE <<[op |-> IF a = 0 THEN "backup" ELSE "logout",
                id |-> x.id, data |-> x.data, area |-> a]>>

\* save_char(cn, area): nothing for ID 0; a backup when area is 0, else a logout.
save_char(s, n, a) ==
    LET x == ch[s][n]
    IN  IF x.id = None THEN <<>>
        ELSE <<[op |-> IF a = 0 THEN "backup" ELSE "logout",
                id |-> x.id, data |-> x.data, area |-> a]>>

\* Mutant of release_char: the row is not released.
NoRelease(s, n) == <<>>

\* release_char(cn): mark as not online, save nothing; matches no row for ID 0.
release_char(s, n) ==
    IF ch[s][n].id = None THEN <<>>
    ELSE <<[op |-> "release", id |-> ch[s][n].id, data |-> 0, area |-> 0]>>

\* free_char only clears the flags: what else is in the slot stays until alloc_char
\* clears it.  The model keeps what something may still read: a connection in the
\* game other than gone, which leaves in this step, or the login slot (the ID).
Freed(s, n, gone) ==
    LET x == ch[s][n]
        read == \E k \in Clients \ {gone} :
                   conn[k].state = "play" /\ conn[k].at = s /\ conn[k].cn = n
        named == login[s].status = "ok" /\ login[s].cn = n
    IN  IF read THEN [x EXCEPT !.used = FALSE]
        ELSE IF named THEN [FreeSlot EXCEPT !.id = x.id] ELSE FreeSlot

\* Mutants of kick_char: the row is released before it is saved; the character is
\* saved and not destroyed.
KickReleasing(s, n, a, gone) == /\ Enqueue(s, release_char(s, n) \o save_char(s, n, a))
                                /\ ch' = [ch EXCEPT ![s][n] = Freed(s, n, gone)]
KickSparing(s, n, a, gone) == Enqueue(s, save_char(s, n, a)) /\ UNCHANGED ch

\* kick_char: queue the logout, then free the slot.
kick_char(s, n, a, gone) == /\ Enqueue(s, save_char(s, n, a))
                            /\ ch' = [ch EXCEPT ![s][n] = Freed(s, n, gone)]

-----------------------------------------------------------------------------
Init ==
    /\ row \in [Chars -> {[cur |-> None, allowed |-> a, data |-> 0] : a \in Areas}]
    /\ fresh = Servers
    /\ run = [s \in Servers |-> "up"]
    /\ isUp = [s \in Servers |-> Servers]
    /\ queue = [s \in Servers |-> <<>>]
    /\ ch = [s \in Servers |-> [n \in Slots |-> FreeSlot]]
    /\ login = [s \in Servers |-> NoLogin]
    /\ conn = [k \in Clients |-> Offline]
    /\ strayed = {}
    /\ crashes = 0

servers == <<fresh, run, isUp>>   (* which servers run, and what is known of it *)

-----------------------------------------------------------------------------
(* Logging in: the game loop's side of the slot (find_login, read_login). *)

\* A client connects to server s and sends the name of character c.
Connect(k, s, c) ==
    /\ conn[k].state = "off" /\ Up(s)
    /\ conn' = [conn EXCEPT ![k] = Waiting(s, c)]
    /\ UNCHANGED <<row, servers, queue, ch, login, strayed, crashes>>

Waits(k) == conn[k].state = "login" /\ Up(conn[k].at)

\* A result nobody collected for two ticks.  Only the next find_login looks.
Stale(s) == login[s].status \in Results /\ login[s].old

\* find_login with a free slot: fill it in and queue the load; before the load
\* goes what clearing a stale result queued.
Ask(k, cleared) ==
    LET s == conn[k].at
    IN  /\ login' = [login EXCEPT ![s] = [NoLogin EXCEPT !.status = "read", !.name = conn[k].name]]
        /\ Enqueue(s, Append(cleared, Plain("load")))
        /\ UNCHANGED <<row, servers, conn, strayed, crashes>>

AskEmpty(k) ==
    /\ Waits(k)
    /\ LET l == login[conn[k].at]
       IN  l.status = "empty" \/ (Stale(conn[k].at) /\ l.status # "ok")
    /\ Ask(k, <<>>)
    /\ UNCHANGED ch

\* The stale result is a new copy: release and destroy whatever is in its slot.
AskUnclaimed(k) ==
    /\ Waits(k)
    /\ LET s == conn[k].at
           l == login[s]
       IN  /\ Stale(s) /\ l.status = "ok" /\ ~l.usurped
           /\ Ask(k, release_char(s, l.cn))
           /\ ch' = [ch EXCEPT ![s][l.cn] = Freed(s, l.cn, None)]

\* The stale result is a copy that was there before: let it time out.
AskUsurped(k) ==
    /\ Waits(k)
    /\ LET s == conn[k].at
           l == login[s]
       IN  /\ Stale(s) /\ l.status = "ok" /\ l.usurped
           /\ Ask(k, <<>>)
           /\ ch' = [ch EXCEPT ![s][l.cn].lost = TRUE]

\* find_login finds a fresh result for its own name and empties the slot.
Collects(k, status) ==
    /\ Waits(k)
    /\ LET s == conn[k].at
       IN  /\ login[s].status = status /\ ~login[s].old /\ login[s].name = conn[k].name
           /\ login' = [login EXCEPT ![s] = NoLogin]
    /\ UNCHANGED <<row, servers, strayed, crashes>>

CollectRefusal(k) ==
    /\ Collects(k, "failed")
    /\ conn' = [conn EXCEPT ![k] = Offline]
    /\ UNCHANGED <<queue, ch>>

\* LS_NEWAREA and the target answers: send the client there.
CollectRedirect(k) ==
    /\ Collects(k, "newarea")
    /\ LET s == conn[k].at
           t == get_area(isUp[s], login[s].to[1], login[s].to[2])
       IN  /\ t # None
           /\ conn' = [conn EXCEPT ![k] = Hop(k, t)]
    /\ UNCHANGED <<queue, ch>>

\* LS_NEWAREA and the target is down: rescue_char, and the client has to try again.
CollectRescue(k) ==
    /\ Collects(k, "newarea")
    /\ LET s == conn[k].at
       IN  /\ get_area(isUp[s], login[s].to[1], login[s].to[2]) = None
           /\ Enqueue(s, <<[Plain("rescue") EXCEPT !.id = conn[k].name]>>)
    /\ conn' = [conn EXCEPT ![k] = Offline]
    /\ UNCHANGED ch

\* LS_OK: tie connection and character together; an older connection is closed.
CollectChar(k) ==
    /\ Collects(k, "ok")
    /\ LET s == conn[k].at
           n == login[s].cn
           x == ch[s][n]
       IN  /\ x.used
           /\ ch' = [ch EXCEPT ![s][n] = [x EXCEPT !.player = k, !.lost = FALSE]]
           /\ conn' = [j \in Clients |-> IF j = k THEN InGame(s, conn[k].name, n)
                                         ELSE IF j = x.player THEN Offline ELSE conn[j]]
    /\ UNCHANGED queue

\* LS_OK, but the character left meanwhile: the request is repeated.
CollectGone(k) ==
    /\ Collects(k, "ok")
    /\ ~ch[conn[k].at][login[conn[k].at].cn].used
    /\ UNCHANGED <<queue, ch, conn>>

\* More than two ticks pass after the result was stored.  A client that still waits for
\* it is polled every tick and collects it before.
LoginAges(s) ==
    /\ Up(s) /\ login[s].status \in Results /\ ~login[s].old
    /\ \A k \in Clients : Waits(k) /\ conn[k].at = s => conn[k].name # login[s].name
    /\ login' = [login EXCEPT ![s].old = TRUE]
    /\ UNCHANGED <<row, servers, queue, ch, conn, strayed, crashes>>

-----------------------------------------------------------------------------
(* Logging in: the game loop creates what the load has read (tick_login). *)

Creates(s) == Up(s) /\ login[s].status = "create"

Fails(s) == login' = [login EXCEPT ![s] = [NoLogin EXCEPT !.status = "failed", !.name = login[s].name]]

Succeeds(s, n, usurped) ==
    login' = [login EXCEPT ![s] = [NoLogin EXCEPT !.status = "ok", !.name = login[s].name,
                                                  !.cn = n, !.usurped = usurped]]

Holds(s, n, c) == ch[s][n].used /\ ch[s][n].id = c

\* The character is still here: cut the old connection and hand the copy over.
Usurp(s) ==
    /\ Creates(s) /\ login[s].current
    /\ \E n \in Slots :
        /\ Holds(s, n, login[s].name)
        /\ \A m \in Slots : Holds(s, m, login[s].name) => n <= m
        /\ Succeeds(s, n, TRUE)
        /\ ch' = [ch EXCEPT ![s][n] = [@ EXCEPT !.player = None, !.lost = FALSE]]
        /\ conn' = [k \in Clients |-> IF k = ch[s][n].player THEN Offline ELSE conn[k]]
    /\ UNCHANGED <<row, servers, queue, strayed, crashes>>

\* Mutant of UsurpGone: the search loop runs out and its result is used all the same.
UsurpAnyway(s) ==
    /\ Creates(s) /\ login[s].current
    /\ \A n \in Slots : ~Holds(s, n, login[s].name)
    /\ Succeeds(s, 0, TRUE)
    /\ UNCHANGED <<row, servers, queue, ch, conn, strayed, crashes>>

\* The character left after the row was read: the player has to try again.
UsurpGone(s) ==
    /\ Creates(s) /\ login[s].current
    /\ \A n \in Slots : ~Holds(s, n, login[s].name)
    /\ Fails(s)
    /\ UNCHANGED <<row, servers, queue, ch, conn, strayed, crashes>>

\* Mutant of Copy: the ppd is not copied.
BareCopy(s) == [FreeSlot EXCEPT !.used = TRUE, !.id = login[s].name]

Copy(s) == [FreeSlot EXCEPT !.used = TRUE, !.id = login[s].name, !.data = login[s].data]

\* alloc_char, copy the record, its items and its ppd, drop the character on the map.
Create(s) ==
    /\ Creates(s) /\ ~login[s].current
    /\ \E n \in Slots :
        /\ ~ch[s][n].used
        /\ ch' = [ch EXCEPT ![s][n] = Copy(s)]
        /\ Succeeds(s, n, FALSE)
    /\ UNCHANGED <<row, servers, queue, conn, strayed, crashes>>

\* alloc_char fails: login_failed, and nothing releases the row.
CreateNoSlot(s) ==
    /\ "allocFail" \in Optional
    /\ Creates(s) /\ ~login[s].current
    /\ Fails(s)
    /\ UNCHANGED <<row, servers, queue, ch, conn, strayed, crashes>>

\* alloc_item fails: login_failed, and the half-made character stays in its slot;
\* it has not got its progress (0).
CreateNoItem(s) ==
    /\ "allocFail" \in Optional
    /\ Creates(s) /\ ~login[s].current
    /\ \E n \in Slots :
        /\ ~ch[s][n].used
        /\ ch' = [ch EXCEPT ![s][n] = [Copy(s) EXCEPT !.data = 0]]
    /\ Fails(s)
    /\ UNCHANGED <<row, servers, queue, conn, strayed, crashes>>

\* drop_char_extended fails: destroy the copy and release the row.
CreateNoRoom(s) ==
    /\ "noRoom" \in Optional
    /\ Creates(s) /\ ~login[s].current
    /\ \E n \in Slots : /\ ~ch[s][n].used
                        /\ ch' = [ch EXCEPT ![s][n] = FreeSlot]
    /\ Enqueue(s, <<[op |-> "release", id |-> login[s].name, data |-> 0, area |-> 0]>>)
    /\ Fails(s)
    /\ UNCHANGED <<row, servers, conn, strayed, crashes>>

-----------------------------------------------------------------------------
(* In the game. *)

\* The character of a player in the game.
Plays(k) == conn[k].state = "play" /\ Up(conn[k].at)

\* The character gains something worth saving.
Play(k) ==
    /\ Plays(k)
    /\ LET s == conn[k].at
           n == conn[k].cn
       IN  /\ ch[s][n].used /\ ch[s][n].data < MaxData
           /\ ch' = [ch EXCEPT ![s][n].data = @ + 1]
    /\ UNCHANGED <<row, servers, queue, login, conn, strayed, crashes>>

PlayerCopy(s, n) == Up(s) /\ ch[s][n].used /\ ch[s][n].id # None

\* change_area: leave for area a and send the client there, at once.
change_area(s, n, a) ==
    /\ PlayerCopy(s, n)
    /\ LET t == get_area(isUp[s], a, Prefers[ch[s][n].id])
       IN  /\ t # None
           /\ conn' = [k \in Clients |-> IF k = ch[s][n].player THEN Hop(k, t) ELSE conn[k]]
    /\ kick_char(s, n, a, ch[s][n].player)
    /\ UNCHANGED <<row, servers, login, strayed, crashes>>

\* exit_char: leave the game towards the rest area a; a connected client is told.
exit_char(s, n, a) ==
    /\ PlayerCopy(s, n)
    /\ conn' = [k \in Clients |-> IF k = ch[s][n].player THEN Offline ELSE conn[k]]
    /\ kick_char(s, n, a, ch[s][n].player)
    /\ UNCHANGED <<row, servers, login, strayed, crashes>>

\* lostcon_driver: exit_char once the lost connection has lasted long enough.
LostconExit(s, n, a) == ch[s][n].lost /\ exit_char(s, n, a)

\* kick_char on an error path: the connection stays in the game with a freed character.
BareKick(s, n, a) ==
    /\ "bareKick" \in Optional
    /\ PlayerCopy(s, n) /\ ch[s][n].player # None
    /\ kick_char(s, n, a, None)
    /\ UNCHANGED <<row, servers, login, conn, strayed, crashes>>

\* kick_player: the connection of a client in the game is lost.
kick_player(k) ==
    /\ Plays(k)
    /\ ch' = [ch EXCEPT ![conn[k].at][conn[k].cn] = [@ EXCEPT !.player = None, !.lost = TRUE]]
    /\ conn' = [conn EXCEPT ![k] = Offline]
    /\ UNCHANGED <<row, servers, queue, login, strayed, crashes>>

\* A client that waits for its login closes the connection or is idle too long.
GiveUp(k) ==
    /\ conn[k].state = "login"
    /\ conn' = [conn EXCEPT ![k] = Offline]
    /\ UNCHANGED <<row, servers, queue, ch, login, strayed, crashes>>

\* check_ingame_idle: exit_char of whatever the connection points to, if that points back.
IdleExit(k, a) ==
    /\ Plays(k)
    /\ LET s == conn[k].at
           n == conn[k].cn
       IN  IF ch[s][n].player = k THEN kick_char(s, n, a, k) ELSE UNCHANGED <<queue, ch>>
    /\ conn' = [conn EXCEPT ![k] = Offline]
    /\ UNCHANGED <<row, servers, login, strayed, crashes>>

\* backup_players: save the character of one connection.
Backup(k) ==
    /\ Plays(k)
    /\ Len(queue[conn[k].at]) < MaxQueue
    /\ Enqueue(conn[k].at, save_char(conn[k].at, conn[k].cn, 0))
    /\ UNCHANGED <<row, servers, ch, login, conn, strayed, crashes>>

\* A monster or merchant (ID 0) respawns into a free slot, or dies.
SpawnNpc(s, n) ==
    /\ "npc" \in Optional /\ Up(s) /\ ~ch[s][n].used
    /\ ch' = [ch EXCEPT ![s][n] = [FreeSlot EXCEPT !.used = TRUE]]
    /\ UNCHANGED <<row, servers, queue, login, conn, strayed, crashes>>

NpcDies(s, n) ==
    /\ Up(s) /\ ch[s][n].used /\ ch[s][n].id = None
    /\ ch' = [ch EXCEPT ![s][n] = Freed(s, n, None)]
    /\ UNCHANGED <<row, servers, queue, login, conn, strayed, crashes>>

-----------------------------------------------------------------------------
(* The database thread (db_thread_sub): one action per kind of query. *)

Takes(s, op) ==
    /\ run[s] # "down" /\ queue[s] # <<>> /\ Head(queue[s]).op = op
    /\ queue' = [queue EXCEPT ![s] = Tail(@)]

\* "where ID=... and current_area=... and current_mirror=..."
Mine(s) == row[Head(queue[s]).id].cur = s

DoBackup(s) ==
    /\ Takes(s, "backup")
    /\ LET q == Head(queue[s])
       IN  row' = IF Mine(s) THEN [row EXCEPT ![q.id].data = q.data] ELSE row
    /\ UNCHANGED <<servers, ch, login, conn, strayed, crashes>>

DoLogout(s) ==
    /\ Takes(s, "logout")
    /\ LET q == Head(queue[s])
       IN  row' = IF Mine(s)
                  THEN [row EXCEPT ![q.id] = [cur |-> None, allowed |-> q.area, data |-> q.data]]
                  ELSE row
    /\ UNCHANGED <<servers, ch, login, conn, strayed, crashes>>

DoRelease(s) ==
    /\ Takes(s, "release")
    /\ row' = IF Mine(s) THEN [row EXCEPT ![Head(queue[s]).id].cur = None] ELSE row
    /\ UNCHANGED <<servers, ch, login, conn, strayed, crashes>>

\* load_char runs under "lock tables", so each outcome is one step.
Loads(s) == /\ Takes(s, "load")
            /\ login[s].status = "read"
            /\ UNCHANGED <<servers, ch, conn, strayed, crashes>>

\* Mutant of DupLogin: "and ID=%d" instead of "and ID!=%d".
DupLoginSelf(c) == Subscriber[c] # 1 /\ row[c].cur # None

\* load_char_dup: another character of the same account is online.  sID 1 may.
DupLogin(c) == /\ Subscriber[c] # 1
               /\ \E d \in Chars \ {c} : Subscriber[d] = Subscriber[c] /\ row[d].cur # None

\* A load_char that refuses: wrong password, locked, not paid, shutdown, SQL error.
LoadRefused(s) ==
    /\ Loads(s)
    /\ "refuse" \in Optional \/ DupLogin(login[s].name)
    /\ Fails(s)
    /\ UNCHANGED row

\* Mutant of NewArea: load_char returns without an answer.
NewAreaForgotten(s, to) == UNCHANGED <<login, row>>

\* login_newarea(area, mirror); area 0 stands for the code's -1.
NewArea(s, to) ==
    /\ login' = [login EXCEPT ![s] = [NoLogin EXCEPT !.status = "newarea",
                                                     !.name = login[s].name, !.to = to]]
    /\ UNCHANGED row

\* Mutant of Elsewhere: current_mirror is not compared.
ElsewhereArea(s, c) ==
    row[c].allowed # Area(s) \/ (row[c].cur # None /\ Area(row[c].cur) # Area(s))

Elsewhere(s, c) == row[c].allowed # Area(s) \/ row[c].cur \notin {None, s}

\* The row names another area or another server: send the client after it.
LoadElsewhere(s) ==
    /\ Loads(s)
    /\ LET c == login[s].name
           cur == row[c].cur
       IN  /\ ~DupLogin(c) /\ Elsewhere(s, c)
           /\ NewArea(s, CASE cur = None -> <<row[c].allowed,
                                              get_mirror(isUp[s], row[c].allowed, Prefers[c])>>
                           [] cur # None /\ cur \in isUp[s] -> cur
                           [] OTHER -> <<0, Mirror(cur)>>)

\* Right area, but another mirror of it is the one to be on.
LoadOtherMirror(s) ==
    /\ Loads(s)
    /\ LET c == login[s].name
           m == get_mirror(isUp[s], Area(s), Prefers[c])
       IN  /\ ~DupLogin(c) /\ ~Elsewhere(s, c) /\ m # Mirror(s)
           /\ NewArea(s, <<Area(s), m>>)

\* The character is to be here: mark it online here and hand its data over.
LoadHere(s) ==
    /\ Loads(s)
    /\ LET c == login[s].name
       IN  /\ ~DupLogin(c) /\ ~Elsewhere(s, c)
           /\ get_mirror(isUp[s], Area(s), Prefers[c]) = Mirror(s)
           /\ login' = [login EXCEPT ![s] = [NoLogin EXCEPT !.status = "create", !.name = c,
                                             !.data = row[c].data, !.current = (row[c].cur = s)]]
           /\ row' = [row EXCEPT ![c] = [@ EXCEPT !.cur = s, !.allowed = Area(s)]]

\* db_rescue_char: put the character into area 3, or else 1, whoever owns it now.
DoRescue(s) ==
    /\ Takes(s, "rescue")
    /\ LET c == Head(queue[s]).id
           haven == {a \in {1, 3} : get_area(isUp[s], a, Prefers[c]) # None}
       IN  IF haven = {} THEN UNCHANGED <<row, strayed>>
           ELSE /\ row' = [row EXCEPT ![c] = [@ EXCEPT !.cur = None, !.allowed = Max(haven)]]
                /\ strayed' = IF row[c].cur # None /\ run[row[c].cur] # "down"
                              THEN strayed \cup {c} ELSE strayed
    /\ UNCHANGED <<servers, ch, login, conn, crashes>>

\* area_alive writes alive_time (now, or 0 when going down); update_arealist reads all.
DoAlive(s) ==
    /\ \/ Takes(s, "alive") /\ fresh' = fresh \cup {s}
       \/ Takes(s, "dead") /\ fresh' = fresh \ {s}
    /\ UNCHANGED <<row, run, isUp, ch, login, conn, strayed, crashes>>

DoArealist(s) ==
    /\ Takes(s, "arealist")
    /\ isUp' = [isUp EXCEPT ![s] = fresh]
    /\ UNCHANGED <<row, fresh, run, ch, login, conn, strayed, crashes>>

-----------------------------------------------------------------------------
(* Servers: periodic queries, crash, start, shutdown. *)

Periodic(s, op) ==
    /\ "refresh" \in Optional /\ Up(s) /\ Len(queue[s]) < MaxQueue
    /\ Enqueue(s, <<Plain(op)>>)
    /\ UNCHANGED <<row, servers, ch, login, conn, strayed, crashes>>

\* Five minutes without area_alive.
AliveLapses(s) ==
    /\ s \in fresh /\ (run[s] = "down" \/ "late" \in Optional)
    /\ fresh' = fresh \ {s}
    /\ UNCHANGED <<row, run, isUp, queue, ch, login, conn, strayed, crashes>>

\* What the process s had in memory is gone.
Forget(s) ==
    /\ ch' = [ch EXCEPT ![s] = [n \in Slots |-> FreeSlot]]
    /\ conn' = [k \in Clients |-> IF conn[k].at = s THEN Offline ELSE conn[k]]

Crash(s) ==
    /\ run[s] # "down" /\ crashes < MaxCrashes
    /\ crashes' = crashes + 1
    /\ run' = [run EXCEPT ![s] = "down"]
    /\ queue' = [queue EXCEPT ![s] = <<>>]
    /\ login' = [login EXCEPT ![s] = NoLogin]
    /\ Forget(s)
    /\ UNCHANGED <<row, fresh, isUp, strayed>>

\* Mutant of Start: "where current_area!=0", the rows of every server are swept.
SweepAll(s) ==
    /\ run[s] = "down"
    /\ run' = [run EXCEPT ![s] = "up"]
    /\ row' = [c \in Chars |-> [row[c] EXCEPT !.cur = None]]
    /\ isUp' = [isUp EXCEPT ![s] = fresh]
    /\ UNCHANGED <<fresh, queue, ch, login, conn, strayed, crashes>>

\* init_database: sweep the rows that still name this server, read the area list.
Start(s) ==
    /\ run[s] = "down"
    /\ run' = [run EXCEPT ![s] = "up"]
    /\ row' = [c \in Chars |-> IF row[c].cur = s THEN [row[c] EXCEPT !.cur = None] ELSE row[c]]
    /\ isUp' = [isUp EXCEPT ![s] = fresh]
    /\ UNCHANGED <<fresh, queue, ch, login, conn, strayed, crashes>>

\* The game loop ends (quit is set).  The database thread goes on.
Shutdown(s) ==
    /\ "shutdown" \in Optional /\ Up(s)
    /\ run' = [run EXCEPT ![s] = "leaving"]
    /\ conn' = [k \in Clients |-> IF conn[k].at = s THEN Offline ELSE conn[k]]
    /\ UNCHANGED <<row, fresh, isUp, queue, ch, login, strayed, crashes>>

\* exit_char of every player character, in slot order.
LeaveNext(s) ==
    /\ run[s] = "leaving"
    /\ \E n \in Slots, a \in Areas :
        /\ ch[s][n].used /\ ch[s][n].id # None
        /\ \A m \in 1 .. n - 1 : ~ch[s][m].used \/ ch[s][m].id = None
        /\ kick_char(s, n, a, None)
    /\ UNCHANGED <<row, servers, login, conn, strayed, crashes>>

\* area_alive(1), and then exit_database waits for the queue to run empty.
AllLeft(s) ==
    /\ run[s] = "leaving"
    /\ \A n \in Slots : ~ch[s][n].used \/ ch[s][n].id = None
    /\ run' = [run EXCEPT ![s] = "draining"]
    /\ Enqueue(s, <<Plain("dead")>>)
    /\ UNCHANGED <<row, fresh, isUp, ch, login, conn, strayed, crashes>>

\* The queue has run empty: the process ends.
Drained(s) ==
    /\ run[s] = "draining" /\ queue[s] = <<>>
    /\ run' = [run EXCEPT ![s] = "down"]
    /\ login' = [login EXCEPT ![s] = NoLogin]
    /\ Forget(s)
    /\ UNCHANGED <<row, fresh, isUp, queue, strayed, crashes>>

-----------------------------------------------------------------------------
\* find_login as read_login polls it every tick.
Poll(k) == \/ AskEmpty(k) \/ AskUnclaimed(k) \/ AskUsurped(k)
           \/ CollectRefusal(k) \/ CollectRedirect(k) \/ CollectRescue(k)
           \/ CollectChar(k) \/ CollectGone(k)

tick_login(s) == \/ Usurp(s) \/ UsurpGone(s) \/ Create(s)
                 \/ CreateNoSlot(s) \/ CreateNoItem(s) \/ CreateNoRoom(s)

db_thread(s) == \/ DoBackup(s) \/ DoLogout(s) \/ DoRelease(s)
                \/ LoadRefused(s) \/ LoadElsewhere(s) \/ LoadOtherMirror(s) \/ LoadHere(s)
                \/ DoRescue(s) \/ DoAlive(s) \/ DoArealist(s)

Client(k) == \/ Poll(k) \/ Play(k) \/ kick_player(k) \/ GiveUp(k) \/ Backup(k)
             \/ \E a \in Areas : IdleExit(k, a)
             \/ \E s \in Servers, c \in Chars : Connect(k, s, c)

Slot(s, n) == \/ SpawnNpc(s, n) \/ NpcDies(s, n)
              \/ \E a \in Areas : \/ change_area(s, n, a) \/ exit_char(s, n, a)
                                  \/ LostconExit(s, n, a) \/ BareKick(s, n, a)

Server(s) == \/ LoginAges(s) \/ tick_login(s) \/ db_thread(s)
             \/ \E op \in {"alive", "arealist"} : Periodic(s, op)
             \/ AliveLapses(s) \/ Crash(s) \/ Start(s)
             \/ Shutdown(s) \/ LeaveNext(s) \/ AllLeft(s) \/ Drained(s)

Next == \/ \E k \in Clients : Client(k)
        \/ \E s \in Servers : Server(s) \/ \E n \in Slots : Slot(s, n)

Spec == Init /\ [][Next]_vars

(* The game loop and the database thread never stop while the process runs, *)
(* a waiting client is polled every tick, and a lost connection times out.  *)
Fairness ==
    /\ \A s \in Servers : WF_vars(tick_login(s)) /\ WF_vars(db_thread(s))
    /\ \A k \in Clients : WF_vars(Poll(k))
    /\ \A s \in Servers, n \in Slots : WF_vars(\E a \in Areas : LostconExit(s, n, a))

FairSpec == Spec /\ Fairness
=============================================================================
