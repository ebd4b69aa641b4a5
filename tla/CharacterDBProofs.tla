-------------------------- MODULE CharacterDBProofs --------------------------
(* The type invariant and the safety properties of CharacterDB, proved for any   *)
(* number of servers, characters, clients and slots: one request at a time, one  *)
(* character per account, and what connects clients, characters and servers that *)
(* are down.                                                                     *)
EXTENDS CharacterDBProperties, WellFoundedInduction, TLAPS

(* A non-empty set of natural numbers has a least element. *)
LEMMA LeastElement ==
    ASSUME NEW S \in SUBSET Nat, S # {}
    PROVE  Min(S) \in S /\ \A x \in S : Min(S) <= x
<1>1. PICK x \in S : \A y \in S : ~ (<<y, x>> \in OpToRel(<, Nat))
  BY NatLessThanWellFounded, WFMin
<1>2. ASSUME NEW y \in S PROVE x =< y
  <2>1. <<y, x>> \in Nat \X Nat /\ <<y, x>>[1] = y /\ <<y, x>>[2] = x
    OBVIOUS
  <2>2. <<y, x>> \notin {p \in Nat \X Nat : p[1] < p[2]}
    BY <1>1 DEF OpToRel
  <2> QED
    BY <2>1, <2>2
<1> QED
  BY <1>2 DEF Min

(* A non-empty bounded set of natural numbers has a greatest element. *)
LEMMA GreatestElement ==
    ASSUME NEW m \in Nat, NEW S \in SUBSET (0 .. m), S # {}
    PROVE  Max(S) \in S /\ \A x \in S : Max(S) >= x
<1> DEFINE T == {m - x : x \in S}
<1>1. T \in SUBSET Nat /\ T # {}
  <2>1. \A x \in S : m - x \in Nat
    OBVIOUS
  <2>2. T \in SUBSET Nat
    BY <2>1
  <2>3. PICK x \in S : TRUE
    OBVIOUS
  <2>4. m - x \in T
    OBVIOUS
  <2> QED
    BY <2>2, <2>4
<1>2. PICK t \in T : \A u \in T : t <= u
  BY <1>1, LeastElement
<1>3. PICK x \in S : t = m - x
  OBVIOUS
<1>4. \A y \in S : x >= y
  BY <1>2, <1>3
<1> QED
  BY <1>4 DEF Max

(* get_mirror returns 0 or a mirror of the area that is running. *)
LEMMA MirrorRuns ==
    ASSUME NEW U \in SUBSET Servers, NEW a, NEW m \in Nat
    PROVE  /\ get_mirror(U, a, m) \in Nat
           /\ get_mirror(U, a, m) # 0 => <<a, get_mirror(U, a, m)>> \in U
<1> DEFINE alive == {t[2] : t \in {t \in U : t[1] = a}}
           below == {n \in alive : n <= m}
<1>1. alive \in SUBSET Nat /\ \A n \in alive : <<a, n>> \in U
  BY ServersAssumption
<1>2. below \in SUBSET (0 .. m)
  BY <1>1
<1>3. below # {} => Max(below) \in below
  <2> SUFFICES ASSUME below # {} PROVE Max(below) \in below
    OBVIOUS
  <2> HIDE DEF below
  <2> QED BY <1>2, GreatestElement
<1>4. alive # {} => Min(alive) \in alive
  <2> SUFFICES ASSUME alive # {} PROVE Min(alive) \in alive
    OBVIOUS
  <2> HIDE DEF alive
  <2> QED BY <1>1, LeastElement
<1>5. get_mirror(U, a, m) \in {0} \cup alive
  BY <1>3, <1>4 DEF get_mirror
<1> QED
  BY <1>1, <1>5

-----------------------------------------------------------------------------
(* Types. *)

LEMMA AreasAreNumbers == Areas \subseteq Nat
  BY ServersAssumption DEF Areas, Area

LEMMA ServersArePairs ==
    ASSUME NEW s \in Servers
    PROVE  /\ Area(s) \in Nat \ {0} /\ Mirror(s) \in Nat \ {0}
           /\ s = <<Area(s), Mirror(s)>> /\ s \in Nat \X Nat /\ s # None
  BY ServersAssumption, NoneAssumption DEF Area, Mirror

(* get_area returns None or a server that is running. *)
LEMMA AreaRuns ==
    ASSUME NEW U \in SUBSET Servers, NEW a, NEW m \in Nat
    PROVE  get_area(U, a, m) \in U \cup {None}
  BY MirrorRuns DEF get_area

(* What the save, release and kick helpers put into the queue and the slot. *)
LEMMA SavesAreQueries ==
    ASSUME TypeOK, NEW s \in Servers, NEW n \in Slots, NEW a \in Nat
    PROVE  save_char(s, n, a) \in Seq(Query) /\ release_char(s, n) \in Seq(Query)
<1>1. ch[s][n].id \in Chars \cup {None} /\ ch[s][n].data \in Nat
  BY DEF TypeOK, SlotType
<1>2. ch[s][n].id # None =>
        /\ [op |-> IF a = 0 THEN "backup" ELSE "logout",
            id |-> ch[s][n].id, data |-> ch[s][n].data, area |-> a] \in Query
        /\ [op |-> "release", id |-> ch[s][n].id, data |-> 0, area |-> 0] \in Query
  BY <1>1 DEF Query, About
<1> QED
  BY <1>2 DEF save_char, release_char

LEMMA PlainIsQuery ==
    ASSUME NEW op \in {"load", "alive", "dead", "arealist"}
    PROVE  Plain(op) \in Query
  BY DEF Plain, Query, About

LEMMA FreedIsSlot ==
    ASSUME TypeOK, NEW s \in Servers, NEW n \in Slots, NEW gone
    PROVE  Freed(s, n, gone) \in SlotType /\ FreeSlot \in SlotType
<1>1. ch[s][n] \in SlotType /\ FreeSlot \in SlotType
  BY DEF TypeOK, SlotType, FreeSlot
<1>2. [ch[s][n] EXCEPT !.used = FALSE] \in SlotType
  BY <1>1 DEF SlotType
<1>3. [FreeSlot EXCEPT !.id = ch[s][n].id] \in SlotType
  BY <1>1 DEF SlotType
<1> QED
  BY <1>1, <1>2, <1>3 DEF Freed

LEMMA EnqueueType ==
    ASSUME TypeOK, NEW s \in Servers, NEW qs \in Seq(Query), Enqueue(s, qs)
    PROVE  queue' \in [Servers -> Seq(Query)]
  BY DEF TypeOK, Enqueue

LEMMA KickType ==
    ASSUME TypeOK, NEW s \in Servers, NEW n \in Slots, NEW a \in Nat, NEW gone,
           kick_char(s, n, a, gone)
    PROVE  queue' \in [Servers -> Seq(Query)] /\ ch' \in [Servers -> [Slots -> SlotType]]
<1>1. queue' \in [Servers -> Seq(Query)]
  BY SavesAreQueries, EnqueueType DEF kick_char
<1>2. ch' \in [Servers -> [Slots -> SlotType]]
  BY FreedIsSlot DEF kick_char, TypeOK
<1> QED
  BY <1>1, <1>2

LEMMA ConnectionTypes ==
    ASSUME NEW s \in Servers, NEW c \in Chars
    PROVE  /\ Waiting(s, c) \in ConnType
           /\ \A n \in Slots : InGame(s, c, n) \in ConnType
  BY DEF ConnType, Waiting, InGame

LEMMA OfflineType == Offline \in ConnType
  BY DEF ConnType, Offline

LEMMA HopType ==
    ASSUME TypeOK, NEW k \in Clients, NEW t
    PROVE  Hop(k, t) \in ConnType
<1>1. conn[k].state # "off" => conn[k].name \in Chars
  BY DEF TypeOK, ConnType
<1> QED
  BY <1>1, ConnectionTypes, OfflineType DEF Hop

LEMMA LoginTypes ==
    ASSUME TypeOK, NEW s \in Servers, login[s].status # "empty"
    PROVE  /\ login[s] \in LoginType /\ login[s].name \in Chars
           /\ Fails(s) => login' \in [Servers -> LoginType]
           /\ \A n \in Slots, u \in BOOLEAN :
                 Succeeds(s, n, u) => login' \in [Servers -> LoginType]
<1>1. login[s] \in LoginType /\ login \in [Servers -> LoginType] /\ login[s].name \in Chars
  BY DEF TypeOK, LoginType
<1>3. [NoLogin EXCEPT !.status = "failed", !.name = login[s].name] \in LoginType
  BY <1>1 DEF LoginType, NoLogin, Results
<1>4. ASSUME NEW n \in Slots, NEW u \in BOOLEAN
      PROVE  [NoLogin EXCEPT !.status = "ok", !.name = login[s].name,
                             !.cn = n, !.usurped = u] \in LoginType
  BY <1>1 DEF LoginType, NoLogin, Results
<1> QED
  BY <1>1, <1>3, <1>4 DEF Fails, Succeeds

LEMMA NoLoginType == NoLogin \in LoginType
  BY DEF LoginType, NoLogin, Results

(* Every action of a client keeps the types. *)
LEMMA ClientTypes ==
    ASSUME TypeOK, NEW k \in Clients, Client(k)
    PROVE  TypeOK'
<1>1. ASSUME Waits(k)
      PROVE  /\ conn[k].at \in Servers /\ conn[k].name \in Chars
             /\ login[conn[k].at] \in LoginType
  BY <1>1 DEF TypeOK, ConnType, Waits
<1>2. ASSUME Plays(k)
      PROVE  /\ conn[k].at \in Servers /\ conn[k].cn \in Slots
             /\ ch[conn[k].at][conn[k].cn] \in SlotType
  BY <1>2 DEF TypeOK, ConnType, Plays
<1>3. ASSUME NEW cleared \in Seq(Query), Waits(k), Ask(k, cleared)
      PROVE  /\ queue' \in [Servers -> Seq(Query)] /\ login' \in [Servers -> LoginType]
             /\ UNCHANGED <<row, servers, conn, strayed, crashes>>
  <2>1. Append(cleared, Plain("load")) \in Seq(Query)
    BY PlainIsQuery
  <2>2. [NoLogin EXCEPT !.status = "read", !.name = conn[k].name] \in LoginType
    BY <1>1, <1>3 DEF LoginType, NoLogin, Results
  <2> QED
    BY <1>1, <1>3, <2>1, <2>2, EnqueueType DEF Ask, TypeOK
<1>4. ASSUME NEW status, Collects(k, status)
      PROVE  /\ login' \in [Servers -> LoginType] /\ Waits(k)
             /\ UNCHANGED <<row, servers, strayed, crashes>>
  BY <1>1, <1>4, NoLoginType DEF Collects, TypeOK
<1>19. <<>> \in Seq(Query)
  OBVIOUS
<1>5. CASE AskEmpty(k)
  BY <1>3, <1>5, <1>19 DEF AskEmpty, TypeOK, servers
<1>6. CASE AskUnclaimed(k)
  <2>1. login[conn[k].at].cn \in Slots /\ conn[k].at \in Servers
    BY <1>1, <1>6 DEF AskUnclaimed, LoginType
  <2>2. release_char(conn[k].at, login[conn[k].at].cn) \in Seq(Query)
    BY <2>1, SavesAreQueries, 0 \in Nat
  <2>3. Ask(k, release_char(conn[k].at, login[conn[k].at].cn)) /\ Waits(k)
    BY <1>6 DEF AskUnclaimed
  <2>4. ch' \in [Servers -> [Slots -> SlotType]]
    BY <1>6, <2>1, FreedIsSlot DEF AskUnclaimed, TypeOK
  <2> QED
    BY <1>3, <2>2, <2>3, <2>4 DEF TypeOK, servers
<1>7. CASE AskUsurped(k)
  <2>1. login[conn[k].at].cn \in Slots /\ conn[k].at \in Servers
    BY <1>1, <1>7 DEF AskUsurped, LoginType
  <2>2. Ask(k, <<>>) /\ Waits(k)
    BY <1>7 DEF AskUsurped
  <2> DEFINE x == ch[conn[k].at][login[conn[k].at].cn]
  <2>3. [x EXCEPT !.lost = TRUE] \in SlotType
    <3>1. x \in SlotType
      BY <2>1 DEF TypeOK
    <3> QED
      BY <3>1 DEF SlotType
  <2>4. ch' \in [Servers -> [Slots -> SlotType]]
    BY <1>7, <2>1, <2>3 DEF AskUsurped, TypeOK
  <2> QED
    BY <1>3, <1>19, <2>2, <2>4 DEF TypeOK, servers
<1>8. CASE CollectRefusal(k)
  BY <1>4, <1>8, OfflineType DEF CollectRefusal, TypeOK, servers
<1>9. CASE CollectRedirect(k)
  <2>1. \A t : Hop(k, t) \in ConnType
    BY <1>9, HopType DEF CollectRedirect, Collects, Waits
  <2> QED
    BY <1>4, <1>9, <2>1 DEF CollectRedirect, TypeOK, servers
<1>10. CASE CollectRescue(k)
  <2>1. Waits(k) /\ login' \in [Servers -> LoginType]
    BY <1>4, <1>10 DEF CollectRescue
  <2>2. [Plain("rescue") EXCEPT !.id = conn[k].name] \in Query
    BY <1>1, <2>1 DEF Plain, Query, About
  <2>3. queue' \in [Servers -> Seq(Query)]
    <3>1. <<[Plain("rescue") EXCEPT !.id = conn[k].name]>> \in Seq(Query)
      BY <2>2
    <3> QED
      BY <1>1, <1>10, <2>1, <3>1, EnqueueType DEF CollectRescue
  <2> QED
    BY <1>10, <2>1, <2>3, OfflineType DEF CollectRescue, Collects, TypeOK, servers
<1>11. CASE CollectChar(k)
  <2>1. Collects(k, "ok")
    BY <1>11 DEF CollectChar
  <2> DEFINE s == conn[k].at
             n == login[s].cn
  <2>2. s \in Servers /\ n \in Slots /\ conn[k].name \in Chars
    BY <1>1, <1>4, <2>1 DEF Collects, LoginType
  <2>3. ch' \in [Servers -> [Slots -> SlotType]]
    <3> HIDE DEF s, n
    <3>2. ch[s][n] \in SlotType
      BY <2>2 DEF TypeOK
    <3>1. [ch[s][n] EXCEPT !.player = k, !.lost = FALSE] \in SlotType
      BY <3>2 DEF SlotType
    <3> USE DEF s, n
    <3> QED
      BY <1>11, <2>2, <3>1 DEF CollectChar, TypeOK
  <2>4. conn' \in [Clients -> ConnType]
    BY <1>11, <2>2, ConnectionTypes, OfflineType DEF CollectChar, TypeOK
  <2> QED
    BY <1>4, <1>11, <2>1, <2>3, <2>4 DEF CollectChar, TypeOK, servers
<1>12. CASE CollectGone(k)
  BY <1>4, <1>12 DEF CollectGone, TypeOK, servers
<1>13. CASE Play(k)
  <2>1. ch' \in [Servers -> [Slots -> SlotType]]
    <3>1. [ch[conn[k].at][conn[k].cn] EXCEPT !.data = @ + 1] \in SlotType
      <4>1. ASSUME NEW x \in SlotType PROVE [x EXCEPT !.data = @ + 1] \in SlotType
        BY DEF SlotType
      <4>2. ch[conn[k].at][conn[k].cn] \in SlotType
        BY <1>2, <1>13 DEF Play, TypeOK
      <4> QED
        BY <4>1, <4>2
    <3> QED
      BY <1>2, <1>13, <3>1 DEF Play, TypeOK
  <2> QED
    BY <1>13, <2>1 DEF Play, TypeOK, servers
<1>14. CASE kick_player(k)
  <2>1. ch' \in [Servers -> [Slots -> SlotType]]
    BY <1>2, <1>14 DEF kick_player, TypeOK, SlotType
  <2> QED
    BY <1>14, <2>1, OfflineType DEF kick_player, TypeOK, servers
<1>15. CASE GiveUp(k)
  BY <1>15, OfflineType DEF GiveUp, TypeOK, servers
<1>16. CASE Backup(k)
  <2>1. queue' \in [Servers -> Seq(Query)]
    BY <1>2, <1>16, SavesAreQueries, EnqueueType, 0 \in Nat DEF Backup
  <2> QED
    BY <1>16, <2>1 DEF Backup, TypeOK, servers
<1>17. ASSUME NEW a \in Areas, IdleExit(k, a) PROVE TypeOK'
  <2>1. queue' \in [Servers -> Seq(Query)] /\ ch' \in [Servers -> [Slots -> SlotType]]
    BY <1>2, <1>17, KickType, AreasAreNumbers DEF IdleExit, TypeOK
  <2> QED
    BY <1>17, <2>1, OfflineType DEF IdleExit, TypeOK, servers
<1>18. ASSUME NEW s \in Servers, NEW c \in Chars, Connect(k, s, c) PROVE TypeOK'
  BY <1>18, ConnectionTypes DEF Connect, TypeOK, servers
<1> QED
  BY <1>5, <1>6, <1>7, <1>8, <1>9, <1>10, <1>11, <1>12, <1>13, <1>14, <1>15, <1>16,
     <1>17, <1>18 DEF Client, Poll

(* Every action on a character slot keeps the types. *)
LEMMA SlotTypes ==
    ASSUME TypeOK, NEW s \in Servers, NEW n \in Slots, Slot(s, n)
    PROVE  TypeOK'
<1>1. ch[s][n] \in SlotType
  BY DEF TypeOK
<1>2. CASE SpawnNpc(s, n)
  <2>1. [FreeSlot EXCEPT !.used = TRUE] \in SlotType
    BY DEF FreeSlot, SlotType
  <2> QED
    BY <1>2, <2>1 DEF SpawnNpc, TypeOK, servers
<1>3. CASE NpcDies(s, n)
  BY <1>3, FreedIsSlot DEF NpcDies, TypeOK, servers
<1>4. ASSUME NEW a \in Areas, change_area(s, n, a) PROVE TypeOK'
  BY <1>4, KickType, HopType, AreasAreNumbers DEF change_area, TypeOK, servers
<1>5. ASSUME NEW a \in Areas, exit_char(s, n, a) PROVE TypeOK'
  BY <1>5, KickType, OfflineType, AreasAreNumbers DEF exit_char, TypeOK, servers
<1>6. ASSUME NEW a \in Areas, BareKick(s, n, a) PROVE TypeOK'
  BY <1>6, KickType, AreasAreNumbers DEF BareKick, TypeOK, servers
<1> QED
  BY <1>2, <1>3, <1>4, <1>5, <1>6 DEF Slot, LostconExit

(* Every query the database thread executes keeps the types. *)
LEMMA DatabaseTypes ==
    ASSUME TypeOK, NEW s \in Servers, db_thread(s)
    PROVE  TypeOK'
<1>1. ASSUME NEW op, Takes(s, op)
      PROVE  /\ queue' \in [Servers -> Seq(Query)] /\ Head(queue[s]) \in Query
             /\ Head(queue[s]).op = op /\ Head(queue[s]).data \in Nat
             /\ Head(queue[s]).area \in Nat
             /\ op \in About => Head(queue[s]).id \in Chars
  <2>1. queue[s] \in Seq(Query) /\ queue[s] # <<>> /\ Head(queue[s]).op = op
    BY <1>1 DEF Takes, TypeOK
  <2>2. Head(queue[s]) \in Query /\ Tail(queue[s]) \in Seq(Query)
    BY <2>1
  <2> QED
    BY <1>1, <2>1, <2>2 DEF Takes, TypeOK, Query
<1>2. CASE DoBackup(s)
  <2> DEFINE q == Head(queue[s])
  <2>1. q.id \in Chars /\ q.data \in Nat /\ queue' \in [Servers -> Seq(Query)]
    BY <1>1, <1>2 DEF DoBackup, About
  <2> DEFINE r == [row[q.id] EXCEPT !.data = q.data]
  <2>3. row' = row \/ row' = [row EXCEPT ![q.id].data = q.data]
    BY <1>2 DEF DoBackup
  <2>4. r \in [cur : Servers \cup {None}, allowed : Nat, data : Nat]
    <3>1. row[q.id] \in [cur : Servers \cup {None}, allowed : Nat, data : Nat]
      BY <2>1 DEF TypeOK
    <3>2. ASSUME NEW y \in [cur : Servers \cup {None}, allowed : Nat, data : Nat], NEW d \in Nat
          PROVE  [y EXCEPT !.data = d] \in [cur : Servers \cup {None}, allowed : Nat, data : Nat]
      OBVIOUS
    <3> QED
      BY <2>1, <3>1, <3>2
  <2> HIDE DEF q
  <2>2. row' \in [Chars -> [cur : Servers \cup {None}, allowed : Nat, data : Nat]]
    BY <2>1, <2>3, <2>4 DEF TypeOK
  <2> QED
    BY <1>2, <2>1, <2>2 DEF DoBackup, TypeOK, servers
<1>3. CASE DoLogout(s)
  <2> DEFINE q == Head(queue[s])
  <2>1. /\ q.id \in Chars /\ q.data \in Nat /\ q.area \in Nat
        /\ queue' \in [Servers -> Seq(Query)]
    BY <1>1, <1>3 DEF DoLogout, About
  <2>2. row' \in [Chars -> [cur : Servers \cup {None}, allowed : Nat, data : Nat]]
    BY <1>3, <2>1 DEF DoLogout, TypeOK
  <2> QED
    BY <1>3, <2>1, <2>2 DEF DoLogout, TypeOK, servers
<1>4. CASE DoRelease(s)
  <2> DEFINE q == Head(queue[s])
  <2>1. q.id \in Chars /\ queue' \in [Servers -> Seq(Query)]
    BY <1>1, <1>4 DEF DoRelease, About
  <2> DEFINE r == [row[q.id] EXCEPT !.cur = None]
  <2>3. row' = row \/ row' = [row EXCEPT ![q.id].cur = None]
    BY <1>4 DEF DoRelease
  <2>4. r \in [cur : Servers \cup {None}, allowed : Nat, data : Nat]
    <3>1. row[q.id] \in [cur : Servers \cup {None}, allowed : Nat, data : Nat]
      BY <2>1 DEF TypeOK
    <3>2. ASSUME NEW y \in [cur : Servers \cup {None}, allowed : Nat, data : Nat], NEW d \in Servers \cup {None}
          PROVE  [y EXCEPT !.cur = d] \in [cur : Servers \cup {None}, allowed : Nat, data : Nat]
      OBVIOUS
    <3> QED
      BY <2>1, <3>1, <3>2
  <2> HIDE DEF q
  <2>2. row' \in [Chars -> [cur : Servers \cup {None}, allowed : Nat, data : Nat]]
    BY <2>1, <2>3, <2>4 DEF TypeOK
  <2> QED
    BY <1>4, <2>1, <2>2 DEF DoRelease, TypeOK, servers
<1>5. ASSUME Loads(s)
      PROVE  /\ queue' \in [Servers -> Seq(Query)]
             /\ login[s].name \in Chars /\ login[s].status # "empty"
             /\ row[login[s].name] \in [cur : Servers \cup {None}, allowed : Nat, data : Nat]
             /\ UNCHANGED <<servers, ch, conn, strayed, crashes>>
  BY <1>1, <1>5, LoginTypes DEF Loads, TypeOK
<1>6. CASE LoadRefused(s)
  BY <1>5, <1>6, LoginTypes DEF LoadRefused, TypeOK, servers
<1>7. ASSUME NEW to \in Nat \X Nat, Loads(s), NewArea(s, to)
      PROVE  TypeOK'
  <2>1. [NoLogin EXCEPT !.status = "newarea", !.name = login[s].name, !.to = to] \in LoginType
    BY <1>5, <1>7 DEF LoginType, NoLogin, Results
  <2> QED
    BY <1>5, <1>7, <2>1 DEF NewArea, TypeOK, servers
<1>8. \A c \in Chars : \A a : get_mirror(isUp[s], a, Prefers[c]) \in Nat /\ Prefers[c] \in Nat
  BY MirrorRuns, CharsAssumption DEF TypeOK
<1>9. CASE LoadElsewhere(s)
  <2> DEFINE c == login[s].name
             to == CASE row[c].cur = None -> <<row[c].allowed,
                                               get_mirror(isUp[s], row[c].allowed, Prefers[c])>>
                     [] row[c].cur # None /\ row[c].cur \in isUp[s] -> row[c].cur
                     [] OTHER -> <<0, Mirror(row[c].cur)>>
  <2>1. Loads(s) /\ NewArea(s, to)
    BY <1>9 DEF LoadElsewhere
  <2>2. c \in Chars /\ row[c].cur \in Servers \cup {None} /\ row[c].allowed \in Nat
    BY <1>5, <2>1
  <2>3. row[c].cur # None => row[c].cur \in Nat \X Nat /\ Mirror(row[c].cur) \in Nat
    BY <2>2, ServersArePairs
  <2>4. to \in Nat \X Nat
    BY <1>8, <2>2, <2>3
  <2> HIDE DEF to
  <2> QED
    BY <1>7, <2>1, <2>4
<1>10. CASE LoadOtherMirror(s)
  <2> DEFINE c == login[s].name
             to == <<Area(s), get_mirror(isUp[s], Area(s), Prefers[c])>>
  <2>1. Loads(s) /\ NewArea(s, to)
    BY <1>10 DEF LoadOtherMirror
  <2>2. to \in Nat \X Nat
    BY <1>5, <1>8, <2>1, ServersArePairs
  <2> QED
    BY <1>7, <2>1, <2>2
<1>11. CASE LoadHere(s)
  <2> DEFINE c == login[s].name
             l == [NoLogin EXCEPT !.status = "create", !.name = c,
                                  !.data = row[c].data, !.current = (row[c].cur = s)]
  <2>1. Loads(s)
    BY <1>11 DEF LoadHere
  <2>2. l \in LoginType
    BY <1>5, <2>1 DEF LoginType, NoLogin, Results
  <2>3. [row[c] EXCEPT !.cur = s, !.allowed = Area(s)]
          \in [cur : Servers \cup {None}, allowed : Nat, data : Nat]
    BY <1>5, <2>1, ServersArePairs
  <2>4. row' \in [Chars -> [cur : Servers \cup {None}, allowed : Nat, data : Nat]]
    BY <1>11, <2>3 DEF LoadHere, TypeOK
  <2>5. login' \in [Servers -> LoginType]
    BY <1>11, <2>2 DEF LoadHere, TypeOK
  <2> QED
    BY <1>5, <2>1, <2>4, <2>5 DEF TypeOK, servers
<1>12. CASE DoRescue(s)
  <2> DEFINE c == Head(queue[s]).id
             haven == {a \in {1, 3} : get_area(isUp[s], a, Prefers[c]) # None}
  <2>1. c \in Chars /\ queue' \in [Servers -> Seq(Query)]
    BY <1>1, <1>12 DEF DoRescue, About
  <2>2. haven # {} => Max(haven) \in Nat
    <3>1. haven \in SUBSET (0 .. 3)
      OBVIOUS
    <3> HIDE DEF haven
    <3>2. ASSUME haven # {} PROVE Max(haven) \in haven
      BY <3>1, <3>2, 3 \in Nat, GreatestElement
    <3>3. \A a \in haven : a \in Nat
      BY <3>1
    <3> QED
      BY <3>2, <3>3
  <2>3. row' \in [Chars -> [cur : Servers \cup {None}, allowed : Nat, data : Nat]]
    <3> DEFINE m == Max(haven)
               r == [row[c] EXCEPT !.cur = None, !.allowed = m]
    <3>1. row' = row \/ (haven # {} /\ row' = [row EXCEPT ![c] = r])
      BY <1>12, <2>1 DEF DoRescue, TypeOK
    <3>2. haven # {} => m \in Nat
      BY <2>2
    <3> HIDE DEF haven, m
    <3>3. haven # {} => r \in [cur : Servers \cup {None}, allowed : Nat, data : Nat]
      <4>1. row[c] \in [cur : Servers \cup {None}, allowed : Nat, data : Nat]
        BY <2>1 DEF TypeOK
      <4>2. ASSUME NEW y \in [cur : Servers \cup {None}, allowed : Nat, data : Nat], NEW a \in Nat
            PROVE  [y EXCEPT !.cur = None, !.allowed = a] \in [cur : Servers \cup {None}, allowed : Nat, data : Nat]
        OBVIOUS
      <4> QED
        BY <3>2, <4>1, <4>2
    <3> HIDE DEF r
    <3> QED
      BY <2>1, <3>1, <3>3 DEF TypeOK
  <2>4. strayed' \subseteq Chars
    BY <1>12, <2>1 DEF DoRescue, TypeOK
  <2> QED
    BY <1>12, <2>1, <2>3, <2>4 DEF DoRescue, TypeOK, servers
<1>13. CASE DoAlive(s)
  BY <1>1, <1>13 DEF DoAlive, TypeOK
<1>14. CASE DoArealist(s)
  BY <1>1, <1>14 DEF DoArealist, TypeOK
<1> QED
  BY <1>2, <1>3, <1>4, <1>6, <1>9, <1>10, <1>11, <1>12, <1>13, <1>14 DEF db_thread

(* Creating what a load has read keeps the types. *)
LEMMA CreationTypes ==
    ASSUME TypeOK, NEW s \in Servers, tick_login(s)
    PROVE  TypeOK'
<1>1. login[s].status # "empty" /\ login[s] \in LoginType
  BY DEF TypeOK, tick_login, Creates, Usurp, UsurpGone, Create, CreateNoSlot,
         CreateNoItem, CreateNoRoom
<1>2. /\ login[s].name \in Chars
      /\ Fails(s) => login' \in [Servers -> LoginType]
      /\ \A n \in Slots, u \in BOOLEAN :
            Succeeds(s, n, u) => login' \in [Servers -> LoginType]
  BY <1>1, LoginTypes
<1>3. Copy(s) \in SlotType /\ [Copy(s) EXCEPT !.data = 0] \in SlotType /\ FreeSlot \in SlotType
  BY <1>1, <1>2 DEF Copy, FreeSlot, SlotType, LoginType
<1>4. CASE Usurp(s)
  <2>1. PICK n \in Slots :
          /\ Succeeds(s, n, TRUE)
          /\ ch' = [ch EXCEPT ![s][n] = [@ EXCEPT !.player = None, !.lost = FALSE]]
          /\ conn' = [k \in Clients |-> IF k = ch[s][n].player THEN Offline ELSE conn[k]]
    BY <1>4 DEF Usurp
  <2>2. ch[s][n] \in SlotType
    BY DEF TypeOK
  <2>3. [ch[s][n] EXCEPT !.player = None, !.lost = FALSE] \in SlotType
    BY <2>2 DEF SlotType
  <2>4. ch' \in [Servers -> [Slots -> SlotType]]
    BY <2>1, <2>3 DEF TypeOK
  <2> QED
    BY <1>2, <1>4, <2>1, <2>4, OfflineType DEF Usurp, TypeOK, servers
<1>5. CASE UsurpGone(s)
  BY <1>2, <1>5 DEF UsurpGone, TypeOK, servers
<1>6. CASE Create(s)
  <2>1. PICK n \in Slots : ch' = [ch EXCEPT ![s][n] = Copy(s)] /\ Succeeds(s, n, FALSE)
    BY <1>6 DEF Create
  <2>2. ch' \in [Servers -> [Slots -> SlotType]]
    BY <1>3, <2>1 DEF TypeOK
  <2>3. login' \in [Servers -> LoginType]
    BY <1>2, <2>1
  <2> QED
    BY <1>6, <2>2, <2>3 DEF Create, TypeOK, servers
<1>7. CASE CreateNoSlot(s)
  BY <1>2, <1>7 DEF CreateNoSlot, TypeOK, servers
<1>8. CASE CreateNoItem(s)
  BY <1>2, <1>3, <1>8 DEF CreateNoItem, TypeOK, servers
<1>9. CASE CreateNoRoom(s)
  <2> DEFINE q == [op |-> "release", id |-> login[s].name, data |-> 0, area |-> 0]
  <2>1. q \in Query
    BY <1>2 DEF Query, About
  <2>2. <<q>> \in Seq(Query) /\ Enqueue(s, <<q>>)
    BY <1>9, <2>1 DEF CreateNoRoom
  <2>3. queue' \in [Servers -> Seq(Query)]
    BY <2>2, EnqueueType
  <2>4. ch' \in [Servers -> [Slots -> SlotType]]
    BY <1>3, <1>9 DEF CreateNoRoom, TypeOK
  <2>5. login' \in [Servers -> LoginType]
    BY <1>2, <1>9 DEF CreateNoRoom
  <2> QED
    BY <1>9, <2>3, <2>4, <2>5 DEF CreateNoRoom, TypeOK, servers
<1> QED
  BY <1>4, <1>5, <1>6, <1>7, <1>8, <1>9 DEF tick_login

(* What a server does besides keeps the types. *)
LEMMA ServerTypes ==
    ASSUME TypeOK, NEW s \in Servers, Server(s)
    PROVE  TypeOK'
<1>1. \A op \in {"load", "alive", "dead", "arealist"} : <<Plain(op)>> \in Seq(Query)
  BY PlainIsQuery
<1>2. ASSUME Forget(s)
      PROVE  ch' \in [Servers -> [Slots -> SlotType]] /\ conn' \in [Clients -> ConnType]
  BY <1>2, OfflineType DEF Forget, FreeSlot, SlotType, TypeOK
<1>3. CASE LoginAges(s)
  <2>1. [login[s] EXCEPT !.old = TRUE] \in LoginType
    <3>1. login[s] \in LoginType
      BY DEF TypeOK
    <3> QED
      BY <3>1 DEF LoginType
  <2> QED
    BY <1>3, <2>1 DEF LoginAges, TypeOK, servers
<1>4. CASE tick_login(s)
  BY <1>4, CreationTypes
<1>5. CASE db_thread(s)
  BY <1>5, DatabaseTypes
<1>6. ASSUME NEW op \in {"alive", "arealist"}, Periodic(s, op) PROVE TypeOK'
  BY <1>1, <1>6, EnqueueType DEF Periodic, TypeOK, servers
<1>7. CASE AliveLapses(s)
  BY <1>7 DEF AliveLapses, TypeOK
<1>8. CASE Crash(s)
  <2>1. <<>> \in Seq(Query)
    OBVIOUS
  <2> QED
    BY <1>2, <1>8, <2>1, NoLoginType DEF Crash, TypeOK
<1>9. CASE Start(s)
  <2>1. ASSUME NEW c \in Chars
        PROVE  row[c] \in [cur : Servers \cup {None}, allowed : Nat, data : Nat] /\ [row[c] EXCEPT !.cur = None] \in [cur : Servers \cup {None}, allowed : Nat, data : Nat]
    <3>1. row[c] \in [cur : Servers \cup {None}, allowed : Nat, data : Nat]
      BY <2>1 DEF TypeOK
    <3>2. ASSUME NEW y \in [cur : Servers \cup {None}, allowed : Nat, data : Nat] PROVE [y EXCEPT !.cur = None] \in [cur : Servers \cup {None}, allowed : Nat, data : Nat]
      OBVIOUS
    <3> QED
      BY <3>1, <3>2
  <2>2. row' \in [Chars -> [cur : Servers \cup {None}, allowed : Nat, data : Nat]]
    BY <1>9, <2>1 DEF Start, TypeOK
  <2>3. run' \in [Servers -> {"down", "up", "leaving", "draining"}]
    BY <1>9 DEF Start, TypeOK
  <2>4. isUp' \in [Servers -> SUBSET Servers]
    BY <1>9 DEF Start, TypeOK
  <2> QED
    BY <1>9, <2>2, <2>3, <2>4 DEF Start, TypeOK
<1>10. CASE Shutdown(s)
  BY <1>10, OfflineType DEF Shutdown, TypeOK
<1>11. CASE LeaveNext(s)
  BY <1>11, KickType, AreasAreNumbers DEF LeaveNext, TypeOK, servers
<1>12. CASE AllLeft(s)
  BY <1>1, <1>12, EnqueueType DEF AllLeft, TypeOK
<1>13. CASE Drained(s)
  BY <1>2, <1>13, NoLoginType DEF Drained, TypeOK
<1> QED
  BY <1>3, <1>4, <1>5, <1>6, <1>7, <1>8, <1>9, <1>10, <1>11, <1>12, <1>13 DEF Server

LEMMA InitialTypes == Init => TypeOK
  BY AreasAreNumbers, OfflineType, NoLoginType
     DEF Init, TypeOK, FreeSlot, SlotType

LEMMA StepTypes == TypeOK /\ [Next]_vars => TypeOK'
<1> SUFFICES ASSUME TypeOK, [Next]_vars PROVE TypeOK'
  OBVIOUS
<1>1. CASE UNCHANGED vars
  BY <1>1 DEF TypeOK, vars
<1> QED
  BY <1>1, ClientTypes, SlotTypes, ServerTypes DEF Next

(* Every reachable state is well typed; in particular a client that waits or    *)
(* plays does so at a server, a result of a login names the character it is     *)
(* about, and every query about a character names one.                          *)
THEOREM TypeCorrect == Spec => []TypeOK
  BY InitialTypes, StepTypes, PTL DEF Spec

-----------------------------------------------------------------------------
(* What the two ways to change a queue do to its positions. *)

LEMMA TakesShifts ==
    ASSUME TypeOK, NEW s \in Servers, NEW op, Takes(s, op)
    PROVE  /\ run[s] # "down"
           /\ queue' \in [Servers -> Seq(Query)]
           /\ 1 \in DOMAIN queue[s] /\ queue[s][1] = Head(queue[s]) /\ queue[s][1].op = op
           /\ \A i \in DOMAIN queue'[s] :
                 /\ i \in Nat \ {0} /\ i + 1 \in DOMAIN queue[s]
                 /\ queue'[s][i] = queue[s][i + 1]
           /\ \A t \in Servers \ {s} : queue'[t] = queue[t]
<1>1. queue[s] \in Seq(Query) /\ queue[s] # <<>> /\ queue'[s] = Tail(queue[s])
  BY DEF Takes, TypeOK
<1> QED
  BY <1>1 DEF Takes, TypeOK

LEMMA EnqueueAppends ==
    ASSUME TypeOK, NEW s \in Servers, NEW qs \in Seq(Query), Enqueue(s, qs)
    PROVE  /\ queue' \in [Servers -> Seq(Query)]
           /\ DOMAIN queue[s] = 1 .. Len(queue[s]) /\ Len(queue[s]) \in Nat
           /\ DOMAIN queue'[s] = 1 .. Len(queue[s]) + Len(qs)
           /\ \A i \in DOMAIN queue[s] : queue'[s][i] = queue[s][i]
           /\ \A i \in DOMAIN queue'[s] : i \notin DOMAIN queue[s] =>
                 /\ i - Len(queue[s]) \in 1 .. Len(qs)
                 /\ queue'[s][i] = qs[i - Len(queue[s])]
           /\ \A t \in Servers \ {s} : queue'[t] = queue[t]
<1>1. queue[s] \in Seq(Query) /\ queue'[s] = queue[s] \o qs
  BY DEF Enqueue, TypeOK
<1> QED
  BY <1>1 DEF Enqueue, TypeOK

-----------------------------------------------------------------------------
(* One request at a time (LoadFindsRequest). *)

(* Loads of the new queue were in the old one, d places behind, and the slot of *)
(* a server that may have a load queued is left alone.                          *)
LoadsKept(s) == \E d \in Nat : \A i \in DOMAIN queue'[s] :
                   queue'[s][i].op = "load" =>
                      i + d \in DOMAIN queue[s] /\ queue[s][i + d].op = "load"

LEMMA LoadsFrame ==
    ASSUME TypeOK, TypeOK', LoadFindsRequest,
           \A s \in Servers : /\ LoadsKept(s)
                              /\ login[s].status = "read" => login'[s].status = "read"
    PROVE  LoadFindsRequest'
<1> SUFFICES ASSUME NEW s \in Servers, NEW i \in DOMAIN queue'[s], queue'[s][i].op = "load"
             PROVE  /\ login'[s].status = "read"
                    /\ \A j \in DOMAIN queue'[s] : queue'[s][j].op = "load" => i = j
  BY DEF LoadFindsRequest
<1>1. PICK d \in Nat : \A j \in DOMAIN queue'[s] :
        queue'[s][j].op = "load" => j + d \in DOMAIN queue[s] /\ queue[s][j + d].op = "load"
  BY DEF LoadsKept
<1>2. login'[s].status = "read"
  BY <1>1 DEF LoadFindsRequest
<1>3. ASSUME NEW j \in DOMAIN queue'[s], queue'[s][j].op = "load" PROVE i = j
  <2>1. i + d = j + d
    BY <1>1, <1>3 DEF LoadFindsRequest
  <2>2. DOMAIN queue'[s] \subseteq Nat
    BY DEF TypeOK
  <2>3. i \in Nat /\ j \in Nat /\ d \in Nat
    BY <2>2
  <2> QED
    BY <2>1, <2>3
<1> QED
  BY <1>2, <1>3

LEMMA QueueSameKeepsLoads ==
    ASSUME TypeOK, UNCHANGED queue, NEW s \in Servers
    PROVE  LoadsKept(s)
<1>1. \A i \in DOMAIN queue'[s] : i + 0 = i
  BY DEF TypeOK
<1> QED
  BY <1>1, 0 \in Nat DEF LoadsKept

LEMMA EnqueueKeepsLoads ==
    ASSUME TypeOK, NEW s \in Servers, NEW qs \in Seq(Query), Enqueue(s, qs),
           \A i \in 1 .. Len(qs) : qs[i].op # "load", NEW t \in Servers
    PROVE  LoadsKept(t)
<1>1. \A i \in DOMAIN queue'[t] : i + 0 = i
  BY EnqueueAppends DEF TypeOK
<1>2. \A i \in DOMAIN queue'[t] :
        queue'[t][i].op = "load" => i \in DOMAIN queue[t] /\ queue[t][i].op = "load"
  <2>1. CASE t = s
    BY <2>1, EnqueueAppends
  <2>2. CASE t # s
    BY <2>2, EnqueueAppends
  <2> QED
    BY <2>1, <2>2
<1> QED
  BY <1>1, <1>2, 0 \in Nat DEF LoadsKept

LEMMA TakesKeepsLoads ==
    ASSUME TypeOK, NEW s \in Servers, NEW op, Takes(s, op), NEW t \in Servers
    PROVE  LoadsKept(t)
<1>1. CASE t = s
  BY <1>1, TakesShifts, 1 \in Nat DEF LoadsKept
<1>2. CASE t # s
  <2>1. \A i \in DOMAIN queue'[t] : i + 0 = i
    BY <1>2, TakesShifts DEF TypeOK
  <2> QED
    BY <1>2, <2>1, TakesShifts, 0 \in Nat DEF LoadsKept
<1> QED
  BY <1>1, <1>2

(* What save_char and release_char queue is never a load. *)
LEMMA SavesAreNoLoads ==
    ASSUME NEW s, NEW n, NEW a
    PROVE  /\ \A i \in 1 .. Len(save_char(s, n, a)) : save_char(s, n, a)[i].op # "load"
           /\ \A i \in 1 .. Len(release_char(s, n)) : release_char(s, n)[i].op = "release"
  BY DEF save_char, release_char

LEMMA KickKeepsLoads ==
    ASSUME TypeOK, NEW s \in Servers, NEW n \in Slots, NEW a \in Nat, NEW gone,
           kick_char(s, n, a, gone)
    PROVE  \A t \in Servers : LoadsKept(t)
  BY SavesAreQueries, SavesAreNoLoads, EnqueueKeepsLoads DEF kick_char

(* The login slot is filled for a load and emptied by it. *)
LEMMA AskFindsRequest ==
    ASSUME TypeOK, LoadFindsRequest, NEW k \in Clients, conn[k].at \in Servers,
           login[conn[k].at].status # "read",
           NEW cleared \in Seq(Query), \A i \in 1 .. Len(cleared) : cleared[i].op # "load",
           Ask(k, cleared)
    PROVE  LoadFindsRequest'
<1> DEFINE s == conn[k].at
           qs == Append(cleared, Plain("load"))
<1>1. qs \in Seq(Query) /\ Len(qs) = Len(cleared) + 1 /\ Len(cleared) \in Nat
      /\ \A i \in 1 .. Len(cleared) : qs[i] = cleared[i]
  BY PlainIsQuery
<1>2. /\ Enqueue(s, qs) /\ login'[s].status = "read"
      /\ \A t \in Servers \ {s} : login'[t] = login[t]
  BY DEF Ask, TypeOK, NoLogin
<1>3. \A i \in DOMAIN queue[s] : queue[s][i].op # "load"
  BY DEF LoadFindsRequest
<1>4. \A i \in DOMAIN queue'[s] :
        queue'[s][i].op = "load" => i = Len(queue[s]) + Len(cleared) + 1
  <2> SUFFICES ASSUME NEW i \in DOMAIN queue'[s], queue'[s][i].op = "load"
               PROVE  i = Len(queue[s]) + Len(cleared) + 1
    OBVIOUS
  <2> HIDE DEF s, qs
  <2>1. i \notin DOMAIN queue[s]
    BY <1>1, <1>2, <1>3, EnqueueAppends DEF s
  <2>2. /\ i - Len(queue[s]) \in 1 .. Len(qs) /\ queue'[s][i] = qs[i - Len(queue[s])]
        /\ Len(queue[s]) \in Nat /\ DOMAIN queue'[s] = 1 .. Len(queue[s]) + Len(qs)
    <3>1. s \in Servers /\ qs \in Seq(Query) /\ Enqueue(s, qs)
      BY <1>1, <1>2 DEF s
    <3> QED
      BY <2>1, <3>1, EnqueueAppends
  <2>3. i - Len(queue[s]) \notin 1 .. Len(cleared)
    BY <1>1, <2>2
  <2>4. Len(qs) = Len(cleared) + 1 /\ Len(cleared) \in Nat /\ i \in Nat
    BY <1>1, <2>2
  <2> QED
    BY <2>2, <2>3, <2>4, SMTT(30)
<1>5. \A t \in Servers \ {s} : queue'[t] = queue[t]
  BY <1>1, <1>2, EnqueueAppends
<1> QED
  BY <1>2, <1>4, <1>5 DEF LoadFindsRequest

LEMMA LoadEmptiesRequest ==
    ASSUME TypeOK, LoadFindsRequest, NEW s \in Servers, Takes(s, "load"),
           \A t \in Servers \ {s} : login'[t] = login[t]
    PROVE  LoadFindsRequest' /\ \A i \in DOMAIN queue'[s] : queue'[s][i].op # "load"
<1>1. \A i \in DOMAIN queue'[s] : queue'[s][i].op # "load"
  <2> SUFFICES ASSUME NEW i \in DOMAIN queue'[s], queue'[s][i].op = "load" PROVE FALSE
    OBVIOUS
  <2>1. /\ i \in Nat \ {0} /\ i + 1 \in DOMAIN queue[s] /\ queue[s][i + 1].op = "load"
        /\ 1 \in DOMAIN queue[s] /\ queue[s][1].op = "load"
    BY TakesShifts
  <2>2. i + 1 = 1
    BY <2>1 DEF LoadFindsRequest
  <2> QED
    BY <2>1, <2>2
<1> QED
  BY <1>1, TakesShifts DEF LoadFindsRequest

LEMMA ClientRequests ==
    ASSUME TypeOK, TypeOK', LoadFindsRequest, NEW k \in Clients, Client(k)
    PROVE  LoadFindsRequest'
<1> DEFINE s == conn[k].at
<1>1. ASSUME Waits(k) PROVE s \in Servers /\ login[s] \in LoginType /\ conn[k].name \in Chars
  BY <1>1 DEF TypeOK, ConnType, Waits
<1>2. ASSUME Plays(k) PROVE s \in Servers /\ conn[k].cn \in Slots
  BY <1>2 DEF TypeOK, ConnType, Plays
<1>3. <<>> \in Seq(Query) /\ \A i \in 1 .. Len(<<>>) : <<>>[i].op # "load"
  OBVIOUS
<1>4. ASSUME UNCHANGED queue, NEW status \in Results, Collects(k, status) PROVE LoadFindsRequest'
  BY <1>1, <1>4, QueueSameKeepsLoads, LoadsFrame DEF Collects, Results, TypeOK
<1>5. ASSUME UNCHANGED <<queue, login>> PROVE LoadFindsRequest'
  BY <1>5, QueueSameKeepsLoads, LoadsFrame
<1>6. CASE AskEmpty(k)
  <2>1. Waits(k) /\ login[s].status # "read" /\ Ask(k, <<>>)
    BY <1>6 DEF AskEmpty, Stale, Results
  <2> QED
    BY <1>1, <1>3, <2>1, AskFindsRequest
<1>7. CASE AskUnclaimed(k)
  <2> DEFINE n == login[s].cn
  <2>1. Waits(k) /\ login[s].status = "ok" /\ Ask(k, release_char(s, n))
    BY <1>7 DEF AskUnclaimed
  <2>2. s \in Servers /\ n \in Slots
    BY <1>1, <2>1 DEF LoginType
  <2>3. /\ release_char(s, n) \in Seq(Query)
        /\ \A i \in 1 .. Len(release_char(s, n)) : release_char(s, n)[i].op # "load"
    BY <2>2, SavesAreQueries, SavesAreNoLoads, 0 \in Nat
  <2> HIDE DEF n
  <2> QED
    BY <2>1, <2>2, <2>3, AskFindsRequest
<1>8. CASE AskUsurped(k)
  <2>1. Waits(k) /\ login[s].status # "read" /\ Ask(k, <<>>)
    BY <1>8 DEF AskUsurped
  <2> QED
    BY <1>1, <1>3, <2>1, AskFindsRequest
<1>9. CASE CollectRefusal(k)
  BY <1>4, <1>9 DEF CollectRefusal, Results
<1>10. CASE CollectRedirect(k)
  BY <1>4, <1>10 DEF CollectRedirect, Results
<1>11. CASE CollectRescue(k)
  <2> DEFINE qs == <<[Plain("rescue") EXCEPT !.id = conn[k].name]>>
  <2>1. Waits(k) /\ Enqueue(s, qs) /\ Collects(k, "newarea")
    BY <1>11 DEF CollectRescue, Collects
  <2>2. qs \in Seq(Query) /\ \A i \in 1 .. Len(qs) : qs[i].op # "load"
    BY <1>1, <2>1 DEF Plain, Query, About
  <2>3. \A t \in Servers : LoadsKept(t)
    BY <1>1, <2>1, <2>2, EnqueueKeepsLoads
  <2> QED
    BY <1>1, <2>1, <2>3, LoadsFrame DEF Collects, TypeOK
<1>12. CASE CollectChar(k)
  BY <1>4, <1>12 DEF CollectChar, Results
<1>13. CASE CollectGone(k)
  BY <1>4, <1>13 DEF CollectGone, Results
<1>14. CASE Play(k) \/ kick_player(k) \/ GiveUp(k)
  BY <1>5, <1>14 DEF Play, kick_player, GiveUp
<1>15. CASE Backup(k)
  <2>1. /\ Plays(k) /\ Enqueue(s, save_char(s, conn[k].cn, 0)) /\ UNCHANGED login
    BY <1>15 DEF Backup
  <2> DEFINE qs == save_char(s, conn[k].cn, 0)
  <2>2. /\ s \in Servers /\ qs \in Seq(Query)
        /\ \A i \in 1 .. Len(qs) : qs[i].op # "load"
    BY <1>2, <2>1, SavesAreQueries, SavesAreNoLoads, 0 \in Nat
  <2> HIDE DEF qs
  <2>3. \A t \in Servers : LoadsKept(t)
    BY <2>1, <2>2, EnqueueKeepsLoads DEF qs
  <2> QED
    BY <2>1, <2>3, LoadsFrame
<1>16. ASSUME NEW a \in Areas, IdleExit(k, a) PROVE LoadFindsRequest'
  <2>1. \A t \in Servers : LoadsKept(t)
    BY <1>2, <1>16, KickKeepsLoads, QueueSameKeepsLoads, AreasAreNumbers DEF IdleExit
  <2> QED
    BY <1>16, <2>1, LoadsFrame DEF IdleExit
<1>17. ASSUME NEW t \in Servers, NEW c \in Chars, Connect(k, t, c) PROVE LoadFindsRequest'
  BY <1>5, <1>17 DEF Connect
<1> QED
  BY <1>6, <1>7, <1>8, <1>9, <1>10, <1>11, <1>12, <1>13, <1>14, <1>15, <1>16, <1>17
     DEF Client, Poll

LEMMA SlotRequests ==
    ASSUME TypeOK, TypeOK', LoadFindsRequest, NEW s \in Servers, NEW n \in Slots, Slot(s, n)
    PROVE  LoadFindsRequest'
<1>1. UNCHANGED login
  BY DEF Slot, SpawnNpc, NpcDies, change_area, exit_char, LostconExit, BareKick
<1>2. CASE SpawnNpc(s, n) \/ NpcDies(s, n)
  BY <1>1, <1>2, QueueSameKeepsLoads, LoadsFrame DEF SpawnNpc, NpcDies
<1>3. ASSUME NEW a \in Areas, NEW gone, kick_char(s, n, a, gone) PROVE LoadFindsRequest'
  BY <1>1, <1>3, KickKeepsLoads, LoadsFrame, AreasAreNumbers
<1> QED
  BY <1>2, <1>3 DEF Slot, change_area, exit_char, LostconExit, BareKick

LEMMA ServerRequests ==
    ASSUME TypeOK, TypeOK', LoadFindsRequest, NEW s \in Servers, Server(s)
    PROVE  LoadFindsRequest'
<1>1. ASSUME UNCHANGED queue, login[s].status # "read",
             \A t \in Servers \ {s} : login'[t] = login[t]
      PROVE  LoadFindsRequest'
  BY <1>1, QueueSameKeepsLoads, LoadsFrame
<1>2. ASSUME UNCHANGED <<queue, login>> PROVE LoadFindsRequest'
  BY <1>2, QueueSameKeepsLoads, LoadsFrame
<1>3. ASSUME NEW qs \in Seq(Query), Enqueue(s, qs),
             \A i \in 1 .. Len(qs) : qs[i].op # "load",
             UNCHANGED login \/ (/\ login[s].status # "read"
                                 /\ \A t \in Servers \ {s} : login'[t] = login[t])
      PROVE  LoadFindsRequest'
  BY <1>3, EnqueueKeepsLoads, LoadsFrame
<1>4. ASSUME NEW op, Takes(s, op), UNCHANGED login PROVE LoadFindsRequest'
  BY <1>4, TakesKeepsLoads, LoadsFrame
<1>5. CASE LoginAges(s)
  BY <1>1, <1>5 DEF LoginAges, Results, TypeOK
<1>6. CASE tick_login(s)
  <2>1. /\ login[s].status = "create"
        /\ \A t \in Servers \ {s} : login'[t] = login[t]
    BY <1>6 DEF tick_login, Creates, Usurp, UsurpGone, Create, CreateNoSlot,
                CreateNoItem, CreateNoRoom, Fails, Succeeds, TypeOK
  <2>2. ASSUME CreateNoRoom(s) PROVE LoadFindsRequest'
    <3> DEFINE qs == <<[op |-> "release", id |-> login[s].name, data |-> 0, area |-> 0]>>
    <3>1. login[s].name \in Chars
      BY <2>1, LoginTypes
    <3>2. qs \in Seq(Query) /\ \A i \in 1 .. Len(qs) : qs[i].op # "load"
      BY <3>1 DEF Query, About
    <3>3. Enqueue(s, qs)
      BY <2>2 DEF CreateNoRoom
    <3> QED
      BY <1>3, <2>1, <3>2, <3>3
  <2> QED
    BY <1>1, <1>6, <2>1, <2>2 DEF tick_login, Usurp, UsurpGone, Create, CreateNoSlot,
                                  CreateNoItem
<1>7. CASE db_thread(s)
  <2>1. ASSUME Loads(s), \A t \in Servers \ {s} : login'[t] = login[t] PROVE LoadFindsRequest'
    BY <2>1, LoadEmptiesRequest DEF Loads
  <2>2. CASE LoadRefused(s)
    BY <2>1, <2>2 DEF LoadRefused, Fails, TypeOK
  <2>3. CASE LoadElsewhere(s)
    BY <2>1, <2>3 DEF LoadElsewhere, NewArea, TypeOK
  <2>4. CASE LoadOtherMirror(s)
    BY <2>1, <2>4 DEF LoadOtherMirror, NewArea, TypeOK
  <2>5. CASE LoadHere(s)
    BY <2>1, <2>5 DEF LoadHere, TypeOK
  <2>6. CASE DoAlive(s)
    BY <1>4, <2>6 DEF DoAlive
  <2> QED
    BY <1>4, <1>7, <2>2, <2>3, <2>4, <2>5, <2>6
       DEF db_thread, DoBackup, DoLogout, DoRelease, DoRescue, DoArealist
<1>8. ASSUME NEW op \in {"alive", "arealist", "dead"}, Enqueue(s, <<Plain(op)>>), UNCHANGED login
      PROVE  LoadFindsRequest'
  <2>1. <<Plain(op)>> \in Seq(Query) /\ \A i \in 1 .. Len(<<Plain(op)>>) : <<Plain(op)>>[i].op # "load"
    BY <1>8, PlainIsQuery DEF Plain
  <2> QED
    BY <1>3, <1>8, <2>1
<1>9. CASE Crash(s)
  BY <1>9 DEF Crash, LoadFindsRequest, TypeOK
<1>10. CASE LeaveNext(s)
  <2>1. PICK n \in Slots, a \in Areas : kick_char(s, n, a, None)
    BY <1>10 DEF LeaveNext
  <2>2. \A t \in Servers : LoadsKept(t)
    BY <2>1, KickKeepsLoads, AreasAreNumbers
  <2> QED
    BY <1>10, <2>2, LoadsFrame DEF LeaveNext
<1>11. CASE Drained(s)
  BY <1>11 DEF Drained, LoadFindsRequest, TypeOK
<1> QED
  BY <1>2, <1>5, <1>6, <1>7, <1>8, <1>9, <1>10, <1>11
     DEF Server, Periodic, AliveLapses, Start, Shutdown, AllLeft

LEMMA RequestsInitially == Init => LoadFindsRequest
  BY DEF Init, LoadFindsRequest

LEMMA RequestsStep == TypeOK /\ TypeOK' /\ LoadFindsRequest /\ [Next]_vars => LoadFindsRequest'
<1> SUFFICES ASSUME TypeOK, TypeOK', LoadFindsRequest, [Next]_vars PROVE LoadFindsRequest'
  OBVIOUS
<1>1. CASE UNCHANGED vars
  BY <1>1 DEF vars, LoadFindsRequest
<1> QED
  BY <1>1, ClientRequests, SlotRequests, ServerRequests DEF Next

(* A load that the database thread executes always finds the request it was     *)
(* queued for in the login slot, whatever clients, game loop and crashes do to  *)
(* the slot in between, and no second load is queued.                           *)
THEOREM LoadsFindRequests == Spec => []LoadFindsRequest
  BY TypeCorrect, RequestsInitially, RequestsStep, PTL DEF Spec

-----------------------------------------------------------------------------
(* Rows change hands in few ways (OneCharPerAccount). *)

(* A step takes nothing from the server a row names or gives, unless a load     *)
(* takes the row for its server.                                                *)
LEMMA RowChanges ==
    ASSUME TypeOK, Next
    PROVE  \/ \A c \in Chars : row'[c].cur \in {row[c].cur, None}
           \/ \E s \in Servers : LoadHere(s)
<1>1. ASSUME NEW k \in Clients, Client(k) PROVE UNCHANGED row
  BY <1>1 DEF Client, Poll, AskEmpty, AskUnclaimed, AskUsurped, Ask, CollectRefusal,
     CollectRedirect, CollectRescue, CollectChar, CollectGone, Collects, Play, kick_player,
     GiveUp, Backup, IdleExit, Connect
<1>2. ASSUME NEW s \in Servers, NEW n \in Slots, Slot(s, n) PROVE UNCHANGED row
  BY <1>2 DEF Slot, SpawnNpc, NpcDies, change_area, exit_char, LostconExit, BareKick
<1>3. ASSUME NEW s \in Servers, tick_login(s) PROVE UNCHANGED row
  BY <1>3 DEF tick_login, Usurp, UsurpGone, Create, CreateNoSlot, CreateNoItem, CreateNoRoom
<1>4. ASSUME NEW s \in Servers, db_thread(s)
      PROVE  LoadHere(s) \/ \A c \in Chars : row'[c].cur \in {row[c].cur, None}
  <2>1. CASE DoBackup(s) \/ DoLogout(s) \/ DoRelease(s)
    BY <2>1 DEF DoBackup, DoLogout, DoRelease, TypeOK
  <2>2. CASE DoRescue(s)
    <3>1. row' = row \/ \E c, a : row' = [row EXCEPT ![c] = [@ EXCEPT !.cur = None, !.allowed = a]]
      BY <2>2 DEF DoRescue
    <3>2. ASSUME NEW c, NEW a, row' = [row EXCEPT ![c] = [@ EXCEPT !.cur = None, !.allowed = a]]
          PROVE  \A d \in Chars : row'[d].cur \in {row[d].cur, None}
      BY <3>2 DEF TypeOK
    <3> QED
      BY <3>1, <3>2
  <2>3. CASE LoadRefused(s) \/ LoadElsewhere(s) \/ LoadOtherMirror(s)
    BY <2>3 DEF LoadRefused, LoadElsewhere, LoadOtherMirror, NewArea
  <2> QED
    BY <1>4, <2>1, <2>2, <2>3 DEF db_thread, DoAlive, DoArealist
<1>5. ASSUME NEW s \in Servers, Start(s)
      PROVE  \A c \in Chars : row'[c].cur \in {row[c].cur, None}
  BY <1>5 DEF Start, TypeOK
<1>6. ASSUME NEW s \in Servers, Server(s)
      PROVE  LoadHere(s) \/ \A c \in Chars : row'[c].cur \in {row[c].cur, None}
  BY <1>3, <1>4, <1>5, <1>6 DEF Server, LoginAges, Periodic, AliveLapses, Crash, Shutdown,
     LeaveNext, AllLeft, Drained
<1> QED
  BY <1>1, <1>2, <1>6 DEF Next

LEMMA AccountsStep == TypeOK /\ OneCharPerAccount /\ [Next]_vars => OneCharPerAccount'
<1> SUFFICES ASSUME TypeOK, OneCharPerAccount, [Next]_vars PROVE OneCharPerAccount'
  OBVIOUS
<1>1. CASE UNCHANGED vars
  BY <1>1 DEF vars, OneCharPerAccount
<1>2. ASSUME \A c \in Chars : row'[c].cur \in {row[c].cur, None} PROVE OneCharPerAccount'
  BY <1>2 DEF OneCharPerAccount
<1>3. ASSUME NEW s \in Servers, LoadHere(s) PROVE OneCharPerAccount'
  <2> DEFINE e == login[s].name
  <2>1. ~DupLogin(e) /\ \A c \in Chars \ {e} : row'[c] = row[c]
    BY <1>3 DEF LoadHere, TypeOK
  <2>2. \A d \in Chars \ {e} : Subscriber[d] = Subscriber[e] /\ Subscriber[e] # 1
                                  => row[d].cur = None
    BY <2>1 DEF DupLogin
  <2> HIDE DEF e
  <2> QED
    BY <2>1, <2>2 DEF OneCharPerAccount
<1> QED
  BY <1>1, <1>2, <1>3, RowChanges

(* Two characters of one account are never online together, on whichever        *)
(* servers they log in and whatever is queued: the check of load_char_dup and   *)
(* the update that marks the character online are one step under the table lock.*)
THEOREM AccountsStayApart == Spec => []OneCharPerAccount
<1>1. Init => OneCharPerAccount
  BY DEF Init, OneCharPerAccount
<1> QED
  BY <1>1, TypeCorrect, AccountsStep, PTL DEF Spec

-----------------------------------------------------------------------------
(* Connections, unclaimed characters and servers that are down (LinkSafe, DownSafe). *)

LEMMA FreedForgets ==
    ASSUME TypeOK, NEW s \in Servers, NEW n \in Slots, NEW gone
    PROVE  /\ Freed(s, n, gone) \in SlotType /\ Freed(s, n, gone).used = FALSE
           /\ Freed(s, n, gone).player \in {ch[s][n].player, None}
           /\ Freed(s, n, gone).id \in {ch[s][n].id, None}
           /\ login[s].status = "ok" /\ login[s].cn = n => Freed(s, n, gone).id = ch[s][n].id
<1>1. ch[s][n] \in SlotType
  BY DEF TypeOK
<1> QED
  BY <1>1, FreedIsSlot DEF Freed, FreeSlot, SlotType

LEMMA KickFrees ==
    ASSUME TypeOK, NEW s \in Servers, NEW n \in Slots, NEW a \in Nat, NEW gone,
           kick_char(s, n, a, gone)
    PROVE  /\ ch'[s][n] = Freed(s, n, gone)
           /\ \A t \in Servers, m \in Slots : t # s \/ m # n => ch'[t][m] = ch[t][m]
           /\ \A t \in Servers \ {s} : queue'[t] = queue[t]
<1>1. \A t \in Servers \ {s} : queue'[t] = queue[t]
  BY SavesAreQueries, EnqueueAppends DEF kick_char
<1> QED
  BY <1>1 DEF kick_char, TypeOK

(* A kick frees a slot whose player leaves in the same step, or has left. *)
LEMMA KickLinks ==
    ASSUME TypeOK, LinkSafe, NEW s \in Servers, NEW n \in Slots, NEW a \in Nat, NEW gone,
           kick_char(s, n, a, gone), UNCHANGED <<run, login>>,
           \A k \in Clients : conn'[k].state = "play" =>
               /\ conn'[k] = conn[k]
               /\ conn[k].at = s /\ conn[k].cn = n => ch[s][n].player # k
    PROVE  LinkSafe'
<1> DEFINE x == Freed(s, n, gone)
<1>1. /\ ch'[s][n] = x /\ x.player \in {ch[s][n].player, None}
      /\ \A t \in Servers, m \in Slots : t # s \/ m # n => ch'[t][m] = ch[t][m]
  <2>1. x.player \in {ch[s][n].player, None}
    BY FreedForgets
  <2>2. /\ ch'[s][n] = x
        /\ \A t \in Servers, m \in Slots : t # s \/ m # n => ch'[t][m] = ch[t][m]
    BY KickFrees
  <2> QED
    BY <2>1, <2>2
<1>2. ASSUME NEW t \in Servers, login'[t].status = "ok"
      PROVE  ch'[t][login'[t].cn].player = None
  <2>1. login[t].cn \in Slots /\ ch[t][login[t].cn].player = None
    BY <1>2 DEF TypeOK, LoginType, LinkSafe
  <2> HIDE DEF x
  <2> QED
    BY <1>1, <1>2, <2>1
<1>3. ASSUME NEW k \in Clients, conn'[k].state = "play"
      PROVE  LET y == ch'[conn'[k].at][conn'[k].cn]
             IN  run'[conn'[k].at] = "up" /\ (y.player = k /\ y.id # None => y.used)
  <2>1. conn[k].at \in Servers /\ conn[k].cn \in Slots /\ conn'[k] = conn[k]
    BY <1>3 DEF TypeOK, ConnType
  <2>2. run'[conn[k].at] = "up"
    BY <1>3, <2>1 DEF LinkSafe, Up
  <2>3. CASE conn[k].at = s /\ conn[k].cn = n
    <3>1. ch[s][n].player # k /\ k # None
      BY <1>3, <2>3, NoneAssumption
    <3> HIDE DEF x
    <3> QED
      BY <1>1, <2>1, <2>2, <2>3, <3>1
  <2>4. CASE ~(conn[k].at = s /\ conn[k].cn = n)
    BY <1>1, <1>3, <2>1, <2>2, <2>4 DEF LinkSafe
  <2> QED
    BY <2>3, <2>4
<1> QED
  BY <1>2, <1>3 DEF LinkSafe, Up

NoBareKick == "bareKick" \notin Optional

(* What the other steps do to a link: a slot keeps what LinkSafe says of it, a  *)
(* connection in the game stays where it is, a slot that is unclaimed stays so. *)
LEMMA LinksFrame ==
    ASSUME TypeOK, LinkSafe,
           \A s \in Servers, n \in Slots :
               /\ ch[s][n].player = None => ch'[s][n].player = None
               /\ \A k \in Clients : ch'[s][n].player = k =>
                     \/ ch'[s][n].id = None \/ ch'[s][n].used
                     \/ ch[s][n].player = k /\ ch[s][n].id # None /\ ~ch[s][n].used,
           \A s \in Servers : login'[s].status = "ok" =>
               login[s].status = "ok" /\ login'[s].cn = login[s].cn,
           \A k \in Clients : conn'[k].state = "play" =>
               conn'[k] = conn[k] /\ run'[conn[k].at] = "up"
    PROVE  LinkSafe'
<1>1. ASSUME NEW t \in Servers, login'[t].status = "ok"
      PROVE  ch'[t][login'[t].cn].player = None
  <2>1. login[t].cn \in Slots /\ ch[t][login[t].cn].player = None
    BY <1>1 DEF TypeOK, LoginType, LinkSafe
  <2> QED
    BY <1>1, <2>1
<1>2. ASSUME NEW k \in Clients, conn'[k].state = "play"
      PROVE  LET y == ch'[conn'[k].at][conn'[k].cn]
             IN  run'[conn'[k].at] = "up" /\ (y.player = k /\ y.id # None => y.used)
  <2>1. conn[k].at \in Servers /\ conn[k].cn \in Slots /\ conn'[k] = conn[k]
    BY <1>2 DEF TypeOK, ConnType
  <2> QED
    BY <1>2, <2>1 DEF LinkSafe
<1> QED
  BY <1>1, <1>2 DEF LinkSafe, Up

LEMMA ClientLinks ==
    ASSUME TypeOK, TypeOK', LinkSafe, NEW k \in Clients, Client(k)
    PROVE  LinkSafe'
<1> DEFINE s == conn[k].at
<1>1. ASSUME Waits(k) PROVE s \in Servers /\ login[s] \in LoginType /\ conn[k].name \in Chars
  BY <1>1 DEF TypeOK, ConnType, Waits
<1>2. ASSUME Plays(k) PROVE s \in Servers /\ conn[k].cn \in Slots
  BY <1>2 DEF TypeOK, ConnType, Plays
<1>3. \A j \in Clients : conn[j].state = "play" => run[conn[j].at] = "up"
  BY DEF LinkSafe, Up
<1>4. \A j \in Clients : j # None
  BY NoneAssumption
<1>5. ASSUME UNCHANGED <<run, ch>>,
             \A t \in Servers : login'[t] = login[t] \/ login'[t].status # "ok",
             \A j \in Clients : conn'[j].state = "play" => conn'[j] = conn[j]
      PROVE  LinkSafe'
  BY <1>3, <1>5, LinksFrame
<1>20. ASSUME UNCHANGED run,
              \A t \in Servers, m \in Slots :
                 /\ ch'[t][m].player \in {ch[t][m].player, None} /\ ch'[t][m].id = ch[t][m].id
                 /\ ch'[t][m].used = ch[t][m].used,
              \A t \in Servers : login'[t] = login[t] \/ login'[t].status # "ok",
              \A j \in Clients : conn'[j].state = "play" => conn'[j] = conn[j]
       PROVE  LinkSafe'
  <2>1. ASSUME NEW t \in Servers, NEW m \in Slots
        PROVE  /\ ch[t][m].player = None => ch'[t][m].player = None
               /\ \A j \in Clients : ch'[t][m].player = j =>
                     \/ ch'[t][m].id = None \/ ch'[t][m].used
                     \/ ch[t][m].player = j /\ ch[t][m].id # None /\ ~ch[t][m].used
    <3>1. ch'[t][m] \in SlotType /\ ch[t][m] \in SlotType
      BY DEF TypeOK
    <3> QED
      BY <1>4, <1>20, <3>1 DEF SlotType
  <2>2. \A t \in Servers : login'[t].status = "ok" =>
               login[t].status = "ok" /\ login'[t].cn = login[t].cn
    BY <1>20
  <2>3. \A j \in Clients : conn'[j].state = "play" =>
               conn'[j] = conn[j] /\ run'[conn[j].at] = "up"
    BY <1>3, <1>20
  <2> QED
    BY <2>1, <2>2, <2>3, LinksFrame
<1>6. CASE AskEmpty(k)
  BY <1>1, <1>5, <1>6 DEF AskEmpty, Ask, servers, TypeOK, NoLogin
<1>7. CASE AskUnclaimed(k)
  <2> DEFINE n == login[s].cn
  <2>1. /\ Waits(k) /\ login[s].status = "ok" /\ s \in Servers
        /\ login' = [login EXCEPT ![s] = [NoLogin EXCEPT !.status = "read", !.name = conn[k].name]]
        /\ ch' = [ch EXCEPT ![s][n] = Freed(s, n, None)] /\ UNCHANGED <<run, conn>>
    BY <1>1, <1>7 DEF AskUnclaimed, Ask, servers
  <2>2. n \in Slots /\ ch[s][n].player = None
    BY <1>1, <2>1 DEF LoginType, LinkSafe
  <2>3. Freed(s, n, None).player = None
    BY <2>1, <2>2, FreedForgets
  <2> HIDE DEF n
  <2>4. \A t \in Servers, m \in Slots : ch'[t][m] = ch[t][m] \/ ch'[t][m].player = None
    BY <2>1, <2>2, <2>3 DEF TypeOK
  <2>5. \A t \in Servers : login'[t] = login[t] \/ login'[t].status # "ok"
    BY <2>1 DEF TypeOK, NoLogin
  <2> QED
    BY <1>3, <1>4, <2>1, <2>4, <2>5, LinksFrame
<1>8. CASE AskUsurped(k)
  <2> DEFINE n == login[s].cn
  <2>1. /\ Waits(k) /\ login[s].status = "ok" /\ s \in Servers
        /\ login' = [login EXCEPT ![s] = [NoLogin EXCEPT !.status = "read", !.name = conn[k].name]]
        /\ ch' = [ch EXCEPT ![s][n].lost = TRUE] /\ UNCHANGED <<run, conn>>
    BY <1>1, <1>8 DEF AskUsurped, Ask, servers
  <2>2. n \in Slots
    BY <1>1, <2>1 DEF LoginType
  <2> HIDE DEF n
  <2>3. \A t \in Servers, m \in Slots :
          /\ ch'[t][m].player = ch[t][m].player /\ ch'[t][m].id = ch[t][m].id
          /\ ch'[t][m].used = ch[t][m].used
    BY <2>1, <2>2, SMTT(30) DEF TypeOK, SlotType
  <2>4. \A t \in Servers : login'[t] = login[t] \/ login'[t].status # "ok"
    BY <2>1 DEF TypeOK, NoLogin
  <2> QED
    BY <1>20, <2>1, <2>3, <2>4
<1>9. CASE CollectRefusal(k)
  BY <1>1, <1>5, <1>9 DEF CollectRefusal, Collects, servers, TypeOK, NoLogin, Offline
<1>10. CASE CollectRedirect(k)
  <2>1. \A t : Hop(k, t).state # "play"
    BY DEF Hop, Waiting, Offline
  <2> QED
    BY <1>1, <1>5, <1>10, <2>1 DEF CollectRedirect, Collects, servers, TypeOK, NoLogin
<1>11. CASE CollectRescue(k)
  BY <1>1, <1>5, <1>11 DEF CollectRescue, Collects, servers, TypeOK, NoLogin, Offline
<1>12. CASE CollectChar(k)
  <2> DEFINE n == login[s].cn
  <2>1. /\ Waits(k) /\ login[s].status = "ok" /\ s \in Servers /\ run[s] = "up"
        /\ login' = [login EXCEPT ![s] = NoLogin] /\ ch[s][n].used
        /\ ch' = [ch EXCEPT ![s][n] = [ch[s][n] EXCEPT !.player = k, !.lost = FALSE]]
        /\ conn' = [j \in Clients |-> IF j = k THEN InGame(s, conn[k].name, n)
                                      ELSE IF j = ch[s][n].player THEN Offline ELSE conn[j]]
        /\ UNCHANGED run
    BY <1>1, <1>12 DEF CollectChar, Collects, servers, Waits, Up
  <2>2. n \in Slots
    BY <1>1, <2>1 DEF LoginType
  <2>3. \A t \in Servers : login'[t].status = "ok" => t # s /\ login'[t] = login[t]
    BY <2>1 DEF TypeOK, NoLogin
  <2>4. conn'[k].at = s /\ conn'[k].cn = n
    BY <2>1 DEF InGame
  <2>5. \A j \in Clients \ {k} : conn'[j].state = "play" => conn'[j] = conn[j]
    BY <2>1 DEF Offline
  <2> HIDE DEF n
  <2>6. /\ ch'[s][n].used /\ ch'[s][n].player = k
        /\ \A t \in Servers, m \in Slots : t # s \/ m # n => ch'[t][m] = ch[t][m]
    BY <2>1, <2>2, SMTT(30) DEF TypeOK, SlotType
  <2>7. ASSUME NEW t \in Servers, login'[t].status = "ok"
        PROVE  ch'[t][login'[t].cn].player = None
    <3>1. t # s /\ login'[t] = login[t] /\ login[t].cn \in Slots
      BY <2>3, <2>7 DEF TypeOK, LoginType
    <3> QED
      BY <2>6, <2>7, <3>1 DEF LinkSafe
  <2>8. ASSUME NEW j \in Clients, conn'[j].state = "play"
        PROVE  LET y == ch'[conn'[j].at][conn'[j].cn]
               IN  run'[conn'[j].at] = "up" /\ (y.player = j /\ y.id # None => y.used)
    <3>1. CASE j = k
      BY <2>1, <2>4, <2>6, <3>1
    <3>2. CASE j # k
      <4>1. conn'[j] = conn[j] /\ conn[j].at \in Servers /\ conn[j].cn \in Slots
        BY <2>5, <2>8, <3>2 DEF TypeOK, ConnType
      <4>2. run'[conn'[j].at] = "up"
        BY <1>3, <2>1, <2>8, <4>1
      <4>3. CASE conn[j].at = s /\ conn[j].cn = n
        BY <2>6, <4>1, <4>2, <4>3
      <4>4. CASE ~(conn[j].at = s /\ conn[j].cn = n)
        BY <2>6, <2>8, <4>1, <4>2, <4>4 DEF LinkSafe
      <4> QED
        BY <4>3, <4>4
    <3> QED
      BY <3>1, <3>2
  <2> QED
    BY <2>7, <2>8 DEF LinkSafe, Up
<1>13. CASE CollectGone(k)
  BY <1>1, <1>5, <1>13 DEF CollectGone, Collects, servers, TypeOK, NoLogin
<1>14. CASE Play(k)
  <2> DEFINE n == conn[k].cn
  <2>3. ch' = [ch EXCEPT ![s][n].data = @ + 1] /\ s \in Servers /\ n \in Slots
    BY <1>2, <1>14 DEF Play
  <2> HIDE DEF n
  <2>1. \A t \in Servers, m \in Slots :
          /\ ch'[t][m].player = ch[t][m].player /\ ch'[t][m].id = ch[t][m].id
          /\ ch'[t][m].used = ch[t][m].used
    BY <2>3, SMTT(30) DEF TypeOK, SlotType
  <2> QED
    BY <1>14, <1>20, <2>1 DEF Play, servers
<1>15. CASE kick_player(k)
  <2> DEFINE n == conn[k].cn
  <2>3. /\ ch' = [ch EXCEPT ![s][n] = [@ EXCEPT !.player = None, !.lost = TRUE]]
        /\ s \in Servers /\ n \in Slots
    BY <1>2, <1>15 DEF kick_player
  <2> HIDE DEF n
  <2>1. \A t \in Servers, m \in Slots :
          /\ ch'[t][m].player \in {ch[t][m].player, None} /\ ch'[t][m].id = ch[t][m].id
          /\ ch'[t][m].used = ch[t][m].used
    BY <2>3 DEF TypeOK, SlotType
  <2>2. \A j \in Clients : conn'[j].state = "play" => conn'[j] = conn[j]
    BY <1>15 DEF kick_player, TypeOK, Offline
  <2> QED
    BY <1>15, <1>20, <2>1, <2>2 DEF kick_player, servers
<1>16. CASE GiveUp(k)
  BY <1>5, <1>16 DEF GiveUp, servers, TypeOK, Offline
<1>17. CASE Backup(k)
  BY <1>5, <1>17 DEF Backup, servers
<1>18. ASSUME NEW a \in Areas, IdleExit(k, a) PROVE LinkSafe'
  <2> DEFINE n == conn[k].cn
  <2>1. \A j \in Clients : conn'[j].state = "play" => j # k /\ conn'[j] = conn[j]
    BY <1>18 DEF IdleExit, TypeOK, Offline
  <2>2. CASE ch[s][n].player = k
    <3>1. kick_char(s, n, a, k) /\ UNCHANGED <<run, login>> /\ s \in Servers /\ n \in Slots
      BY <1>2, <1>18, <2>2 DEF IdleExit, servers
    <3> HIDE DEF n, s
    <3> QED
      BY <2>1, <2>2, <3>1, KickLinks, AreasAreNumbers
  <2>3. CASE ch[s][n].player # k
    BY <1>5, <1>18, <2>1, <2>3 DEF IdleExit, servers
  <2> QED
    BY <2>2, <2>3
<1>19. ASSUME NEW t \in Servers, NEW c \in Chars, Connect(k, t, c) PROVE LinkSafe'
  BY <1>5, <1>19 DEF Connect, servers, TypeOK, Waiting
<1> QED
  BY <1>6, <1>7, <1>8, <1>9, <1>10, <1>11, <1>12, <1>13, <1>14, <1>15, <1>16, <1>17, <1>18,
     <1>19 DEF Client, Poll

LEMMA SlotLinks ==
    ASSUME TypeOK, TypeOK', NoBareKick, LinkSafe, NEW s \in Servers, NEW n \in Slots, Slot(s, n)
    PROVE  LinkSafe'
<1>1. UNCHANGED <<run, login>>
  BY DEF Slot, SpawnNpc, NpcDies, change_area, exit_char, LostconExit, BareKick, servers
<1>2. \A j \in Clients : j # None /\ (conn[j].state = "play" => run[conn[j].at] = "up")
  BY NoneAssumption DEF LinkSafe, Up
<1>3. ASSUME UNCHANGED conn,
             \A t \in Servers, m \in Slots :
                ch'[t][m] = ch[t][m] \/
                (/\ ch'[t][m].id = None
                 /\ ch[t][m].player = None => ch'[t][m].player = None)
      PROVE  LinkSafe'
  <2>1. \A t \in Servers, m \in Slots :
          /\ ch[t][m].player = None => ch'[t][m].player = None
          /\ \A j \in Clients : ch'[t][m].player = j =>
                     \/ ch'[t][m].id = None \/ ch'[t][m].used
                     \/ ch[t][m].player = j /\ ch[t][m].id # None /\ ~ch[t][m].used
    <3>1. \A t \in Servers, m \in Slots : ch'[t][m] \in SlotType /\ ch[t][m] \in SlotType
      BY DEF TypeOK
    <3> QED
      BY <1>3, <3>1 DEF SlotType
  <2> QED
    BY <1>1, <1>2, <1>3, <2>1, LinksFrame
<1>4. CASE SpawnNpc(s, n)
  <2>1. \A t \in Servers, m \in Slots :
           ch'[t][m] = ch[t][m] \/ (ch'[t][m].id = None /\ ch'[t][m].player = None)
    BY <1>4 DEF SpawnNpc, FreeSlot, TypeOK
  <2> QED
    BY <1>3, <1>4, <2>1 DEF SpawnNpc
<1>5. CASE NpcDies(s, n)
  <2> DEFINE x == Freed(s, n, None)
  <2>1. ch[s][n].id = None /\ ch' = [ch EXCEPT ![s][n] = x] /\ UNCHANGED conn
    BY <1>5 DEF NpcDies
  <2>2. x.id = None /\ (ch[s][n].player = None => x.player = None)
    BY <2>1, FreedForgets
  <2> HIDE DEF x
  <2>3. \A t \in Servers, m \in Slots : ch'[t][m] = IF t = s /\ m = n THEN x ELSE ch[t][m]
    BY <2>1 DEF TypeOK
  <2> QED
    BY <1>3, <2>1, <2>2, <2>3
<1>6. ASSUME NEW a \in Areas, change_area(s, n, a) PROVE LinkSafe'
  <2>1. \A k \in Clients : conn'[k].state = "play" => conn'[k] = conn[k] /\ k # ch[s][n].player
    BY <1>6 DEF change_area, Hop, Waiting, Offline
  <2>2. kick_char(s, n, a, ch[s][n].player)
    BY <1>6 DEF change_area
  <2> QED
    BY <1>1, <2>1, <2>2, KickLinks, AreasAreNumbers
<1>7. ASSUME NEW a \in Areas, exit_char(s, n, a) PROVE LinkSafe'
  <2>1. \A k \in Clients : conn'[k].state = "play" => conn'[k] = conn[k] /\ k # ch[s][n].player
    BY <1>7 DEF exit_char, Offline
  <2>2. kick_char(s, n, a, ch[s][n].player)
    BY <1>7 DEF exit_char
  <2> QED
    BY <1>1, <2>1, <2>2, KickLinks, AreasAreNumbers
<1> QED
  BY <1>4, <1>5, <1>6, <1>7 DEF Slot, LostconExit, BareKick, NoBareKick

LEMMA ServerLinks ==
    ASSUME TypeOK, TypeOK', LinkSafe, NEW s \in Servers, Server(s)
    PROVE  LinkSafe'
<1>1. \A j \in Clients : j # None /\ (conn[j].state = "play" => run[conn[j].at] = "up")
  BY NoneAssumption DEF LinkSafe, Up
<1>2. ASSUME UNCHANGED ch,
             \A t \in Servers : login'[t].status = "ok" =>
                               login[t].status = "ok" /\ login'[t].cn = login[t].cn,
             \A k \in Clients : conn'[k].state = "play" =>
                               conn'[k] = conn[k] /\ run'[conn[k].at] = "up"
      PROVE  LinkSafe'
  <2>1. \A t \in Servers, m \in Slots :
          /\ ch[t][m].player = None => ch'[t][m].player = None
          /\ \A j \in Clients : ch'[t][m].player = j =>
                     \/ ch'[t][m].id = None \/ ch'[t][m].used
                     \/ ch[t][m].player = j /\ ch[t][m].id # None /\ ~ch[t][m].used
    <3>1. \A t \in Servers, m \in Slots : ch[t][m] \in SlotType
      BY DEF TypeOK
    <3> QED
      BY <1>2, <3>1 DEF SlotType
  <2> QED
    BY <1>2, <2>1, LinksFrame
<1>3. ASSUME UNCHANGED <<ch, conn, run>>,
             \A t \in Servers : login'[t] = login[t] \/ login'[t].status # "ok"
      PROVE  LinkSafe'
  <2>1. \A t \in Servers : login'[t].status = "ok" =>
                          login[t].status = "ok" /\ login'[t].cn = login[t].cn
    BY <1>3
  <2>2. \A k \in Clients : conn'[k].state = "play" => conn'[k] = conn[k] /\ run'[conn[k].at] = "up"
    BY <1>1, <1>3
  <2> QED
    BY <1>2, <1>3, <2>1, <2>2
<1>4. CASE LoginAges(s)
  <2>1. login'[s].status = login[s].status /\ login'[s].cn = login[s].cn
        /\ \A t \in Servers \ {s} : login'[t] = login[t]
    BY <1>4 DEF LoginAges, TypeOK, LoginType
  <2> QED
    BY <1>1, <1>2, <1>4, <2>1 DEF LoginAges, servers
<1>5. CASE tick_login(s)
  <2>1. ASSUME Fails(s) PROVE \A t \in Servers : login'[t] = login[t] \/ login'[t].status # "ok"
    BY <2>1 DEF Fails, NoLogin, TypeOK
  <2>2. CASE UsurpGone(s) \/ CreateNoSlot(s)
    BY <1>3, <2>1, <2>2 DEF UsurpGone, CreateNoSlot, servers
  <2>3. ASSUME NEW n \in Slots, NEW x, ch' = [ch EXCEPT ![s][n] = x], x.player = None,
               UNCHANGED run, \A k \in Clients : conn'[k].state = "play" => conn'[k] = conn[k],
               Fails(s) \/ \E u \in BOOLEAN : Succeeds(s, n, u)
        PROVE  LinkSafe'
    <3>1. /\ \A t \in Servers, m \in Slots : ch'[t][m] = ch[t][m] \/ ch'[t][m].player = None
          /\ ch'[s][n].player = None
      BY <2>3 DEF TypeOK
    <3>2. \A t \in Servers : login'[t] = login[t] \/ login'[t].status # "ok"
                            \/ (t = s /\ login'[t].cn = n)
      <4>1. ASSUME NEW u \in BOOLEAN, Succeeds(s, n, u)
            PROVE  login'[s].cn = n /\ \A t \in Servers \ {s} : login'[t] = login[t]
        BY <4>1 DEF Succeeds, NoLogin, TypeOK
      <4> QED
        BY <2>1, <2>3, <4>1
    <3>3. ASSUME NEW t \in Servers, login'[t].status = "ok"
          PROVE  ch'[t][login'[t].cn].player = None
      <4>1. login'[t].cn \in Slots
        BY <3>3 DEF TypeOK, LoginType
      <4> QED
        BY <3>1, <3>2, <3>3, <4>1 DEF LinkSafe
    <3>4. ASSUME NEW k \in Clients, conn'[k].state = "play"
          PROVE  LET y == ch'[conn'[k].at][conn'[k].cn]
                 IN  run'[conn'[k].at] = "up" /\ (y.player = k /\ y.id # None => y.used)
      <4>1. conn'[k] = conn[k] /\ conn[k].at \in Servers /\ conn[k].cn \in Slots
        BY <2>3, <3>4 DEF TypeOK, ConnType
      <4> QED
        BY <1>1, <2>3, <3>1, <3>4, <4>1 DEF LinkSafe
    <3> QED
      BY <3>3, <3>4 DEF LinkSafe, Up
  <2>4. Copy(s).player = None /\ [Copy(s) EXCEPT !.data = 0].player = None /\ FreeSlot.player = None
    BY DEF Copy, FreeSlot
  <2>5. CASE Usurp(s)
    <3>1. PICK n \in Slots :
            /\ Succeeds(s, n, TRUE)
            /\ ch' = [ch EXCEPT ![s][n] = [ch[s][n] EXCEPT !.player = None, !.lost = FALSE]]
            /\ conn' = [k \in Clients |-> IF k = ch[s][n].player THEN Offline ELSE conn[k]]
      BY <2>5 DEF Usurp
    <3>2. ch[s][n] \in SlotType
      BY DEF TypeOK
    <3>3. [ch[s][n] EXCEPT !.player = None, !.lost = FALSE].player = None
      BY <3>2 DEF SlotType
    <3>4. \A k \in Clients : conn'[k].state = "play" => conn'[k] = conn[k]
      BY <3>1 DEF Offline
    <3> QED
      BY <2>3, <2>5, <3>1, <3>3, <3>4 DEF Usurp, servers
  <2>6. CASE Create(s)
    BY <2>3, <2>4, <2>6 DEF Create, servers
  <2>7. CASE CreateNoItem(s)
    BY <2>3, <2>4, <2>7 DEF CreateNoItem, servers
  <2>8. CASE CreateNoRoom(s)
    BY <2>3, <2>4, <2>8 DEF CreateNoRoom, servers
  <2> QED
    BY <1>5, <2>2, <2>5, <2>6, <2>7, <2>8 DEF tick_login
<1>6. CASE db_thread(s)
  <2>1. \A t \in Servers : login'[t] = login[t] \/ login'[t].status # "ok"
    <3>1. CASE LoadRefused(s)
      BY <3>1 DEF LoadRefused, Fails, NoLogin, TypeOK
    <3>2. CASE LoadElsewhere(s) \/ LoadOtherMirror(s)
      <4>1. PICK to : NewArea(s, to)
        BY <3>2 DEF LoadElsewhere, LoadOtherMirror
      <4> QED
        BY <4>1 DEF NewArea, NoLogin, TypeOK
    <3>3. CASE LoadHere(s)
      BY <3>3 DEF LoadHere, NoLogin, TypeOK
    <3> QED
      BY <1>6, <3>1, <3>2, <3>3 DEF db_thread, DoBackup, DoLogout, DoRelease, DoRescue,
                                    DoAlive, DoArealist
  <2>2. UNCHANGED <<run, ch, conn>>
    BY <1>6 DEF db_thread, DoBackup, DoLogout, DoRelease, LoadRefused, LoadElsewhere, servers,
                LoadOtherMirror, LoadHere, Loads, DoRescue, DoAlive, DoArealist
  <2> QED
    BY <1>3, <2>1, <2>2
<1>7. ASSUME Forget(s), login' = [login EXCEPT ![s] = NoLogin],
             run' = [run EXCEPT ![s] = "down"]
      PROVE  LinkSafe'
  <2>1. /\ \A m \in Slots : ch'[s][m].player = None
        /\ \A t \in Servers \ {s} : ch'[t] = ch[t] /\ login'[t] = login[t] /\ run'[t] = run[t]
        /\ login'[s].status # "ok"
    BY <1>7 DEF Forget, FreeSlot, NoLogin, TypeOK
  <2>2. \A k \in Clients : conn'[k].state = "play" => conn'[k] = conn[k] /\ conn[k].at \in Servers \ {s}
    BY <1>7 DEF Forget, Offline, TypeOK, ConnType
  <2>3. ASSUME NEW t \in Servers, login'[t].status = "ok"
        PROVE  ch'[t][login'[t].cn].player = None
    BY <2>1, <2>3 DEF LinkSafe
  <2>4. ASSUME NEW k \in Clients, conn'[k].state = "play"
        PROVE  LET y == ch'[conn'[k].at][conn'[k].cn]
               IN  run'[conn'[k].at] = "up" /\ (y.player = k /\ y.id # None => y.used)
    BY <1>1, <2>1, <2>2, <2>4 DEF LinkSafe
  <2> QED
    BY <2>3, <2>4 DEF LinkSafe, Up
<1>8. CASE Crash(s) \/ Drained(s)
  BY <1>7, <1>8 DEF Crash, Drained
<1>9. CASE Start(s)
  BY <1>1, <1>2, <1>9 DEF Start, TypeOK
<1>10. CASE Shutdown(s)
  <2>1. \A k \in Clients : conn'[k].state = "play" => conn'[k] = conn[k] /\ run'[conn[k].at] = "up"
    BY <1>1, <1>10 DEF Shutdown, Offline, TypeOK
  <2> QED
    BY <1>2, <1>10, <2>1 DEF Shutdown
<1>11. CASE LeaveNext(s)
  <2>1. PICK n \in Slots, a \in Areas : kick_char(s, n, a, None)
    BY <1>11 DEF LeaveNext
  <2>2. \A k \in Clients : conn[k].state = "play" => conn[k].at # s
    BY <1>1, <1>11 DEF LeaveNext
  <2> QED
    BY <1>11, <2>1, <2>2, KickLinks, AreasAreNumbers DEF LeaveNext, servers
<1>12. CASE AllLeft(s)
  BY <1>1, <1>2, <1>12 DEF AllLeft, TypeOK, Up
<1> QED
  BY <1>3, <1>4, <1>5, <1>6, <1>8, <1>9, <1>10, <1>11, <1>12
     DEF Server, Periodic, AliveLapses, servers

(* A step that changes only the memory of a server which is not down. *)
OnlyAt(s) == \A t \in Servers \ {s} :
    queue'[t] = queue[t] /\ login'[t] = login[t] /\ ch'[t] = ch[t] /\ run'[t] = run[t]

LEMMA DownFrame ==
    ASSUME DownSafe, NEW s \in Servers, OnlyAt(s), run'[s] # "down"
    PROVE  DownSafe'
  BY DEF DownSafe, OnlyAt

LEMMA EnqueueOnlyAt ==
    ASSUME TypeOK, NEW s \in Servers, NEW qs, Enqueue(s, qs)
    PROVE  \A t \in Servers \ {s} : queue'[t] = queue[t]
  BY DEF Enqueue, TypeOK

LEMMA KickOnlyAt ==
    ASSUME TypeOK, NEW s \in Servers, NEW n \in Slots, NEW a, NEW gone, kick_char(s, n, a, gone)
    PROVE  \A t \in Servers \ {s} : queue'[t] = queue[t] /\ ch'[t] = ch[t]
  BY DEF kick_char, Enqueue, TypeOK

LEMMA DownStep ==
    ASSUME TypeOK, DownSafe, Next
    PROVE  DownSafe'
<1>1. ASSUME NEW k \in Clients, Client(k) PROVE DownSafe'
  <2> DEFINE s == conn[k].at
  <2>1. ASSUME Waits(k) \/ Plays(k) PROVE s \in Servers /\ run[s] = "up"
    BY <2>1 DEF TypeOK, ConnType, Waits, Plays, Up
  <2>2. ASSUME Plays(k) PROVE conn[k].cn \in Slots
    BY <2>2 DEF TypeOK, ConnType, Plays
  <2>3. CASE Poll(k)
    <3>1. Waits(k) /\ UNCHANGED run
      BY <2>3 DEF Poll, AskEmpty, AskUnclaimed, AskUsurped, Ask, CollectRefusal,
        CollectRedirect, CollectRescue, CollectChar, CollectGone, Collects, servers
    <3>2. \A t \in Servers \ {s} : login'[t] = login[t]
      BY <2>1, <2>3, <3>1 DEF Poll, AskEmpty, AskUnclaimed, AskUsurped, Ask, CollectRefusal,
        CollectRedirect, CollectRescue, CollectChar, CollectGone, Collects, TypeOK
    <3>3. \A t \in Servers \ {s} : ch'[t] = ch[t]
      BY <2>1, <2>3, <3>1 DEF Poll, AskEmpty, AskUnclaimed, AskUsurped, Ask, CollectRefusal,
        CollectRedirect, CollectRescue, CollectChar, CollectGone, TypeOK
    <3>4. UNCHANGED queue \/ \E qs : Enqueue(s, qs)
      BY <2>3 DEF Poll, AskEmpty, AskUnclaimed, AskUsurped, Ask, CollectRefusal,
        CollectRedirect, CollectRescue, CollectChar, CollectGone
    <3>5. \A t \in Servers \ {s} : queue'[t] = queue[t]
      BY <2>1, <3>1, <3>4, EnqueueOnlyAt
    <3> QED
      BY <2>1, <3>1, <3>2, <3>3, <3>5, DownFrame DEF OnlyAt
  <2>4. CASE Play(k)
    BY <2>1, <2>4, DownFrame DEF Play, OnlyAt, TypeOK, servers
  <2>5. CASE kick_player(k)
    BY <2>1, <2>5, DownFrame DEF kick_player, OnlyAt, TypeOK, servers
  <2>6. CASE GiveUp(k)
    BY <2>6 DEF GiveUp, DownSafe, servers
  <2>7. CASE Backup(k)
    BY <2>1, <2>7, EnqueueOnlyAt, DownFrame DEF Backup, OnlyAt, servers
  <2>8. ASSUME NEW a \in Areas, IdleExit(k, a) PROVE DownSafe'
    <3>1. /\ Plays(k) /\ UNCHANGED <<run, login>>
          /\ (kick_char(s, conn[k].cn, a, k) \/ UNCHANGED <<queue, ch>>)
      BY <2>8 DEF IdleExit, servers
    <3>2. \A t \in Servers \ {s} : queue'[t] = queue[t] /\ ch'[t] = ch[t]
      BY <2>1, <2>2, <3>1, KickOnlyAt
    <3> QED
      BY <2>1, <3>1, <3>2, DownFrame DEF OnlyAt
  <2>9. ASSUME NEW t \in Servers, NEW c \in Chars, Connect(k, t, c) PROVE DownSafe'
    BY <2>9 DEF Connect, DownSafe, servers
  <2> QED
    BY <1>1, <2>3, <2>4, <2>5, <2>6, <2>7, <2>8, <2>9 DEF Client
<1>2. ASSUME NEW s \in Servers, NEW n \in Slots, Slot(s, n) PROVE DownSafe'
  <2>1. run[s] = "up" /\ UNCHANGED <<run, login>>
    BY <1>2 DEF Slot, SpawnNpc, NpcDies, change_area, exit_char, LostconExit, BareKick, servers,
                PlayerCopy, Up
  <2>2. ASSUME NEW a, NEW gone, kick_char(s, n, a, gone) PROVE DownSafe'
    BY <2>1, <2>2, KickOnlyAt, DownFrame DEF OnlyAt
  <2>3. CASE SpawnNpc(s, n) \/ NpcDies(s, n)
    BY <2>1, <2>3, DownFrame DEF SpawnNpc, NpcDies, OnlyAt, TypeOK
  <2> QED
    BY <1>2, <2>2, <2>3 DEF Slot, change_area, exit_char, LostconExit, BareKick
<1>3. ASSUME NEW s \in Servers, Server(s) PROVE DownSafe'
  <2>1. CASE LoginAges(s)
    BY <2>1, DownFrame DEF LoginAges, OnlyAt, Up, TypeOK, servers
  <2>2. CASE tick_login(s)
    <3>1. /\ run[s] = "up" /\ UNCHANGED run
          /\ UNCHANGED queue \/ \E qs : Enqueue(s, qs)
      BY <2>2 DEF tick_login, Creates, Up, Usurp, UsurpGone, Create, CreateNoSlot,
                  CreateNoItem, CreateNoRoom, servers
    <3>2. \A t \in Servers \ {s} : login'[t] = login[t] /\ ch'[t] = ch[t]
      BY <2>2 DEF tick_login, Usurp, UsurpGone, Create, CreateNoSlot, CreateNoItem, CreateNoRoom,
                  Fails, Succeeds, TypeOK
    <3>3. \A t \in Servers \ {s} : queue'[t] = queue[t]
      BY <3>1, EnqueueOnlyAt
    <3> QED
      BY <3>1, <3>2, <3>3, DownFrame DEF OnlyAt
  <2>3. CASE db_thread(s)
    <3>1. PICK op : Takes(s, op)
      BY <2>3 DEF db_thread, DoBackup, DoLogout, DoRelease, LoadRefused, LoadElsewhere,
                  LoadOtherMirror, LoadHere, Loads, DoRescue, DoAlive, DoArealist
    <3>2. UNCHANGED <<run, ch>>
      BY <2>3 DEF db_thread, DoBackup, DoLogout, DoRelease, LoadRefused, LoadElsewhere,
                  LoadOtherMirror, LoadHere, Loads, DoRescue, DoAlive, DoArealist, servers
    <3>3. \A t \in Servers \ {s} : login'[t] = login[t]
      BY <2>3 DEF db_thread, DoBackup, DoLogout, DoRelease, LoadRefused, LoadElsewhere,
                  LoadOtherMirror, LoadHere, DoRescue, DoAlive, DoArealist, Fails, NewArea, TypeOK
    <3> QED
      BY <3>1, <3>2, <3>3, TakesShifts, DownFrame DEF OnlyAt
  <2>4. ASSUME NEW op, Periodic(s, op) PROVE DownSafe'
    BY <2>4, EnqueueOnlyAt, DownFrame DEF Periodic, OnlyAt, Up, servers
  <2>5. CASE AliveLapses(s)
    BY <2>5 DEF AliveLapses, DownSafe
  <2>6. CASE Crash(s)
    BY <2>6 DEF Crash, Forget, FreeSlot, DownSafe, TypeOK
  <2>7. CASE Start(s)
    BY <2>7, DownFrame DEF Start, OnlyAt, TypeOK
  <2>8. CASE Shutdown(s)
    BY <2>8, DownFrame DEF Shutdown, OnlyAt, TypeOK
  <2>9. CASE LeaveNext(s)
    <3>1. run[s] = "leaving" /\ UNCHANGED <<run, login>> /\ \E n \in Slots : \E a : kick_char(s, n, a, None)
      BY <2>9 DEF LeaveNext, servers
    <3> QED
      BY <3>1, KickOnlyAt, DownFrame DEF OnlyAt
  <2>10. CASE AllLeft(s)
    BY <2>10, EnqueueOnlyAt, DownFrame DEF AllLeft, OnlyAt, TypeOK
  <2>11. CASE Drained(s)
    BY <2>11 DEF Drained, Forget, FreeSlot, DownSafe, TypeOK
  <2> QED
    BY <1>3, <2>1, <2>2, <2>3, <2>4, <2>5, <2>6, <2>7, <2>8, <2>9, <2>10, <2>11 DEF Server
<1> QED
  BY <1>1, <1>2, <1>3 DEF Next

=============================================================================
