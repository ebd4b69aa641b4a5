---------------------------- MODULE StorageProofs ----------------------------
(* The storage table for any number of servers, changes, errors and restarts: *)
(* every client collects its own answers and knows its version, and nothing   *)
(* stored is overwritten with less.                                           *)
EXTENDS StorageProperties, FiniteSetTheorems, TLAPS

-----------------------------------------------------------------------------
(* The shape of what the variables hold                                       *)

SlotOK(slot) ==
    slot = Empty \/
    /\ DOMAIN slot \in {{"state", "row", "ver"}, {"state", "row", "ver", "data"}}
    /\ slot.state \in {"CREATE", "DONE", "FAILED"}
    /\ slot.row \in Clients /\ slot.ver \in Nat
    /\ HasData(slot) => slot.state = "DONE" /\ (slot.row = "pent" => slot.data \in Nat)

PentSteps == {"CREATE", "CREATE_WAIT", "READ", "READ_WAIT", "IDLE", "REREAD_WAIT", "WRITE_WAIT"}

ClanOK(c) == DOMAIN c = {"step", "ver", "data", "changed"} /\ c.step \in 0 .. 10 /\ c.ver \in Nat
PentOK(p) ==
    /\ DOMAIN p = {"step", "ver", "record", "dirty", "buf"} /\ p.step \in PentSteps
    /\ p.ver \in Nat /\ p.record \in Nat /\ p.buf \in Nat
MasterOK(m) == DOMAIN m = {"step", "ver", "data"} /\ m.step \in 0 .. 6 /\ m.ver \in Nat

RowOK(row) ==
    /\ DOMAIN stored[row] = {"ver", "data"}
    /\ stored[row].ver \in Nat
    /\ stored[row].ver = NoRow => stored[row].data = Nothing(row)
    /\ row = "pent" => stored[row].data \in Nat

Tables ==
    /\ DOMAIN cs = Servers /\ DOMAIN us = Servers /\ DOMAIN rs = Servers
    /\ DOMAIN clan = Servers /\ DOMAIN pent = Servers /\ DOMAIN master = Servers
    /\ DOMAIN stored = Clients /\ \A row \in Clients : RowOK(row)
    /\ faults \in Nat

-----------------------------------------------------------------------------
(* What is true of one server                                                 *)

Holds(slot, row) == InUse(slot) /\ slot.row = row

Sound(s) ==
    /\ SlotOK(cs[s]) /\ SlotOK(us[s]) /\ SlotOK(rs[s])
    /\ ~HasData(cs[s]) /\ ~HasData(us[s])
    /\ ClanOK(clan[s]) /\ PentOK(pent[s]) /\ MasterOK(master[s])

Own(s) ==
    /\ clan[s].step = 9 <=> Holds(cs[s], "clan")
    /\ clan[s].step = 7 <=> Holds(us[s], "clan")
    /\ clan[s].step = 1 <=> Holds(rs[s], "clan")
    /\ pent[s].step = "CREATE_WAIT" <=> Holds(cs[s], "pent")
    /\ pent[s].step = "WRITE_WAIT" <=> Holds(us[s], "pent")
    /\ pent[s].step \in {"READ_WAIT", "REREAD_WAIT"} <=> Holds(rs[s], "pent")
    /\ master[s].step = 1 <=> Holds(cs[s], "master")
    /\ master[s].step = 6 <=> Holds(us[s], "master")
    /\ master[s].step = 3 <=> Holds(rs[s], "master")

\* What a client has been told of its row: a version that is not ahead, and with
\* the row's own version what is stored.
Told(slot, ver, row) ==
    /\ slot.ver <= stored[row].ver
    /\ ~HasData(slot) => slot.ver = ver
    /\ HasData(slot) /\ slot.ver = stored[row].ver => slot.data = stored[row].data

ClanAt(ver, data) ==
    /\ ver <= stored["clan"].ver
    /\ ver = stored["clan"].ver => stored["clan"].data \subseteq data

ClanKnows(s) ==
    /\ ClanAt(clan[s].ver, clan[s].data)
    /\ Holds(us[s], "clan") =>
         us[s].ver = clan[s].ver /\ (us[s].state = "DONE" => ClanAt(us[s].ver + 1, clan[s].data))
    /\ Holds(cs[s], "clan") => (cs[s].state = "DONE" => ClanAt(1, clan[s].data))
    /\ Holds(rs[s], "clan") => Told(rs[s], clan[s].ver, "clan")

PentAt(ver, record) ==
    /\ ver <= stored["pent"].ver
    /\ ver = stored["pent"].ver => stored["pent"].data <= record

PentKnows(s) ==
    /\ pent[s].buf <= pent[s].record
    /\ PentAt(pent[s].ver, pent[s].record)
    /\ Holds(us[s], "pent") =>
         /\ us[s].ver = pent[s].ver /\ PentAt(us[s].ver, pent[s].buf)
         /\ us[s].state = "DONE" => PentAt(us[s].ver + 1, pent[s].buf)
    /\ Holds(rs[s], "pent") => Told(rs[s], pent[s].ver, "pent")

\* The only saver of its row, in the steps of its driver.
Sole(s) == "master" \in runs[s] /\ \A t \in Servers \ {s} : "master" \notin runs[t]
MasterKnows(s) ==
    /\ master[s].step # 0 => "master" \in runs[s]
    /\ faults = 0 /\ Sole(s) =>
         /\ master[s].step = 1 /\ cs[s].state # "CREATE" => stored["master"].ver # NoRow
         /\ master[s].step > 1 => stored["master"].ver # NoRow
         /\ master[s].step = 3 /\ rs[s].state # "CREATE" =>
              rs[s].state = "DONE" /\ rs[s].ver = stored["master"].ver
         /\ master[s].step \in {4, 5} => master[s].ver = stored["master"].ver
         /\ master[s].step = 6 =>
              us[s].ver = master[s].ver
              /\ stored["master"].ver = us[s].ver + (IF us[s].state = "CREATE" THEN 0 ELSE 1)

Fit(s) == Sound(s) /\ Own(s) /\ ClanKnows(s) /\ PentKnows(s) /\ MasterKnows(s)

StorageSafe == Tables /\ \A s \in Servers : Fit(s)

-----------------------------------------------------------------------------
(* The slots                                                                  *)

\* What a used slot holds, and what becomes of it when its query is done.
LEMMA SlotFacts ==
    ASSUME NEW slot, SlotOK(slot), InUse(slot)
    PROVE  /\ slot.state \in {"CREATE", "DONE", "FAILED"} /\ slot.row \in Clients /\ slot.ver \in Nat
           /\ Done(slot).state = "DONE" /\ Done(slot).row = slot.row /\ Done(slot).ver = slot.ver
           /\ Failed(slot).state = "FAILED" /\ Failed(slot).row = slot.row /\ Failed(slot).ver = slot.ver
           /\ DOMAIN Done(slot) = DOMAIN slot /\ DOMAIN Failed(slot) = DOMAIN slot
           /\ ~HasData(slot) => SlotOK(Done(slot)) /\ SlotOK(Failed(slot))
  BY DEF SlotOK, InUse, Empty, Done, Failed, HasData

\* Empty and freshly filled slots are in shape and answer nobody yet.
LEMMA FreshSlots ==
    /\ SlotOK(Empty) /\ ~InUse(Empty) /\ ~HasData(Empty) /\ \A row \in Clients : ~Holds(Empty, row)
    /\ \A row \in Clients, ver \in Nat :
         LET slot == Busy(row, ver) IN
         /\ SlotOK(slot) /\ InUse(slot) /\ slot.state = "CREATE" /\ slot.row = row /\ slot.ver = ver
         /\ ~HasData(slot)
  BY DEF SlotOK, InUse, Empty, Busy, HasData, Holds, Clients

\* What the others on other servers know stays true when rows are overwritten by
\* later versions.
LEMMA OthersFit ==
    ASSUME StorageSafe, NEW t \in Servers, runs' = runs, faults' \in Nat, faults' >= faults,
           cs'[t] = cs[t], us'[t] = us[t], rs'[t] = rs[t],
           clan'[t] = clan[t], pent'[t] = pent[t], master'[t] = master[t],
           \A row \in {"clan", "pent"} :
               stored'[row] = stored[row] \/ (stored'[row].ver \in Nat /\ stored'[row].ver > stored[row].ver),
           stored'["master"] = stored["master"] \/ \E s \in Servers \ {t} : "master" \in runs[s]
    PROVE  Fit(t)'
<1>1. Sound(t)' /\ Own(t)'
  BY DEF StorageSafe, Fit, Sound, Own, Holds
<1>2. clan[t].ver \in Nat /\ pent[t].ver \in Nat /\ stored["clan"].ver \in Nat /\ stored["pent"].ver \in Nat
  BY DEF StorageSafe, Fit, Sound, ClanOK, PentOK, Tables, RowOK, Clients
<1>3. /\ Holds(us[t], "clan") \/ Holds(us[t], "pent") => us[t].ver \in Nat
      /\ Holds(rs[t], "clan") \/ Holds(rs[t], "pent") => rs[t].ver \in Nat
  BY DEF StorageSafe, Fit, Sound, SlotOK, Holds, InUse, Empty
<1>4. ClanKnows(t)'
  BY <1>2, <1>3 DEF StorageSafe, Fit, ClanKnows, ClanAt, Told
<1>5. PentKnows(t)'
  BY <1>2, <1>3 DEF StorageSafe, Fit, PentKnows, PentAt, Told
<1>6. MasterKnows(t)'
  <2>1. Sole(t)' => Sole(t) /\ stored'["master"] = stored["master"]
    BY DEF Sole
  <2>2. faults' = 0 => faults = 0
    BY DEF StorageSafe, Tables
  <2> QED
    BY <2>1, <2>2 DEF StorageSafe, Fit, MasterKnows
<1> QED
  BY <1>1, <1>4, <1>5, <1>6 DEF Fit

-----------------------------------------------------------------------------
(* A client's step on server s                                                *)

Only(s) ==
    /\ DOMAIN cs' = Servers /\ DOMAIN us' = Servers /\ DOMAIN rs' = Servers
    /\ DOMAIN clan' = Servers /\ DOMAIN pent' = Servers /\ DOMAIN master' = Servers
    /\ \A t \in Servers \ {s} :
          /\ cs'[t] = cs[t] /\ us'[t] = us[t] /\ rs'[t] = rs[t]
          /\ clan'[t] = clan[t] /\ pent'[t] = pent[t] /\ master'[t] = master[t]

\* A step of one server's clients that leaves the rows alone keeps everything else.
LEMMA ClientStep ==
    ASSUME StorageSafe, NEW s \in Servers, Only(s), runs' = runs, stored' = stored, faults' = faults, Fit(s)'
    PROVE  StorageSafe'
<1>1. Tables'
  BY DEF StorageSafe, Tables, Only, RowOK
<1>2. ASSUME NEW t \in Servers, t # s PROVE Fit(t)'
  <2>1. faults' \in Nat /\ faults' >= faults
    BY DEF StorageSafe, Tables
  <2> QED
    BY <1>2, <2>1, OthersFit DEF Only
<1> QED
  BY <1>1, <1>2 DEF StorageSafe

\* Asking: the slot must be free.
LEMMA Asked ==
    ASSUME StorageSafe, NEW s \in Servers, NEW row \in Clients, NEW ver \in Nat
    PROVE  /\ create_storage(s, row) =>
                /\ ~InUse(cs[s]) /\ cs' = [cs EXCEPT ![s] = Busy(row, 0)] /\ us' = us /\ rs' = rs
                /\ cs'[s] = Busy(row, 0)
           /\ update_storage(s, row, ver) =>
                /\ ~InUse(us[s]) /\ us' = [us EXCEPT ![s] = Busy(row, ver)] /\ cs' = cs /\ rs' = rs
                /\ us'[s] = Busy(row, ver)
           /\ read_storage(s, row, ver) =>
                /\ ~InUse(rs[s]) /\ rs' = [rs EXCEPT ![s] = Busy(row, ver)] /\ cs' = cs /\ us' = us
                /\ rs'[s] = Busy(row, ver)
  BY DEF StorageSafe, Tables, create_storage, update_storage, read_storage

\* Collecting: the slot is answered, and empty afterwards.
LEMMA Collected ==
    ASSUME StorageSafe, NEW s \in Servers
    PROVE  /\ check_create_storage(s) =>
                /\ InUse(cs[s]) /\ cs[s].state # "CREATE"
                /\ cs' = [cs EXCEPT ![s] = Empty] /\ us' = us /\ rs' = rs /\ cs'[s] = Empty
           /\ check_update_storage(s) =>
                /\ InUse(us[s]) /\ us[s].state # "CREATE"
                /\ us' = [us EXCEPT ![s] = Empty] /\ cs' = cs /\ rs' = rs /\ us'[s] = Empty
           /\ check_read_storage(s) =>
                /\ InUse(rs[s]) /\ rs[s].state # "CREATE"
                /\ rs' = [rs EXCEPT ![s] = Empty] /\ cs' = cs /\ us' = us /\ rs'[s] = Empty
  BY DEF StorageSafe, Tables, check_create_storage, check_update_storage, check_read_storage, Answered, InUse

\* What a client of a row does to a slot: nothing, or it takes its answer, or asks.
Turn(new, old, row) ==
    \/ new = old
    \/ new = Empty /\ Holds(old, row)
    \/ ~InUse(old) /\ SlotOK(new) /\ Holds(new, row) /\ ~HasData(new)

Turns(s, row) ==
    Turn(cs[s]', cs[s], row) /\ Turn(us[s]', us[s], row) /\ Turn(rs[s]', rs[s], row)

\* A turn leaves the slots with the rows of the others as they are.
LEMMA TurnHolds ==
    ASSUME NEW old, NEW new, NEW row \in Clients, NEW other \in Clients \ {row},
           SlotOK(old), Turn(new, old, row)
    PROVE  /\ SlotOK(new) /\ (~HasData(old) => ~HasData(new))
           /\ Holds(new, other) <=> Holds(old, other)
           /\ Holds(new, other) => new = old
  BY FreshSlots DEF Turn, Holds

\* What a client leaves in the slots when it takes its turn.
LEMMA TurnsHold ==
    ASSUME StorageSafe, NEW s \in Servers, NEW row \in Clients, Turns(s, row)
    PROVE  /\ SlotOK(cs[s])' /\ SlotOK(us[s])' /\ SlotOK(rs[s])'
           /\ ~HasData(cs[s]') /\ ~HasData(us[s]')
           /\ \A other \in Clients \ {row} :
                /\ Holds(cs[s], other)' <=> Holds(cs[s], other)
                /\ Holds(us[s], other)' <=> Holds(us[s], other)
                /\ Holds(rs[s], other)' <=> Holds(rs[s], other)
                /\ Holds(cs[s], other) => cs[s]' = cs[s]
                /\ Holds(us[s], other) => us[s]' = us[s]
                /\ Holds(rs[s], other) => rs[s]' = rs[s]
<1>1. Sound(s)
  BY DEF StorageSafe, Fit
<1>2. ASSUME NEW other \in Clients \ {row}
      PROVE  /\ SlotOK(cs[s]') /\ ~HasData(cs[s]') /\ (Holds(cs[s]', other) <=> Holds(cs[s], other))
             /\ Holds(cs[s]', other) => cs[s]' = cs[s]
             /\ SlotOK(us[s]') /\ ~HasData(us[s]') /\ (Holds(us[s]', other) <=> Holds(us[s], other))
             /\ Holds(us[s]', other) => us[s]' = us[s]
             /\ SlotOK(rs[s]') /\ (Holds(rs[s]', other) <=> Holds(rs[s], other))
             /\ Holds(rs[s]', other) => rs[s]' = rs[s]
  BY <1>1, TurnHolds DEF Sound, Turns
<1>3. PICK other \in Clients \ {row} : TRUE
  BY DEF Clients
<1> QED
  BY <1>2, <1>3

\* A turn of the clan client keeps the table when the client agrees with it.
LEMMA ClanMoves ==
    ASSUME StorageSafe, NEW s \in Servers, Only(s), Turns(s, "clan"),
           runs' = runs, stored' = stored, faults' = faults, pent' = pent, master' = master,
           ClanOK(clan[s]'),
           clan[s]'.step = 9 <=> Holds(cs[s], "clan")',
           clan[s]'.step = 7 <=> Holds(us[s], "clan")',
           clan[s]'.step = 1 <=> Holds(rs[s], "clan")',
           ClanKnows(s)'
    PROVE  StorageSafe'
<1>1. Sound(s)' /\ Own(s)'
  BY TurnsHold DEF StorageSafe, Fit, Sound, Own, Clients
<1>2. PentKnows(s)'
  BY TurnsHold DEF StorageSafe, Fit, PentKnows, PentAt, Told, Clients
<1>3. MasterKnows(s)'
  BY TurnsHold DEF StorageSafe, Fit, MasterKnows, Sole, Own, Clients
<1> QED
  BY <1>1, <1>2, <1>3, ClientStep DEF Fit

\* A turn of the pentagram client keeps the table when the client agrees with it.
LEMMA PentMoves ==
    ASSUME StorageSafe, NEW s \in Servers, Only(s), Turns(s, "pent"),
           runs' = runs, stored' = stored, faults' = faults, clan' = clan, master' = master,
           PentOK(pent[s]'),
           pent[s]'.step = "CREATE_WAIT" <=> Holds(cs[s], "pent")',
           pent[s]'.step = "WRITE_WAIT" <=> Holds(us[s], "pent")',
           pent[s]'.step \in {"READ_WAIT", "REREAD_WAIT"} <=> Holds(rs[s], "pent")',
           PentKnows(s)'
    PROVE  StorageSafe'
<1>1. Sound(s)' /\ Own(s)'
  BY TurnsHold DEF StorageSafe, Fit, Sound, Own, Clients
<1>2. ClanKnows(s)'
  BY TurnsHold DEF StorageSafe, Fit, ClanKnows, ClanAt, Told, Clients
<1>3. MasterKnows(s)'
  BY TurnsHold DEF StorageSafe, Fit, MasterKnows, Sole, Own, Clients
<1> QED
  BY <1>1, <1>2, <1>3, ClientStep DEF Fit

\* A turn of the clan master's driver keeps the table when it agrees with it.
LEMMA MasterMoves ==
    ASSUME StorageSafe, NEW s \in Servers, Only(s), Turns(s, "master"),
           runs' = runs, stored' = stored, faults' = faults, clan' = clan, pent' = pent,
           MasterOK(master[s]'),
           master[s]'.step = 1 <=> Holds(cs[s], "master")',
           master[s]'.step = 6 <=> Holds(us[s], "master")',
           master[s]'.step = 3 <=> Holds(rs[s], "master")',
           MasterKnows(s)'
    PROVE  StorageSafe'
<1>1. Sound(s)' /\ Own(s)'
  BY TurnsHold DEF StorageSafe, Fit, Sound, Own, Clients
<1>2. ClanKnows(s)'
  BY TurnsHold DEF StorageSafe, Fit, ClanKnows, ClanAt, Told, Clients
<1>3. PentKnows(s)'
  BY TurnsHold DEF StorageSafe, Fit, PentKnows, PentAt, Told, Clients
<1> QED
  BY <1>1, <1>2, <1>3, ClientStep DEF Fit

-----------------------------------------------------------------------------
(* The clients' steps                                                         *)

\* Every step of the clan client keeps the agreement.
LEMMA ClanStep ==
    ASSUME StorageSafe, NEW s \in Servers, tick_clan(s)
    PROVE  StorageSafe'
<1>0. runs' = runs /\ stored' = stored /\ faults' = faults /\ pent' = pent /\ master' = master
  BY DEF tick_clan, ClanOnly
<1>1. /\ ClanOK(clan[s]) /\ Sound(s) /\ Own(s) /\ ClanKnows(s) /\ "clan" \in Clients
      /\ clan[s].ver \in Nat /\ stored["clan"].ver \in Nat
      /\ DOMAIN clan[s] = {"step", "ver", "data", "changed"}
  BY DEF StorageSafe, Fit, Sound, Clients, Tables, RowOK, ClanOK
<1>2. /\ DOMAIN cs = Servers /\ DOMAIN us = Servers /\ DOMAIN rs = Servers
      /\ DOMAIN clan = Servers /\ DOMAIN pent = Servers /\ DOMAIN master = Servers
  BY DEF StorageSafe, Tables
<1>3. ASSUME NEW c, clan' = [clan EXCEPT ![s] = c] PROVE DOMAIN clan' = Servers /\ clan'[s] = c /\ \A t \in Servers \ {s} : clan'[t] = clan[t]
  BY <1>2, <1>3
<1> USE <1>0
<1>4. CASE ClanReads(s)
  <2> DEFINE c == [clan[s] EXCEPT !.step = 1]
  <2>1. clan[s].step = 0 /\ clan' = [clan EXCEPT ![s] = c]
    BY <1>4 DEF ClanReads, SetClan
  <2>2. /\ ~InUse(rs[s]) /\ rs' = [rs EXCEPT ![s] = Busy("clan", clan[s].ver)] /\ cs' = cs /\ us' = us
        /\ rs'[s] = Busy("clan", clan[s].ver)
    BY <1>1, <1>4, Asked DEF ClanReads
  <2>3. /\ SlotOK(rs[s]') /\ InUse(rs[s]') /\ rs[s]'.state = "CREATE" /\ rs[s]'.row = "clan"
        /\ rs[s]'.ver = clan[s].ver /\ ~HasData(rs[s]')
    BY <1>1, <2>2, FreshSlots
  <2>4. Only(s) /\ Turns(s, "clan")
    BY <1>2, <1>3, <2>1, <2>2, <2>3 DEF Only, Turns, Turn, Holds
  <2>7. c.step = 1 /\ c.ver = clan[s].ver /\ c.data = clan[s].data /\ ClanOK(c)
    BY <1>1 DEF ClanOK
  <2> HIDE DEF c
  <2>5. clan[s]' = c
    BY <1>3, <2>1
  <2>6. ClanKnows(s)'
    BY <1>1, <2>1, <2>2, <2>3, <2>5, <2>7 DEF ClanKnows, ClanAt, Told, Own, Holds
  <2> QED
    BY <1>1, <2>1, <2>2, <2>3, <2>4, <2>5, <2>6, <2>7, ClanMoves DEF Own, Holds
<1>5. CASE ClanRead(s)
  <2>1. /\ clan[s].step = 1 /\ InUse(rs[s]) /\ rs[s].state # "CREATE"
        /\ rs' = [rs EXCEPT ![s] = Empty] /\ us' = us /\ cs' = cs /\ rs'[s] = Empty
    BY <1>5, Collected DEF ClanRead
  <2>2. Holds(rs[s], "clan") /\ SlotOK(rs[s]) /\ rs[s].ver \in Nat
    BY <1>1, <2>1, SlotFacts DEF Own, Sound
  <2> DEFINE read == [clan[s] EXCEPT !.step = 2, !.ver = rs[s].ver, !.data = IF HasData(rs[s]) THEN rs[s].data ELSE @]
             missed == [clan[s] EXCEPT !.step = IF s \in Owners THEN 8 ELSE 2]
  <2>3. clan' = [clan EXCEPT ![s] = IF Worked(rs[s]) THEN read ELSE missed]
    BY <1>5 DEF ClanRead, SetClan
  <2>4. /\ ClanOK(read) /\ read.step = 2 /\ read.ver = rs[s].ver
        /\ read.data = IF HasData(rs[s]) THEN rs[s].data ELSE clan[s].data
        /\ ClanOK(missed) /\ missed.step \in {2, 8} /\ missed.ver = clan[s].ver /\ missed.data = clan[s].data
    BY <1>1, <2>2 DEF ClanOK
  <2> HIDE DEF read, missed
  <2>5. clan[s]' \in {read, missed}
    BY <1>3, <2>3
  <2>6. Only(s) /\ Turns(s, "clan")
    BY <1>2, <1>3, <2>1, <2>2, <2>3 DEF Only, Turns, Turn
  <2>7. ClanKnows(s)'
    BY <1>1, <2>1, <2>2, <2>4, <2>5, FreshSlots DEF ClanKnows, ClanAt, Told, Own
  <2> QED
    BY <1>1, <2>1, <2>4, <2>5, <2>6, <2>7, FreshSlots, ClanMoves DEF Own
<1>6. ASSUME NEW c, clan' = [clan EXCEPT ![s] = c], UNCHANGED slots, ClanOK(c),
             clan[s].step \notin {1, 7, 9}, c.step \notin {1, 7, 9}, c.ver = clan[s].ver, c.data = clan[s].data
      PROVE  StorageSafe'
  <2>1. clan'[s] = c /\ cs' = cs /\ us' = us /\ rs' = rs
    BY <1>3, <1>6 DEF slots
  <2>2. Only(s) /\ Turns(s, "clan")
    BY <1>2, <1>3, <1>6, <2>1 DEF Only, Turns, Turn
  <2>3. ClanKnows(s)'
    BY <1>1, <1>6, <2>1 DEF ClanKnows, ClanAt, Told, Own
  <2> QED
    BY <1>1, <1>6, <2>1, <2>2, <2>3, ClanMoves DEF Own
<1>7. CASE ClanUpdated(s)
  <2> DEFINE c == [clan[s] EXCEPT !.step = IF s \in Owners THEN 6 ELSE 0]
  <2>1. clan[s].step = 2 /\ clan' = [clan EXCEPT ![s] = c] /\ UNCHANGED slots
    BY <1>7 DEF ClanUpdated, SetClan
  <2>2. ClanOK(c) /\ clan[s].step \notin {1, 7, 9} /\ c.step \notin {1, 7, 9} /\ c.ver = clan[s].ver /\ c.data = clan[s].data
    BY <1>1, <2>1 DEF ClanOK
  <2> HIDE DEF c
  <2> QED
    BY <1>6, <2>1, <2>2, Zenon
<1>8. CASE ClanRetries(s)
  <2> DEFINE c == [clan[s] EXCEPT !.step = 0]
  <2>1. clan[s].step = 10 /\ clan' = [clan EXCEPT ![s] = c] /\ UNCHANGED slots
    BY <1>8 DEF ClanRetries, SetClan
  <2>2. ClanOK(c) /\ clan[s].step \notin {1, 7, 9} /\ c.step \notin {1, 7, 9} /\ c.ver = clan[s].ver /\ c.data = clan[s].data
    BY <1>1, <2>1 DEF ClanOK
  <2> HIDE DEF c
  <2> QED
    BY <1>6, <2>1, <2>2, Zenon
<1>9. CASE ClanSaves(s)
  <2> DEFINE c == [clan[s] EXCEPT !.step = 7]
  <2>1. clan[s].step = 6 /\ clan' = [clan EXCEPT ![s] = c]
    BY <1>9 DEF ClanSaves, SetClan
  <2>2. /\ ~InUse(us[s]) /\ us' = [us EXCEPT ![s] = Busy("clan", clan[s].ver)] /\ cs' = cs /\ rs' = rs
        /\ us'[s] = Busy("clan", clan[s].ver)
    BY <1>1, <1>9, Asked DEF ClanSaves
  <2>3. /\ SlotOK(us[s]') /\ InUse(us[s]') /\ us[s]'.state = "CREATE" /\ us[s]'.row = "clan"
        /\ us[s]'.ver = clan[s].ver /\ ~HasData(us[s]')
    BY <1>1, <2>2, FreshSlots
  <2>4. Only(s) /\ Turns(s, "clan")
    BY <1>2, <1>3, <2>1, <2>2, <2>3 DEF Only, Turns, Turn, Holds
  <2>7. c.step = 7 /\ c.ver = clan[s].ver /\ c.data = clan[s].data /\ ClanOK(c)
    BY <1>1 DEF ClanOK
  <2> HIDE DEF c
  <2>5. clan[s]' = c
    BY <1>3, <2>1
  <2>6. ClanKnows(s)'
    BY <1>1, <2>1, <2>2, <2>3, <2>5, <2>7 DEF ClanKnows, ClanAt, Told, Own, Holds
  <2> QED
    BY <1>1, <2>1, <2>2, <2>3, <2>4, <2>5, <2>6, <2>7, ClanMoves DEF Own, Holds
<1>10. CASE ClanSaved(s)
  <2>1. /\ clan[s].step = 7 /\ InUse(us[s]) /\ us[s].state # "CREATE"
        /\ us' = [us EXCEPT ![s] = Empty] /\ cs' = cs /\ rs' = rs /\ us'[s] = Empty
    BY <1>10, Collected DEF ClanSaved
  <2>2. Holds(us[s], "clan") /\ us[s].ver = clan[s].ver
    BY <1>1, <2>1 DEF Own, ClanKnows
  <2> DEFINE c == IF Worked(us[s])
                  THEN [clan[s] EXCEPT !.step = 6, !.ver = @ + 1, !.changed = FALSE]
                  ELSE [clan[s] EXCEPT !.step = 0]
  <2>3. clan' = [clan EXCEPT ![s] = c]
    BY <1>10 DEF ClanSaved, SetClan
  <2>4. /\ ClanOK(c) /\ c.step \in {0, 6} /\ c.data = clan[s].data
        /\ c.ver = clan[s].ver \/ (us[s].state = "DONE" /\ c.ver = clan[s].ver + 1)
    BY <1>1 DEF ClanOK, Worked
  <2> HIDE DEF c
  <2>5. clan[s]' = c
    BY <1>3, <2>3
  <2>6. Only(s) /\ Turns(s, "clan")
    BY <1>2, <1>3, <2>1, <2>2, <2>3 DEF Only, Turns, Turn
  <2>7. ClanKnows(s)'
    BY <1>1, <2>1, <2>2, <2>4, <2>5, FreshSlots DEF ClanKnows, ClanAt, Told, Own
  <2> QED
    BY <1>1, <2>1, <2>4, <2>5, <2>6, <2>7, FreshSlots, ClanMoves DEF Own
<1>11. CASE ClanCreates(s)
  <2> DEFINE c == [clan[s] EXCEPT !.step = 9]
  <2>1. clan[s].step = 8 /\ clan' = [clan EXCEPT ![s] = c]
    BY <1>11 DEF ClanCreates, SetClan
  <2>2. ~InUse(cs[s]) /\ cs' = [cs EXCEPT ![s] = Busy("clan", 0)] /\ us' = us /\ rs' = rs /\ cs'[s] = Busy("clan", 0)
    BY <1>1, <1>11, Asked DEF ClanCreates
  <2>3. /\ SlotOK(cs[s]') /\ InUse(cs[s]') /\ cs[s]'.state = "CREATE" /\ cs[s]'.row = "clan" /\ ~HasData(cs[s]')
    BY <1>1, <2>2, FreshSlots
  <2>4. Only(s) /\ Turns(s, "clan")
    BY <1>2, <1>3, <2>1, <2>2, <2>3 DEF Only, Turns, Turn, Holds
  <2>7. c.step = 9 /\ c.ver = clan[s].ver /\ c.data = clan[s].data /\ ClanOK(c)
    BY <1>1 DEF ClanOK
  <2> HIDE DEF c
  <2>5. clan[s]' = c
    BY <1>3, <2>1
  <2>6. ClanKnows(s)'
    BY <1>1, <2>1, <2>2, <2>3, <2>5, <2>7 DEF ClanKnows, ClanAt, Told, Own, Holds
  <2> QED
    BY <1>1, <2>1, <2>2, <2>3, <2>4, <2>5, <2>6, <2>7, ClanMoves DEF Own, Holds
<1>12. CASE ClanCreated(s)
  <2>1. /\ clan[s].step = 9 /\ InUse(cs[s]) /\ cs[s].state # "CREATE"
        /\ cs' = [cs EXCEPT ![s] = Empty] /\ us' = us /\ rs' = rs /\ cs'[s] = Empty
    BY <1>12, Collected DEF ClanCreated
  <2>2. Holds(cs[s], "clan")
    BY <1>1, <2>1 DEF Own
  <2> DEFINE c == IF Worked(cs[s]) THEN [clan[s] EXCEPT !.step = 2, !.ver = 1] ELSE [clan[s] EXCEPT !.step = 10]
  <2>3. clan' = [clan EXCEPT ![s] = c]
    BY <1>12 DEF ClanCreated, SetClan
  <2>4. /\ ClanOK(c) /\ c.step \in {2, 10} /\ c.data = clan[s].data
        /\ c.ver = clan[s].ver \/ (cs[s].state = "DONE" /\ c.ver = 1)
    BY <1>1 DEF ClanOK, Worked
  <2> HIDE DEF c
  <2>5. clan[s]' = c
    BY <1>3, <2>3
  <2>6. Only(s) /\ Turns(s, "clan")
    BY <1>2, <1>3, <2>1, <2>2, <2>3 DEF Only, Turns, Turn
  <2>7. ClanKnows(s)'
    BY <1>1, <2>1, <2>2, <2>4, <2>5, FreshSlots DEF ClanKnows, ClanAt, Told, Own
  <2> QED
    BY <1>1, <2>1, <2>4, <2>5, <2>6, <2>7, FreshSlots, ClanMoves DEF Own
<1> QED
  BY <1>4, <1>5, <1>7, <1>8, <1>9, <1>10, <1>11, <1>12 DEF tick_clan

\* Every step of the pentagram client keeps the agreement.
LEMMA PentStep ==
    ASSUME StorageSafe, NEW s \in Servers, tick_pents(s)
    PROVE  StorageSafe'
<1>0. runs' = runs /\ stored' = stored /\ faults' = faults /\ clan' = clan /\ master' = master
  BY DEF tick_pents, PentOnly
<1>1. /\ Sound(s) /\ Own(s) /\ PentKnows(s) /\ "pent" \in Clients
      /\ pent[s].ver \in Nat /\ pent[s].record \in Nat /\ pent[s].buf \in Nat /\ pent[s].step \in PentSteps
      /\ DOMAIN pent[s] = {"step", "ver", "record", "dirty", "buf"}
      /\ stored["pent"].ver \in Nat /\ stored["pent"].data \in Nat
  BY DEF StorageSafe, Fit, Sound, Clients, Tables, RowOK, PentOK
<1>2. /\ DOMAIN cs = Servers /\ DOMAIN us = Servers /\ DOMAIN rs = Servers
      /\ DOMAIN clan = Servers /\ DOMAIN pent = Servers /\ DOMAIN master = Servers
  BY DEF StorageSafe, Tables
<1>3. ASSUME NEW p, pent' = [pent EXCEPT ![s] = p]
      PROVE  DOMAIN pent' = Servers /\ pent'[s] = p /\ \A t \in Servers \ {s} : pent'[t] = pent[t]
  BY <1>2, <1>3
<1> USE <1>0
<1>4. CASE PentCreates(s)
  <2> DEFINE p == [pent[s] EXCEPT !.step = "CREATE_WAIT", !.buf = pent[s].record]
  <2>1. pent[s].step = "CREATE" /\ pent' = [pent EXCEPT ![s] = p]
    BY <1>4 DEF PentCreates, SetPent
  <2>2. ~InUse(cs[s]) /\ cs' = [cs EXCEPT ![s] = Busy("pent", 0)] /\ us' = us /\ rs' = rs /\ cs'[s] = Busy("pent", 0)
    BY <1>1, <1>4, Asked DEF PentCreates
  <2>3. /\ SlotOK(cs[s]') /\ InUse(cs[s]') /\ cs[s]'.state = "CREATE" /\ cs[s]'.row = "pent" /\ ~HasData(cs[s]')
    BY <1>1, <2>2, FreshSlots
  <2>4. Only(s) /\ Turns(s, "pent")
    BY <1>2, <1>3, <2>1, <2>2, <2>3 DEF Only, Turns, Turn, Holds
  <2>5. /\ p.step = "CREATE_WAIT" /\ p.ver = pent[s].ver /\ p.record = pent[s].record
        /\ p.buf = pent[s].record /\ PentOK(p)
    BY <1>1 DEF PentOK, PentSteps
  <2> HIDE DEF p
  <2>6. pent[s]' = p
    BY <1>3, <2>1
  <2>7. PentKnows(s)'
    BY <1>1, <2>1, <2>2, <2>3, <2>5, <2>6 DEF PentKnows, PentAt, Told, Own, Holds
  <2> QED
    BY <1>1, <2>1, <2>2, <2>3, <2>4, <2>5, <2>6, <2>7, PentMoves DEF Own, Holds
<1>5. CASE PentCreated(s)
  <2> DEFINE p == [pent[s] EXCEPT !.step = "READ"]
  <2>1. /\ pent[s].step = "CREATE_WAIT" /\ pent' = [pent EXCEPT ![s] = p]
        /\ InUse(cs[s]) /\ cs' = [cs EXCEPT ![s] = Empty] /\ us' = us /\ rs' = rs /\ cs'[s] = Empty
    BY <1>5, Collected DEF PentCreated, SetPent
  <2>2. Holds(cs[s], "pent")
    BY <1>1, <2>1 DEF Own
  <2>3. p.step = "READ" /\ p.ver = pent[s].ver /\ p.record = pent[s].record /\ p.buf = pent[s].buf /\ PentOK(p)
    BY <1>1 DEF PentOK, PentSteps
  <2> HIDE DEF p
  <2>4. pent[s]' = p
    BY <1>3, <2>1
  <2>5. Only(s) /\ Turns(s, "pent")
    BY <1>2, <1>3, <2>1, <2>2 DEF Only, Turns, Turn
  <2>6. PentKnows(s)'
    BY <1>1, <2>1, <2>2, <2>3, <2>4, FreshSlots DEF PentKnows, PentAt, Told, Own
  <2> QED
    BY <1>1, <2>1, <2>3, <2>4, <2>5, <2>6, FreshSlots, PentMoves DEF Own
<1>6. CASE PentReads(s)
  <2> DEFINE p == [pent[s] EXCEPT !.step = IF @ = "READ" THEN "READ_WAIT" ELSE "REREAD_WAIT"]
  <2>1. pent[s].step \in {"READ", "IDLE"} /\ pent' = [pent EXCEPT ![s] = p]
    BY <1>6 DEF PentReads, SetPent
  <2>2. /\ ~InUse(rs[s]) /\ rs' = [rs EXCEPT ![s] = Busy("pent", pent[s].ver)] /\ cs' = cs /\ us' = us
        /\ rs'[s] = Busy("pent", pent[s].ver)
    BY <1>1, <1>6, Asked DEF PentReads
  <2>3. /\ SlotOK(rs[s]') /\ InUse(rs[s]') /\ rs[s]'.state = "CREATE" /\ rs[s]'.row = "pent"
        /\ rs[s]'.ver = pent[s].ver /\ ~HasData(rs[s]')
    BY <1>1, <2>2, FreshSlots
  <2>4. Only(s) /\ Turns(s, "pent")
    BY <1>2, <1>3, <2>1, <2>2, <2>3 DEF Only, Turns, Turn, Holds
  <2>5. /\ p.step \in {"READ_WAIT", "REREAD_WAIT"} /\ p.ver = pent[s].ver /\ p.record = pent[s].record
        /\ p.buf = pent[s].buf /\ PentOK(p)
    BY <1>1 DEF PentOK, PentSteps
  <2> HIDE DEF p
  <2>6. pent[s]' = p
    BY <1>3, <2>1
  <2>7. PentKnows(s)'
    BY <1>1, <2>1, <2>2, <2>3, <2>5, <2>6 DEF PentKnows, PentAt, Told, Own, Holds
  <2> QED
    BY <1>1, <2>1, <2>2, <2>3, <2>4, <2>5, <2>6, <2>7, PentMoves DEF Own, Holds
<1>7. CASE PentRead(s)
  <2>1. /\ pent[s].step \in {"READ_WAIT", "REREAD_WAIT"} /\ InUse(rs[s]) /\ rs[s].state # "CREATE"
        /\ rs' = [rs EXCEPT ![s] = Empty] /\ us' = us /\ cs' = cs /\ rs'[s] = Empty
    BY <1>7, Collected DEF PentRead
  <2>2. /\ Holds(rs[s], "pent") /\ SlotOK(rs[s]) /\ rs[s].ver \in Nat
        /\ HasData(rs[s]) => rs[s].data \in Nat
    BY <1>1, <2>1, SlotFacts DEF Own, Sound, SlotOK, Holds, Empty, InUse
  <2> DEFINE failed == [pent[s] EXCEPT !.step = IF @ = "READ_WAIT" THEN "CREATE" ELSE "IDLE"]
             known == [pent[s] EXCEPT !.ver = rs[s].ver, !.step = "IDLE"]
             read == apply_pent_record(known, rs[s].data)
             p == IF ~Worked(rs[s]) THEN failed ELSE IF HasData(rs[s]) THEN read ELSE known
  <2>3. pent' = [pent EXCEPT ![s] = p]
    BY <1>7 DEF PentRead, SetPent
  <2>4. /\ failed.step \in {"CREATE", "IDLE"} /\ failed.ver = pent[s].ver
        /\ failed.record = pent[s].record /\ failed.buf = pent[s].buf /\ PentOK(failed)
    BY <1>1 DEF PentOK, PentSteps
  <2>5. /\ known.step = "IDLE" /\ known.ver = rs[s].ver
        /\ known.record = pent[s].record /\ known.buf = pent[s].buf /\ PentOK(known)
    BY <1>1, <2>2 DEF PentOK, PentSteps
  <2> HIDE DEF failed, known
  <2>6. HasData(rs[s]) =>
          /\ read.step = "IDLE" /\ read.ver = rs[s].ver /\ read.buf = pent[s].buf /\ PentOK(read)
          /\ read.record >= pent[s].record /\ read.record >= rs[s].data
    BY <1>1, <2>2, <2>5 DEF apply_pent_record, PentOK
  <2> HIDE DEF read
  <2>7. /\ p.step \in {"CREATE", "IDLE"} /\ PentOK(p) /\ p.record >= pent[s].record /\ p.buf = pent[s].buf
        /\ \/ p.ver = pent[s].ver
           \/ p.ver = rs[s].ver /\ (HasData(rs[s]) => p.record >= rs[s].data)
    <3>1. pent[s].record >= pent[s].record
      BY <1>1
    <3> QED
      BY <2>4, <2>5, <2>6, <3>1
  <2> HIDE DEF p
  <2>8. pent[s]' = p
    BY <1>3, <2>3
  <2>9. Only(s) /\ Turns(s, "pent")
    BY <1>2, <1>3, <2>1, <2>2, <2>3 DEF Only, Turns, Turn
  <2>10. PentKnows(s)'
    <3>1. p.record \in Nat
      BY <2>7 DEF PentOK
    <3>2. PentAt(p.ver, p.record)
      BY <1>1, <2>2, <2>7, <3>1 DEF PentKnows, PentAt, Told
    <3>3. p.buf <= p.record
      BY <1>1, <2>7, <3>1 DEF PentKnows
    <3> QED
      BY <1>1, <2>1, <2>2, <2>8, <3>2, <3>3, FreshSlots DEF PentKnows, PentAt, Own
  <2> QED
    BY <1>1, <2>1, <2>7, <2>8, <2>9, <2>10, FreshSlots, PentMoves DEF Own
<1>8. CASE PentWrites(s)
  <2> DEFINE p == [pent[s] EXCEPT !.step = "WRITE_WAIT", !.dirty = FALSE, !.buf = pent[s].record]
  <2>1. pent[s].step = "IDLE" /\ pent' = [pent EXCEPT ![s] = p]
    BY <1>8 DEF PentWrites, SetPent
  <2>2. /\ ~InUse(us[s]) /\ us' = [us EXCEPT ![s] = Busy("pent", pent[s].ver)] /\ cs' = cs /\ rs' = rs
        /\ us'[s] = Busy("pent", pent[s].ver)
    BY <1>1, <1>8, Asked DEF PentWrites
  <2>3. /\ SlotOK(us[s]') /\ InUse(us[s]') /\ us[s]'.state = "CREATE" /\ us[s]'.row = "pent"
        /\ us[s]'.ver = pent[s].ver /\ ~HasData(us[s]')
    BY <1>1, <2>2, FreshSlots
  <2>4. Only(s) /\ Turns(s, "pent")
    BY <1>2, <1>3, <2>1, <2>2, <2>3 DEF Only, Turns, Turn, Holds
  <2>5. /\ p.step = "WRITE_WAIT" /\ p.ver = pent[s].ver /\ p.record = pent[s].record
        /\ p.buf = pent[s].record /\ PentOK(p)
    BY <1>1 DEF PentOK, PentSteps
  <2> HIDE DEF p
  <2>6. pent[s]' = p
    BY <1>3, <2>1
  <2>7. PentKnows(s)'
    BY <1>1, <2>1, <2>2, <2>3, <2>5, <2>6 DEF PentKnows, PentAt, Told, Own, Holds
  <2> QED
    BY <1>1, <2>1, <2>2, <2>3, <2>4, <2>5, <2>6, <2>7, PentMoves DEF Own, Holds
<1>9. CASE PentWritten(s)
  <2>1. /\ pent[s].step = "WRITE_WAIT" /\ InUse(us[s]) /\ us[s].state # "CREATE"
        /\ us' = [us EXCEPT ![s] = Empty] /\ cs' = cs /\ rs' = rs /\ us'[s] = Empty
    BY <1>9, Collected DEF PentWritten
  <2>2. Holds(us[s], "pent") /\ us[s].ver = pent[s].ver
    BY <1>1, <2>1 DEF Own, PentKnows
  <2> DEFINE p == IF Worked(us[s]) THEN [pent[s] EXCEPT !.ver = @ + 1, !.step = "IDLE"]
                  ELSE [pent[s] EXCEPT !.dirty = TRUE, !.step = "READ"]
  <2>3. pent' = [pent EXCEPT ![s] = p]
    BY <1>9 DEF PentWritten, SetPent
  <2>4. /\ p.step \in {"IDLE", "READ"} /\ p.record = pent[s].record /\ p.buf = pent[s].buf /\ PentOK(p)
        /\ p.ver = pent[s].ver \/ (us[s].state = "DONE" /\ p.ver = pent[s].ver + 1)
    BY <1>1 DEF PentOK, PentSteps, Worked
  <2> HIDE DEF p
  <2>5. pent[s]' = p
    BY <1>3, <2>3
  <2>6. Only(s) /\ Turns(s, "pent")
    BY <1>2, <1>3, <2>1, <2>2, <2>3 DEF Only, Turns, Turn
  <2>7. PentKnows(s)'
    BY <1>1, <2>1, <2>2, <2>4, <2>5, FreshSlots DEF PentKnows, PentAt, Told, Own
  <2> QED
    BY <1>1, <2>1, <2>4, <2>5, <2>6, <2>7, FreshSlots, PentMoves DEF Own
<1> QED
  BY <1>4, <1>5, <1>6, <1>7, <1>8, <1>9 DEF tick_pents

\* Every step of the clan master's driver keeps the agreement.
LEMMA MasterStep ==
    ASSUME StorageSafe, NEW s \in Servers, MasterDriver(s)
    PROVE  StorageSafe'
<1>0. /\ runs' = runs /\ stored' = stored /\ faults' = faults /\ clan' = clan /\ pent' = pent
      /\ "master" \in runs[s]
  BY DEF MasterDriver, MasterOnly
<1>1. /\ Sound(s) /\ Own(s) /\ MasterKnows(s) /\ "master" \in Clients
      /\ master[s].ver \in Nat /\ master[s].step \in 0 .. 6
      /\ DOMAIN master[s] = {"step", "ver", "data"} /\ stored["master"].ver \in Nat
  BY DEF StorageSafe, Fit, Sound, Clients, Tables, RowOK, MasterOK
<1>2. /\ DOMAIN cs = Servers /\ DOMAIN us = Servers /\ DOMAIN rs = Servers
      /\ DOMAIN clan = Servers /\ DOMAIN pent = Servers /\ DOMAIN master = Servers
  BY DEF StorageSafe, Tables
<1>3. ASSUME NEW d, master' = [master EXCEPT ![s] = d]
      PROVE  DOMAIN master' = Servers /\ master'[s] = d /\ \A t \in Servers \ {s} : master'[t] = master[t]
  BY <1>2, <1>3
<1>4. Sole(s)' => Sole(s)
  BY <1>0 DEF Sole
<1> USE <1>0
<1>5. CASE MasterAsks(s) /\ SetMaster(s, [master[s] EXCEPT !.step = @ + 1])
  <2> DEFINE d == [master[s] EXCEPT !.step = @ + 1]
  <2>1. master' = [master EXCEPT ![s] = d] /\ master[s].step \in {0, 2, 5}
    BY <1>5 DEF SetMaster, MasterAsks
  <2>2. d.step = master[s].step + 1 /\ d.ver = master[s].ver /\ MasterOK(d)
    BY <1>1, <2>1 DEF MasterOK
  <2> HIDE DEF d
  <2>3. master[s]' = d
    BY <1>3, <2>1
  <2>4. CASE master[s].step = 0
    <3>1. ~InUse(cs[s]) /\ cs' = [cs EXCEPT ![s] = Busy("master", 0)] /\ us' = us /\ rs' = rs /\ cs'[s] = Busy("master", 0)
      BY <1>1, <1>5, <2>4, Asked DEF MasterAsks
    <3>2. SlotOK(cs[s]') /\ InUse(cs[s]') /\ cs[s]'.state = "CREATE" /\ cs[s]'.row = "master" /\ ~HasData(cs[s]')
      BY <1>1, <3>1, FreshSlots
    <3>3. Only(s) /\ Turns(s, "master")
      BY <1>2, <1>3, <2>1, <3>1, <3>2 DEF Only, Turns, Turn, Holds
    <3>4. MasterKnows(s)'
      BY <2>2, <2>3, <2>4, <3>2 DEF MasterKnows
    <3> QED
      BY <1>1, <2>2, <2>3, <2>4, <3>1, <3>2, <3>3, <3>4, MasterMoves DEF Own, Holds
  <2>5. CASE master[s].step = 2
    <3>1. /\ ~InUse(rs[s]) /\ rs' = [rs EXCEPT ![s] = Busy("master", master[s].ver)] /\ cs' = cs /\ us' = us
          /\ rs'[s] = Busy("master", master[s].ver)
      BY <1>1, <1>5, <2>5, Asked DEF MasterAsks
    <3>2. SlotOK(rs[s]') /\ InUse(rs[s]') /\ rs[s]'.state = "CREATE" /\ rs[s]'.row = "master" /\ ~HasData(rs[s]')
      BY <1>1, <3>1, FreshSlots
    <3>3. Only(s) /\ Turns(s, "master")
      BY <1>2, <1>3, <2>1, <3>1, <3>2 DEF Only, Turns, Turn, Holds
    <3>4. MasterKnows(s)'
      BY <1>1, <1>4, <2>2, <2>3, <2>5, <3>2 DEF MasterKnows
    <3> QED
      BY <1>1, <2>2, <2>3, <2>5, <3>1, <3>2, <3>3, <3>4, MasterMoves DEF Own, Holds
  <2>6. CASE master[s].step = 5
    <3>1. /\ ~InUse(us[s]) /\ us' = [us EXCEPT ![s] = Busy("master", master[s].ver)] /\ cs' = cs /\ rs' = rs
          /\ us'[s] = Busy("master", master[s].ver)
      BY <1>1, <1>5, <2>6, Asked DEF MasterAsks
    <3>2. /\ SlotOK(us[s]') /\ InUse(us[s]') /\ us[s]'.state = "CREATE" /\ us[s]'.row = "master"
          /\ us[s]'.ver = master[s].ver /\ ~HasData(us[s]')
      BY <1>1, <3>1, FreshSlots
    <3>3. Only(s) /\ Turns(s, "master")
      BY <1>2, <1>3, <2>1, <3>1, <3>2 DEF Only, Turns, Turn, Holds
    <3>4. MasterKnows(s)'
      BY <1>1, <1>4, <2>2, <2>3, <2>6, <3>2 DEF MasterKnows
    <3> QED
      BY <1>1, <2>2, <2>3, <2>6, <3>1, <3>2, <3>3, <3>4, MasterMoves DEF Own, Holds
  <2> QED
    BY <2>1, <2>4, <2>5, <2>6
<1>6. CASE MasterCreated(s)
  <2> DEFINE d == [master[s] EXCEPT !.step = 2]
  <2>1. /\ master[s].step = 1 /\ master' = [master EXCEPT ![s] = d] /\ InUse(cs[s]) /\ cs[s].state # "CREATE"
        /\ cs' = [cs EXCEPT ![s] = Empty] /\ us' = us /\ rs' = rs /\ cs'[s] = Empty
    BY <1>6, Collected DEF MasterCreated, SetMaster
  <2>2. Holds(cs[s], "master")
    BY <1>1, <2>1 DEF Own
  <2>3. d.step = 2 /\ d.ver = master[s].ver /\ MasterOK(d)
    BY <1>1 DEF MasterOK
  <2> HIDE DEF d
  <2>4. master[s]' = d
    BY <1>3, <2>1
  <2>5. Only(s) /\ Turns(s, "master")
    BY <1>2, <1>3, <2>1, <2>2 DEF Only, Turns, Turn
  <2>6. MasterKnows(s)'
    BY <1>1, <1>4, <2>1, <2>3, <2>4 DEF MasterKnows
  <2> QED
    BY <1>1, <2>1, <2>3, <2>4, <2>5, <2>6, FreshSlots, MasterMoves DEF Own
<1>7. CASE MasterRead(s)
  <2> DEFINE d == [master[s] EXCEPT !.step = 4,
                       !.ver = IF Worked(rs[s]) THEN rs[s].ver ELSE @,
                       !.data = IF Worked(rs[s]) /\ HasData(rs[s]) THEN rs[s].data ELSE @]
  <2>1. /\ master[s].step = 3 /\ InUse(rs[s]) /\ rs[s].state # "CREATE"
        /\ rs' = [rs EXCEPT ![s] = Empty] /\ us' = us /\ cs' = cs /\ rs'[s] = Empty
    BY <1>7, Collected DEF MasterRead
  <2>2. Holds(rs[s], "master") /\ rs[s].ver \in Nat
    BY <1>1, <2>1, SlotFacts DEF Own, Sound
  <2>3. master' = [master EXCEPT ![s] = d]
    BY <1>7 DEF MasterRead, SetMaster
  <2>4. d.step = 4 /\ MasterOK(d) /\ (rs[s].state = "DONE" => d.ver = rs[s].ver)
    BY <1>1, <2>2 DEF MasterOK, Worked
  <2> HIDE DEF d
  <2>5. master[s]' = d
    BY <1>3, <2>3
  <2>6. Only(s) /\ Turns(s, "master")
    BY <1>2, <1>3, <2>1, <2>2, <2>3 DEF Only, Turns, Turn
  <2>7. MasterKnows(s)'
    BY <1>1, <1>4, <2>1, <2>4, <2>5 DEF MasterKnows
  <2> QED
    BY <1>1, <2>1, <2>4, <2>5, <2>6, <2>7, FreshSlots, MasterMoves DEF Own
<1>8. CASE MasterSaved(s)
  <2> DEFINE d == [master[s] EXCEPT !.step = 4, !.ver = @ + 1]
  <2>1. /\ master[s].step = 6 /\ master' = [master EXCEPT ![s] = d] /\ InUse(us[s]) /\ us[s].state # "CREATE"
        /\ us' = [us EXCEPT ![s] = Empty] /\ cs' = cs /\ rs' = rs /\ us'[s] = Empty
    BY <1>8, Collected DEF MasterSaved, SetMaster
  <2>2. Holds(us[s], "master")
    BY <1>1, <2>1 DEF Own
  <2>3. d.step = 4 /\ d.ver = master[s].ver + 1 /\ MasterOK(d)
    BY <1>1 DEF MasterOK
  <2> HIDE DEF d
  <2>4. master[s]' = d
    BY <1>3, <2>1
  <2>5. Only(s) /\ Turns(s, "master")
    BY <1>2, <1>3, <2>1, <2>2 DEF Only, Turns, Turn
  <2>6. MasterKnows(s)'
    BY <1>1, <1>4, <2>1, <2>3, <2>4 DEF MasterKnows
  <2> QED
    BY <1>1, <2>1, <2>3, <2>4, <2>5, <2>6, FreshSlots, MasterMoves DEF Own
<1> QED
  BY <1>5, <1>6, <1>7, <1>8 DEF MasterDriver

\* The clients' memory changes, or a server starts afresh.
LEMMA MemoryStep ==
    ASSUME StorageSafe, NEW s \in Servers,
           ChangeClan(s) \/ BeatRecord(s) \/ ChangeMaster(s) \/ MasterTimer(s) \/ StorageRestart(s)
    PROVE  StorageSafe'
<1>1. /\ Sound(s) /\ Own(s) /\ ClanKnows(s) /\ PentKnows(s) /\ MasterKnows(s)
      /\ ClanOK(clan[s]) /\ PentOK(pent[s]) /\ MasterOK(master[s])
      /\ stored["clan"].ver \in Nat /\ stored["pent"].ver \in Nat /\ stored["pent"].data \in Nat
  BY DEF StorageSafe, Fit, Sound, Tables, RowOK, Clients
<1>2. /\ DOMAIN cs = Servers /\ DOMAIN us = Servers /\ DOMAIN rs = Servers
      /\ DOMAIN clan = Servers /\ DOMAIN pent = Servers /\ DOMAIN master = Servers
  BY DEF StorageSafe, Tables
<1>3. CASE ChangeClan(s)
  <2> DEFINE c == [clan[s] EXCEPT !.data = @ \cup {changes'}, !.changed = TRUE]
  <2>1. /\ clan' = [clan EXCEPT ![s] = c] /\ UNCHANGED <<runs, stored, pent, master, faults>>
        /\ cs' = cs /\ us' = us /\ rs' = rs
    BY <1>3 DEF ChangeClan, SetClan, slots
  <2>2. ClanOK(c) /\ c.step = clan[s].step /\ c.ver = clan[s].ver /\ clan[s].data \subseteq c.data
    BY <1>1 DEF ClanOK
  <2> HIDE DEF c
  <2>3. clan[s]' = c /\ Only(s)
    BY <1>2, <2>1 DEF Only
  <2>4. Turns(s, "clan")
    BY <2>1 DEF Turns, Turn
  <2>5. ClanKnows(s)'
    BY <1>1, <2>1, <2>2, <2>3 DEF ClanKnows, ClanAt, Told
  <2> QED
    BY <1>1, <2>1, <2>2, <2>3, <2>4, <2>5, ClanMoves DEF Own
<1>4. CASE BeatRecord(s)
  <2>1. PICK n \in Records : n > pent[s].record /\ SetPent(s, [pent[s] EXCEPT !.record = n, !.dirty = TRUE])
    BY <1>4 DEF BeatRecord
  <2> DEFINE p == [pent[s] EXCEPT !.record = n, !.dirty = TRUE]
  <2>2. /\ pent' = [pent EXCEPT ![s] = p] /\ UNCHANGED <<runs, stored, clan, master, faults>>
        /\ cs' = cs /\ us' = us /\ rs' = rs
    BY <1>4, <2>1 DEF BeatRecord, SetPent, PentOnly, slots
  <2>3. PentOK(p) /\ p.step = pent[s].step /\ p.ver = pent[s].ver /\ p.buf = pent[s].buf
        /\ p.record > pent[s].record /\ p.record \in Nat
    <3>1. n \in Nat
      BY StorageAssumption DEF Records
    <3> QED
      BY <1>1, <2>1, <3>1 DEF PentOK
  <2> HIDE DEF p
  <2>4. pent[s]' = p /\ Only(s)
    BY <1>2, <2>2 DEF Only
  <2>5. Turns(s, "pent")
    BY <2>2 DEF Turns, Turn
  <2>6. PentKnows(s)'
    BY <1>1, <2>2, <2>3, <2>4 DEF PentKnows, PentAt, Told, PentOK
  <2> QED
    BY <1>1, <2>2, <2>3, <2>4, <2>5, <2>6, PentMoves DEF Own
<1>5. CASE ChangeMaster(s)
  <2> DEFINE d == [master[s] EXCEPT !.data = @ \cup {changes'}]
  <2>1. /\ master' = [master EXCEPT ![s] = d] /\ UNCHANGED <<runs, stored, clan, pent, faults>>
        /\ cs' = cs /\ us' = us /\ rs' = rs
    BY <1>5 DEF ChangeMaster, SetMaster, slots
  <2>2. MasterOK(d) /\ d.step = master[s].step /\ d.ver = master[s].ver
    BY <1>1 DEF MasterOK
  <2> HIDE DEF d
  <2>3. master[s]' = d /\ Only(s)
    BY <1>2, <2>1 DEF Only
  <2>4. Turns(s, "master")
    BY <2>1 DEF Turns, Turn
  <2>5. MasterKnows(s)'
    BY <1>1, <2>1, <2>2, <2>3 DEF MasterKnows, Sole
  <2> QED
    BY <1>1, <2>1, <2>2, <2>3, <2>4, <2>5, MasterMoves DEF Own
<1>6. CASE MasterTimer(s)
  <2> DEFINE d == [master[s] EXCEPT !.step = 5]
  <2>1. /\ master' = [master EXCEPT ![s] = d] /\ UNCHANGED <<runs, stored, clan, pent, faults>>
        /\ cs' = cs /\ us' = us /\ rs' = rs /\ master[s].step = 4
    BY <1>6 DEF MasterTimer, SetMaster, MasterOnly, slots
  <2>2. MasterOK(d) /\ d.step = 5 /\ d.ver = master[s].ver
    BY <1>1 DEF MasterOK
  <2> HIDE DEF d
  <2>3. master[s]' = d /\ Only(s)
    BY <1>2, <2>1 DEF Only
  <2>4. Turns(s, "master")
    BY <2>1 DEF Turns, Turn
  <2>5. MasterKnows(s)'
    BY <1>1, <2>1, <2>2, <2>3 DEF MasterKnows, Sole
  <2> QED
    BY <1>1, <2>1, <2>2, <2>3, <2>4, <2>5, MasterMoves DEF Own
<1>7. CASE StorageRestart(s)
  <2>1. /\ cs' = [cs EXCEPT ![s] = Empty] /\ us' = [us EXCEPT ![s] = Empty] /\ rs' = [rs EXCEPT ![s] = Empty]
        /\ clan' = [clan EXCEPT ![s] = NewClan] /\ pent' = [pent EXCEPT ![s] = NewPent]
        /\ master' = [master EXCEPT ![s] = NewMaster] /\ UNCHANGED <<runs, stored, faults>>
    BY <1>7 DEF StorageRestart, SetClan, SetPent, SetMaster
  <2>2. /\ Only(s) /\ cs[s]' = Empty /\ us[s]' = Empty /\ rs[s]' = Empty
        /\ clan[s]' = NewClan /\ pent[s]' = NewPent /\ master[s]' = NewMaster
    BY <1>2, <2>1 DEF Only
  <2>3. /\ ClanOK(NewClan) /\ NewClan.step = 0 /\ NewClan.ver = 0
        /\ PentOK(NewPent) /\ NewPent.step = "CREATE" /\ NewPent.ver = 0 /\ NewPent.record = 0 /\ NewPent.buf = 0
        /\ MasterOK(NewMaster) /\ NewMaster.step = 0
    BY DEF ClanOK, PentOK, PentSteps, MasterOK, NewClan, NewPent, NewMaster
  <2>4. /\ stored["clan"].ver = 0 => stored["clan"].data = {}
        /\ stored["pent"].ver = 0 => stored["pent"].data = 0
    BY DEF StorageSafe, Tables, RowOK, Clients, NoRow, Nothing
  <2>5. Fit(s)'
    <3>1. Sound(s)' /\ Own(s)'
      BY <2>2, <2>3, FreshSlots DEF Sound, Own, Clients
    <3>2. ClanKnows(s)' /\ PentKnows(s)'
      BY <1>1, <2>1, <2>2, <2>3, <2>4, FreshSlots DEF ClanKnows, ClanAt, PentKnows, PentAt, Clients
    <3>3. MasterKnows(s)'
      BY <2>2, <2>3 DEF MasterKnows
    <3> QED
      BY <3>1, <3>2, <3>3 DEF Fit
  <2> QED
    BY <2>1, <2>2, <2>5, ClientStep
<1> QED
  BY <1>3, <1>4, <1>5, <1>6, <1>7

-----------------------------------------------------------------------------
(* The database thread's steps                                                *)

Grown ==
    /\ stored["clan"].data \subseteq stored'["clan"].data
    /\ stored["pent"].data <= stored'["pent"].data

\* Writing a row, by the one client that waits for the slot: what is written holds
\* what was stored, and is of the next version.
Written(s, row, ver) ==
    /\ stored' = [stored EXCEPT ![row] = [ver |-> ver, data |-> Content(s, row)]]
    /\ ver = stored[row].ver + 1

\* A row written from a client that agrees holds no less than before.
LEMMA RowsWritten ==
    ASSUME StorageSafe, NEW s \in Servers, NEW row \in Clients, NEW ver, Written(s, row, ver),
           row = "clan" => stored["clan"].data \subseteq clan[s].data,
           row = "pent" => stored["pent"].data <= pent[s].buf
    PROVE  /\ DOMAIN stored' = Clients /\ \A r \in Clients : RowOK(r)'
           /\ \A r \in Clients \ {row} : stored'[r] = stored[r]
           /\ stored'[row].ver = ver /\ ver \in Nat /\ ver > stored[row].ver /\ stored'[row].data = Content(s, row)
           /\ Grown
<1>1. /\ DOMAIN stored = Clients /\ \A r \in Clients : RowOK(r) /\ PentOK(pent[s])
  BY DEF StorageSafe, Tables, Fit, Sound
<1>2. /\ DOMAIN stored' = Clients /\ \A r \in Clients \ {row} : stored'[r] = stored[r]
      /\ stored'[row] = [ver |-> ver, data |-> Content(s, row)]
      /\ ver \in Nat /\ ver > 0 /\ ver > stored[row].ver
  BY <1>1 DEF Written, RowOK
<1>3. row = "pent" => Content(s, row) \in Nat
  BY <1>1 DEF Content, PentOK
<1>4. \A r \in Clients : RowOK(r)'
  BY <1>1, <1>2, <1>3 DEF RowOK, NoRow
<1>5. Grown
  BY <1>1, <1>2 DEF Grown, Content, Clients, RowOK
<1> QED
  BY <1>2, <1>4, <1>5

\* Rows that are not written hold no less than before.
LEMMA NothingWritten == StorageSafe /\ stored' = stored => Grown
  BY DEF StorageSafe, Tables, RowOK, Clients, Grown

\* Faults are only counted up.
LEMMA Faults ==
    ASSUME StorageSafe, NEW how \in mysql_query_con, Fault(how)
    PROVE  faults' \in Nat /\ faults' >= faults /\ (faults' = 0 => faults = 0 /\ how = "ok")
  BY DEF StorageSafe, Tables, Fault, mysql_query_con

\* The query that creates a row keeps the agreement and loses nothing stored.
LEMMA DbCreate ==
    ASSUME StorageSafe, NEW s \in Servers, db_create_storage(s)
    PROVE  StorageSafe' /\ Grown
<1> DEFINE row == cs[s].row
           fits == stored[row].ver = NoRow
<1>1. PICK how \in mysql_query_con :
        /\ cs[s].state = "CREATE"
        /\ cs' = [cs EXCEPT ![s] = IF fits /\ how = "ok" THEN Done(@) ELSE Failed(@)]
        /\ stored' = IF fits /\ how # "error"
                     THEN [stored EXCEPT ![row] = [ver |-> 1, data |-> Content(s, row)]] ELSE stored
        /\ Fault(how) /\ UNCHANGED <<runs, clan, pent, master, us, rs>>
  BY DEF db_create_storage, Waiting, ClientsUnchanged
<1>2. /\ Sound(s) /\ Own(s) /\ ClanKnows(s) /\ PentKnows(s) /\ MasterKnows(s)
      /\ ClanOK(clan[s]) /\ PentOK(pent[s]) /\ MasterOK(master[s])
      /\ DOMAIN cs = Servers /\ DOMAIN us = Servers /\ DOMAIN rs = Servers
      /\ DOMAIN clan = Servers /\ DOMAIN pent = Servers /\ DOMAIN master = Servers
      /\ DOMAIN stored = Clients /\ \A r \in Clients : RowOK(r)
  BY DEF StorageSafe, Fit, Sound, Tables
<1>3. InUse(cs[s]) /\ SlotOK(cs[s]) /\ ~HasData(cs[s]) /\ row \in Clients /\ Holds(cs[s], row)
  BY <1>1, <1>2, SlotFacts DEF InUse, Sound, Holds
<1> DEFINE new == IF fits /\ how = "ok" THEN Done(cs[s]) ELSE Failed(cs[s])
<1>4. /\ cs'[s] = new /\ SlotOK(new) /\ ~HasData(new) /\ InUse(new) /\ new.row = row /\ new.state \in {"DONE", "FAILED"}
      /\ new.state = "DONE" => fits /\ how = "ok"
  BY <1>1, <1>2, <1>3, SlotFacts DEF HasData, InUse
<1>5. \A r \in Clients : RowOK(r) /\ stored[r].ver \in Nat
  BY <1>2 DEF RowOK
<1>6. CASE fits /\ how # "error"
  <2>1. Written(s, row, 1)
    BY <1>1, <1>6 DEF Written, NoRow
  <2>2. stored[row].data = Nothing(row)
    BY <1>2, <1>3, <1>6 DEF RowOK
  <2>3. /\ DOMAIN stored' = Clients /\ \A r \in Clients : RowOK(r)'
        /\ \A r \in Clients \ {row} : stored'[r] = stored[r]
        /\ stored'[row].ver = 1 /\ 1 > stored[row].ver /\ stored'[row].data = Content(s, row) /\ Grown
    <3>1. row = "pent" => stored["pent"].data <= pent[s].buf
      BY <1>2, <2>2 DEF Nothing, PentOK
    <3>2. row = "clan" => stored["clan"].data \subseteq clan[s].data
      BY <2>2 DEF Nothing
    <3> HIDE DEF row
    <3> QED
      BY <1>3, <2>1, <3>1, <3>2, RowsWritten
  <2>4. stored[row].ver = 0
    BY <1>6 DEF NoRow
  <2> HIDE DEF new, row, fits
  <2>5. Sound(s)' /\ Own(s)'
    BY <1>1, <1>2, <1>3, <1>4 DEF Sound, Own, Holds
  <2>6. ClanKnows(s)'
    <3>1. clan[s].ver \in Nat
      BY <1>2 DEF ClanOK
    <3>2. CASE row = "clan"
      BY <1>1, <1>2, <1>3, <1>4, <2>3, <2>4, <3>1, <3>2 DEF ClanKnows, ClanAt, Own, Holds, Content
    <3>3. CASE row # "clan"
      BY <1>1, <1>2, <1>3, <1>4, <2>3, <3>1, <3>3 DEF ClanKnows, ClanAt, Told, Own, Holds, Clients
    <3> QED
      BY <3>2, <3>3
  <2>7. PentKnows(s)'
    <3>1. pent[s].ver \in Nat /\ pent[s].record \in Nat
      BY <1>2 DEF PentOK
    <3>2. CASE row = "pent"
      BY <1>1, <1>2, <1>3, <1>4, <2>3, <2>4, <3>1, <3>2 DEF PentKnows, PentAt, Own, Holds, Content
    <3>3. CASE row # "pent"
      BY <1>1, <1>2, <1>3, <1>4, <2>3, <3>1, <3>3 DEF PentKnows, PentAt, Told, Own, Holds, Clients
    <3> QED
      BY <3>2, <3>3
  <2>8. MasterKnows(s)'
    <3>1. CASE row = "master"
      <4>1. master[s].step = 1 /\ stored'["master"].ver = 1
        BY <1>2, <1>3, <2>3, <3>1 DEF Own
      <4> QED
        BY <1>1, <1>2, <4>1 DEF MasterKnows, NoRow
    <3>2. CASE row # "master"
      <4>1. stored'["master"] = stored["master"] /\ master[s].step # 1
        BY <1>2, <1>3, <2>3, <3>2 DEF Own, Holds, Clients
      <4> QED
        BY <1>1, <1>2, <4>1, Faults DEF MasterKnows, Sole
    <3> QED
      BY <3>1, <3>2
  <2>9. ASSUME NEW t \in Servers, t # s PROVE Fit(t)'
    <3>1. /\ cs'[t] = cs[t] /\ us'[t] = us[t] /\ rs'[t] = rs[t]
          /\ clan'[t] = clan[t] /\ pent'[t] = pent[t] /\ master'[t] = master[t]
      BY <1>1, <1>2, <2>9
    <3>2. \A r \in {"clan", "pent"} :
            stored'[r] = stored[r] \/ (stored'[r].ver \in Nat /\ stored'[r].ver > stored[r].ver)
      BY <2>3 DEF Clients
    <3>3. stored'["master"] = stored["master"] \/ "master" \in runs[s]
      BY <1>2, <1>3, <2>3 DEF Clients, Own, MasterKnows
    <3>4. faults' \in Nat /\ faults' >= faults /\ runs' = runs
      BY <1>1, Faults
    <3> QED
      BY <2>9, <3>1, <3>2, <3>3, <3>4, OthersFit
  <2>10. Tables'
    BY <1>1, <1>2, <2>3, Faults DEF Tables
  <2> QED
    BY <2>3, <2>5, <2>6, <2>7, <2>8, <2>9, <2>10 DEF StorageSafe, Fit
<1>7. CASE ~(fits /\ how # "error")
  <2>1. stored' = stored
    BY <1>1, <1>7
  <2>2. new.state = "FAILED"
    BY <1>4, <1>7
  <2>3. how = "ok" => stored[row].ver # NoRow
    BY <1>7
  <2> HIDE DEF new, row, fits
  <2>4. Sound(s)' /\ Own(s)'
    BY <1>1, <1>2, <1>3, <1>4 DEF Sound, Own, Holds
  <2>5. ClanKnows(s)' /\ PentKnows(s)'
    BY <1>1, <1>2, <1>4, <2>1, <2>2 DEF ClanKnows, ClanAt, PentKnows, PentAt, Told, Holds
  <2>6. MasterKnows(s)'
    <3>1. faults' = 0 => faults = 0 /\ stored[row].ver # NoRow
      BY <1>1, <2>3, Faults
    <3>2. master[s].step = 1 => row = "master"
      BY <1>2 DEF Own, Holds, row
    <3> QED
      BY <1>1, <1>2, <2>1, <3>1, <3>2 DEF MasterKnows, Sole
  <2>7. ASSUME NEW t \in Servers, t # s PROVE Fit(t)'
    <3>1. /\ cs'[t] = cs[t] /\ us'[t] = us[t] /\ rs'[t] = rs[t]
          /\ clan'[t] = clan[t] /\ pent'[t] = pent[t] /\ master'[t] = master[t]
      BY <1>1, <1>2, <2>7
    <3>2. faults' \in Nat /\ faults' >= faults /\ runs' = runs
      BY <1>1, Faults
    <3> QED
      BY <2>1, <3>1, <3>2, OthersFit
  <2>8. Tables'
    BY <1>1, <1>2, <2>1, Faults DEF Tables, RowOK
  <2> QED
    BY <2>1, <2>4, <2>5, <2>6, <2>7, <2>8, NothingWritten DEF StorageSafe, Fit
<1> QED
  BY <1>6, <1>7

\* The query that updates a row keeps the agreement and loses nothing stored.
LEMMA DbUpdate ==
    ASSUME StorageSafe, NEW s \in Servers, db_update_storage(s)
    PROVE  StorageSafe' /\ Grown
<1> DEFINE row == us[s].row
           fits == stored[row].ver # NoRow /\ stored[row].ver = us[s].ver
<1>1. PICK how \in mysql_query_con :
        /\ us[s].state = "CREATE"
        /\ us' = [us EXCEPT ![s] = IF fits /\ how = "ok" THEN Done(@) ELSE Failed(@)]
        /\ stored' = IF fits /\ how # "error"
                     THEN [stored EXCEPT ![row] = [ver |-> us[s].ver + 1, data |-> Content(s, row)]] ELSE stored
        /\ Fault(how) /\ UNCHANGED <<runs, clan, pent, master, cs, rs>>
  BY DEF db_update_storage, Waiting, ClientsUnchanged
<1>2. /\ Sound(s) /\ Own(s) /\ ClanKnows(s) /\ PentKnows(s) /\ MasterKnows(s)
      /\ ClanOK(clan[s]) /\ PentOK(pent[s]) /\ MasterOK(master[s])
      /\ DOMAIN cs = Servers /\ DOMAIN us = Servers /\ DOMAIN rs = Servers
      /\ DOMAIN clan = Servers /\ DOMAIN pent = Servers /\ DOMAIN master = Servers
      /\ DOMAIN stored = Clients /\ \A r \in Clients : RowOK(r)
  BY DEF StorageSafe, Fit, Sound, Tables
<1>3. InUse(us[s]) /\ SlotOK(us[s]) /\ ~HasData(us[s]) /\ row \in Clients /\ Holds(us[s], row) /\ us[s].ver \in Nat
  BY <1>1, <1>2, SlotFacts DEF InUse, Sound, Holds
<1> DEFINE new == IF fits /\ how = "ok" THEN Done(us[s]) ELSE Failed(us[s])
<1>4. /\ us'[s] = new /\ SlotOK(new) /\ ~HasData(new) /\ InUse(new) /\ new.row = row /\ new.ver = us[s].ver
      /\ new.state \in {"DONE", "FAILED"} /\ (new.state = "DONE" => fits /\ how = "ok")
      /\ fits /\ how = "ok" => new.state = "DONE"
  BY <1>1, <1>2, <1>3, SlotFacts DEF HasData, InUse
<1>5. \A r \in Clients : RowOK(r) /\ stored[r].ver \in Nat
  BY <1>2 DEF RowOK
<1>6. CASE fits /\ how # "error"
  <2>1. Written(s, row, us[s].ver + 1)
    BY <1>1, <1>6 DEF Written
  <2>2. /\ DOMAIN stored' = Clients /\ \A r \in Clients : RowOK(r)'
        /\ \A r \in Clients \ {row} : stored'[r] = stored[r]
        /\ stored'[row].ver = us[s].ver + 1 /\ us[s].ver + 1 > stored[row].ver
        /\ stored'[row].data = Content(s, row) /\ Grown
    <3>1. row = "pent" => stored["pent"].data <= pent[s].buf
      BY <1>2, <1>3, <1>6 DEF PentKnows, PentAt
    <3>2. row = "clan" => stored["clan"].data \subseteq clan[s].data
      BY <1>2, <1>3, <1>6 DEF ClanKnows, ClanAt
    <3> HIDE DEF row
    <3> QED
      BY <1>3, <2>1, <3>1, <3>2, RowsWritten
  <2>3. stored[row].ver = us[s].ver
    BY <1>6
  <2> HIDE DEF new, row, fits
  <2>4. Sound(s)' /\ Own(s)'
    BY <1>1, <1>2, <1>3, <1>4 DEF Sound, Own, Holds
  <2>5. ClanKnows(s)'
    <3>1. clan[s].ver \in Nat
      BY <1>2 DEF ClanOK
    <3>2. CASE row = "clan"
      BY <1>1, <1>2, <1>3, <1>4, <2>2, <2>3, <3>1, <3>2 DEF ClanKnows, ClanAt, Own, Holds, Content
    <3>3. CASE row # "clan"
      BY <1>1, <1>2, <1>3, <1>4, <2>2, <3>1, <3>3 DEF ClanKnows, ClanAt, Told, Own, Holds, Clients
    <3> QED
      BY <3>2, <3>3
  <2>6. PentKnows(s)'
    <3>1. pent[s].ver \in Nat /\ pent[s].record \in Nat /\ pent[s].buf \in Nat
      BY <1>2 DEF PentOK
    <3>2. CASE row = "pent"
      BY <1>1, <1>2, <1>3, <1>4, <2>2, <2>3, <3>1, <3>2 DEF PentKnows, PentAt, Own, Holds, Content
    <3>3. CASE row # "pent"
      BY <1>1, <1>2, <1>3, <1>4, <2>2, <3>1, <3>3 DEF PentKnows, PentAt, Told, Own, Holds, Clients
    <3> QED
      BY <3>2, <3>3
  <2>7. MasterKnows(s)'
    <3>1. CASE row = "master"
      <4>1. master[s].step = 6 /\ stored'["master"].ver = us[s].ver + 1
        BY <1>2, <1>3, <2>2, <3>1 DEF Own
      <4>2. faults' = 0 => faults = 0 /\ new.state = "DONE"
        BY <1>1, <1>4, <1>6, Faults
      <4> QED
        BY <1>1, <1>2, <1>3, <1>4, <4>1, <4>2 DEF MasterKnows, NoRow, Sole
    <3>2. CASE row # "master"
      <4>1. stored'["master"] = stored["master"] /\ master[s].step # 6
        BY <1>2, <1>3, <2>2, <3>2 DEF Own, Holds, Clients
      <4> QED
        BY <1>1, <1>2, <4>1, Faults DEF MasterKnows, Sole
    <3> QED
      BY <3>1, <3>2
  <2>8. ASSUME NEW t \in Servers, t # s PROVE Fit(t)'
    <3>1. /\ cs'[t] = cs[t] /\ us'[t] = us[t] /\ rs'[t] = rs[t]
          /\ clan'[t] = clan[t] /\ pent'[t] = pent[t] /\ master'[t] = master[t]
      BY <1>1, <1>2, <2>8
    <3>2. \A r \in {"clan", "pent"} :
            stored'[r] = stored[r] \/ (stored'[r].ver \in Nat /\ stored'[r].ver > stored[r].ver)
      BY <1>3, <2>2 DEF Clients
    <3>3. stored'["master"] = stored["master"] \/ "master" \in runs[s]
      BY <1>2, <1>3, <2>2 DEF Clients, Own, MasterKnows
    <3>4. faults' \in Nat /\ faults' >= faults /\ runs' = runs
      BY <1>1, Faults
    <3> QED
      BY <2>8, <3>1, <3>2, <3>3, <3>4, OthersFit
  <2>9. Tables'
    BY <1>1, <1>2, <2>2, Faults DEF Tables
  <2> QED
    BY <2>2, <2>4, <2>5, <2>6, <2>7, <2>8, <2>9 DEF StorageSafe, Fit
<1>7. CASE ~(fits /\ how # "error")
  <2>1. stored' = stored
    BY <1>1, <1>7
  <2>2. new.state = "FAILED"
    BY <1>4, <1>7
  <2>3. how = "ok" => ~(stored[row].ver # NoRow /\ stored[row].ver = us[s].ver)
    BY <1>7
  <2> HIDE DEF new, row, fits
  <2>4. Sound(s)' /\ Own(s)'
    BY <1>1, <1>2, <1>3, <1>4 DEF Sound, Own, Holds
  <2>5. ClanKnows(s)' /\ PentKnows(s)'
    <3>1. Holds(us[s]', "clan") => Holds(us[s], "clan") /\ us[s]'.ver = us[s].ver
      BY <1>3, <1>4 DEF Holds, row
    <3>2. Holds(us[s]', "pent") => Holds(us[s], "pent") /\ us[s]'.ver = us[s].ver
      BY <1>3, <1>4 DEF Holds, row
    <3>3. us[s]'.state = "FAILED"
      BY <1>4, <2>2
    <3>4. ClanKnows(s)'
      BY <1>1, <1>2, <2>1, <3>1, <3>3 DEF ClanKnows, ClanAt, Told
    <3> QED
      BY <1>1, <1>2, <2>1, <3>2, <3>3, <3>4 DEF PentKnows, PentAt, Told
  <2>6. MasterKnows(s)'
    <3>1. faults' = 0 => faults = 0 /\ ~(stored[row].ver # NoRow /\ stored[row].ver = us[s].ver)
      BY <1>1, <2>3, Faults
    <3>2. master[s].step = 6 => row = "master"
      BY <1>2 DEF Own, Holds, row
    <3>3. faults = 0 /\ Sole(s) /\ master[s].step = 6 =>
            stored["master"].ver # NoRow /\ stored["master"].ver = us[s].ver
      BY <1>1, <1>2, <1>3, <1>5 DEF MasterKnows, Clients
    <3> QED
      BY <1>1, <1>2, <2>1, <3>1, <3>2, <3>3 DEF MasterKnows, Sole
  <2>7. ASSUME NEW t \in Servers, t # s PROVE Fit(t)'
    <3>1. /\ cs'[t] = cs[t] /\ us'[t] = us[t] /\ rs'[t] = rs[t]
          /\ clan'[t] = clan[t] /\ pent'[t] = pent[t] /\ master'[t] = master[t]
      BY <1>1, <1>2, <2>7
    <3>2. faults' \in Nat /\ faults' >= faults /\ runs' = runs
      BY <1>1, Faults
    <3> QED
      BY <2>1, <3>1, <3>2, OthersFit
  <2>8. Tables'
    BY <1>1, <1>2, <2>1, Faults DEF Tables, RowOK
  <2> QED
    BY <2>1, <2>4, <2>5, <2>6, <2>7, <2>8, NothingWritten DEF StorageSafe, Fit
<1> QED
  BY <1>6, <1>7

\* The query that reads a row keeps the agreement and loses nothing stored.
LEMMA DbRead ==
    ASSUME StorageSafe, NEW s \in Servers, db_read_storage(s)
    PROVE  StorageSafe' /\ Grown
<1> DEFINE row == stored[rs[s].row]
           full == [state |-> "DONE", row |-> rs[s].row, ver |-> row.ver, data |-> row.data]
<1>1. PICK how \in mysql_query_con \ {"again"} :
        /\ rs[s].state = "CREATE"
        /\ rs' = [rs EXCEPT ![s] =
             IF how = "error" \/ row.ver = NoRow THEN Failed(@)
             ELSE IF row.ver = @.ver THEN Done(@)
             ELSE [state |-> "DONE", row |-> @.row, ver |-> row.ver, data |-> row.data]]
        /\ Fault(how) /\ UNCHANGED <<runs, clan, pent, master, stored, cs, us>>
  BY DEF db_read_storage, Waiting, ClientsUnchanged
<1>2. /\ Sound(s) /\ Own(s) /\ ClanKnows(s) /\ PentKnows(s) /\ MasterKnows(s)
      /\ ClanOK(clan[s]) /\ PentOK(pent[s]) /\ MasterOK(master[s])
      /\ DOMAIN cs = Servers /\ DOMAIN us = Servers /\ DOMAIN rs = Servers
      /\ DOMAIN clan = Servers /\ DOMAIN pent = Servers /\ DOMAIN master = Servers
      /\ \A r \in Clients : RowOK(r)
  BY DEF StorageSafe, Fit, Sound, Tables
<1>3. /\ InUse(rs[s]) /\ SlotOK(rs[s]) /\ ~HasData(rs[s])
      /\ rs[s].row \in Clients /\ Holds(rs[s], rs[s].row) /\ rs[s].ver \in Nat
  <2>1. InUse(rs[s]) /\ SlotOK(rs[s])
    BY <1>1, <1>2 DEF InUse, Sound
  <2>2. rs[s].row \in Clients /\ rs[s].ver \in Nat
    BY <2>1, SlotFacts
  <2>3. ~HasData(rs[s])
    BY <1>1, <2>1 DEF SlotOK, InUse, Empty
  <2> QED
    BY <2>1, <2>2, <2>3 DEF Holds
<1>4. row.ver \in Nat /\ (rs[s].row = "pent" => row.data \in Nat)
  BY <1>2, <1>3 DEF RowOK
<1> DEFINE new == IF how = "error" \/ row.ver = NoRow THEN Failed(rs[s])
                  ELSE IF row.ver = rs[s].ver THEN Done(rs[s]) ELSE full
<1>5. rs'[s] = new
  BY <1>1, <1>2
<1>6. /\ SlotOK(full) /\ InUse(full) /\ full.row = rs[s].row /\ HasData(full) /\ full.state = "DONE"
      /\ full.ver = row.ver /\ full.data = row.data
  BY <1>3, <1>4 DEF SlotOK, InUse, HasData, Clients
<1>7. /\ SlotOK(Failed(rs[s])) /\ Failed(rs[s]).row = rs[s].row /\ Failed(rs[s]).ver = rs[s].ver
      /\ Failed(rs[s]).state = "FAILED" /\ ~HasData(Failed(rs[s]))
      /\ SlotOK(Done(rs[s])) /\ Done(rs[s]).row = rs[s].row /\ Done(rs[s]).ver = rs[s].ver
      /\ Done(rs[s]).state = "DONE" /\ ~HasData(Done(rs[s]))
  BY <1>3, SlotFacts DEF HasData
<1>8. /\ SlotOK(new) /\ InUse(new) /\ new.row = rs[s].row
      /\ \/ new.ver = rs[s].ver /\ ~HasData(new)
         \/ new.ver = row.ver /\ HasData(new) /\ new.data = row.data
      /\ how # "error" /\ row.ver # NoRow => new.state = "DONE" /\ new.ver = row.ver
  <2> HIDE DEF full
  <2> QED
    BY <1>6, <1>7 DEF InUse
<1> HIDE DEF new, full
<1>9. Sound(s)' /\ Own(s)'
  BY <1>1, <1>2, <1>3, <1>5, <1>8 DEF Sound, Own, Holds
<1>10. ClanKnows(s)' /\ PentKnows(s)'
  <2>1. \A r \in Clients : \A ver : Holds(rs[s], r) /\ Told(rs[s], ver, r) => Told(new, ver, r)
    BY <1>3, <1>4, <1>8 DEF Told, Holds
  <2>2. \A r \in Clients : Holds(new, r) <=> Holds(rs[s], r)
    BY <1>3, <1>8 DEF Holds
  <2> QED
    BY <1>1, <1>2, <1>5, <2>1, <2>2 DEF ClanKnows, ClanAt, PentKnows, PentAt, Told, Clients
<1>11. MasterKnows(s)'
  BY <1>1, <1>2, <1>5, <1>8, Faults DEF MasterKnows, Sole, Own, Holds
<1>12. ASSUME NEW t \in Servers, t # s PROVE Fit(t)'
  <2>1. /\ cs'[t] = cs[t] /\ us'[t] = us[t] /\ rs'[t] = rs[t]
        /\ clan'[t] = clan[t] /\ pent'[t] = pent[t] /\ master'[t] = master[t]
    BY <1>1, <1>2, <1>12
  <2>2. faults' \in Nat /\ faults' >= faults /\ runs' = runs /\ stored' = stored
    BY <1>1, Faults
  <2> QED
    BY <2>1, <2>2, OthersFit
<1>13. Tables'
  BY <1>1, <1>2, Faults DEF StorageSafe, Tables, RowOK
<1> QED
  BY <1>1, <1>9, <1>10, <1>11, <1>12, <1>13, NothingWritten DEF StorageSafe, Fit

-----------------------------------------------------------------------------
(* The theorems                                                               *)

\* The agreement holds, and nothing stored is lost, across every step.
LEMMA StorageStep == StorageSafe /\ [StorageNext]_storageVars => StorageSafe' /\ Grown
<1> SUFFICES ASSUME StorageSafe, [StorageNext]_storageVars PROVE StorageSafe' /\ Grown
  OBVIOUS
<1>1. CASE UNCHANGED storageVars
  <2>1. UNCHANGED <<runs, stored, cs, us, rs, clan, pent, master, faults>>
    BY <1>1 DEF storageVars, slots
  <2>2. ASSUME NEW s \in Servers PROVE Fit(s)'
    BY <2>1 DEF StorageSafe, Fit, Sound, Own, Holds, ClanKnows, ClanAt, PentKnows, PentAt, Told, MasterKnows, Sole
  <2>3. Tables'
    BY <2>1 DEF StorageSafe, Tables, RowOK
  <2> QED
    BY <2>1, <2>2, <2>3, NothingWritten DEF StorageSafe
<1>2. ASSUME NEW s \in Servers, tick_clan(s) \/ tick_pents(s) \/ MasterDriver(s)
      PROVE  stored' = stored
  BY <1>2 DEF tick_clan, ClanOnly, tick_pents, PentOnly, MasterDriver, MasterOnly
<1>3. ASSUME NEW s \in Servers,
             ChangeClan(s) \/ BeatRecord(s) \/ ChangeMaster(s) \/ MasterTimer(s) \/ StorageRestart(s)
      PROVE  stored' = stored
  BY <1>3 DEF ChangeClan, BeatRecord, PentOnly, ChangeMaster, MasterTimer, MasterOnly, StorageRestart
<1>4. ASSUME NEW s \in Servers, DbStorage(s) PROVE StorageSafe' /\ Grown
  BY <1>4, DbCreate, DbUpdate, DbRead DEF DbStorage
<1>5. ASSUME NEW s \in Servers, tick_clan(s) \/ tick_pents(s) \/ MasterDriver(s)
      PROVE  StorageSafe' /\ Grown
  BY <1>2, <1>5, ClanStep, PentStep, MasterStep, NothingWritten
<1>6. ASSUME NEW s \in Servers,
             ChangeClan(s) \/ BeatRecord(s) \/ ChangeMaster(s) \/ MasterTimer(s) \/ StorageRestart(s)
      PROVE  StorageSafe' /\ Grown
  BY <1>3, <1>6, MemoryStep, NothingWritten
<1> QED
  BY <1>1, <1>4, <1>5, <1>6 DEF StorageNext

\* The agreement holds at the start.
LEMMA StorageBegins == StorageInit => StorageSafe
<1> SUFFICES ASSUME StorageInit PROVE StorageSafe
  OBVIOUS
<1>1. /\ ClanOK(NewClan) /\ NewClan.step = 0 /\ NewClan.ver = 0
      /\ PentOK(NewPent) /\ NewPent.step = "CREATE" /\ NewPent.ver = 0 /\ NewPent.record = 0 /\ NewPent.buf = 0
      /\ MasterOK(NewMaster) /\ NewMaster.step = 0
  BY DEF ClanOK, PentOK, PentSteps, MasterOK, NewClan, NewPent, NewMaster
<1>2. Tables
  BY DEF StorageInit, Tables, RowOK, Nothing, NoRow, Clients
<1>3. stored["clan"].ver = 0 /\ stored["clan"].data = {} /\ stored["pent"].ver = 0 /\ stored["pent"].data = 0
  BY DEF StorageInit, Nothing, NoRow, Clients
<1>4. ASSUME NEW s \in Servers PROVE Fit(s)
  <2>1. /\ cs[s] = Empty /\ us[s] = Empty /\ rs[s] = Empty
        /\ clan[s] = NewClan /\ pent[s] = NewPent /\ master[s] = NewMaster
    BY DEF StorageInit
  <2>2. Sound(s) /\ Own(s)
    BY <1>1, <2>1, FreshSlots DEF Sound, Own, Clients
  <2>3. ClanKnows(s) /\ PentKnows(s)
    BY <1>1, <1>3, <2>1, FreshSlots DEF ClanKnows, ClanAt, PentKnows, PentAt, Clients
  <2>4. MasterKnows(s)
    BY <1>1, <2>1 DEF MasterKnows
  <2> QED
    BY <2>2, <2>3, <2>4 DEF Fit
<1> QED
  BY <1>2, <1>4 DEF StorageSafe

(* Every client collects its own answers, and the only saver of a row counts its  *)
(* version right although it ignores the answers, for any number of servers.     *)
THEOREM ClientsAlwaysAgree == StorageSpec => []ClientsAgree
<1>1. StorageSafe => OwnResult
  <2> SUFFICES ASSUME StorageSafe, NEW s \in Servers, NEW name \in {"cs", "us", "rs"}
               PROVE  LET slot == Slot(s, name)
                          holds(row) == InUse(slot) /\ slot.row = row
                      IN  /\ ClanWaits(s, name) = holds("clan")
                          /\ PentWaits(s, name) = holds("pent")
                          /\ MasterWaits(s, name) = holds("master")
    BY DEF OwnResult
  <2>1. Own(s)
    BY DEF StorageSafe, Fit
  <2>2. CASE name = "cs"
    BY <2>1, <2>2 DEF Own, Holds, Slot, ClanWaits, PentWaits, MasterWaits
  <2>3. CASE name = "us"
    BY <2>1, <2>3 DEF Own, Holds, Slot, ClanWaits, PentWaits, MasterWaits
  <2>4. CASE name = "rs"
    BY <2>1, <2>4 DEF Own, Holds, Slot, ClanWaits, PentWaits, MasterWaits
  <2> QED
    BY <2>2, <2>3, <2>4
<1>2. StorageSafe => SaverInStep
  <2> SUFFICES ASSUME StorageSafe, faults = 0, NEW s \in Servers, master[s].step \in {4, 5},
                      Cardinality({t \in Servers : "master" \in runs[t]}) = 1
               PROVE  master[s].ver = stored["master"].ver
    BY DEF SaverInStep
  <2> DEFINE savers == {t \in Servers : "master" \in runs[t]}
  <2>1. MasterKnows(s) /\ s \in savers
    BY DEF StorageSafe, Fit, MasterKnows
  <2>2. IsFiniteSet(savers)
    BY StorageAssumption, FS_Subset
  <2>3. PICK t : savers = {t}
    BY <2>2, FS_Singleton
  <2>4. Sole(s)
    BY <2>1, <2>3 DEF Sole
  <2> QED
    BY <2>1, <2>4 DEF MasterKnows
<1> QED
  BY <1>1, <1>2, StorageBegins, StorageStep, PTL DEF StorageSpec, ClientsAgree

(* No write to the clan table or to the records loses what an earlier one stored, *)
(* whatever fails, restarts or races.                                            *)
THEOREM StoredNeverShrinks == StorageSpec => StoredGrows
<1>1. Grown => /\ stored["clan"].data \subseteq stored'["clan"].data
               /\ stored["pent"].data <= stored'["pent"].data
  BY DEF Grown
<1> QED
  BY <1>1, StorageBegins, StorageStep, PTL DEF StorageSpec, StoredGrows
==============================================================================
