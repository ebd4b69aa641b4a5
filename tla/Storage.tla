------------------------------ MODULE Storage ------------------------------
(***************************************************************************)
(* The storage table (database.c) and its clients.  A row is a blob with   *)
(* a version; an update names the version it replaces and misses when the  *)
(* row has another one.  A server has one slot for each direction, shared  *)
(* by all its clients: a client asks when the slot is EMPTY, the database  *)
(* thread runs the query, the client collects the result and empties it.   *)
(*   clan    the clan table: every server reads it, area 3 writes (clan.c) *)
(*   pent    the pentagram record: every pent area writes it (pents.c)     *)
(*   master  what military and arena masters save (military.c, arena.c)    *)
(***************************************************************************)
EXTENDS Integers, FiniteSets

CONSTANTS Servers, Owners,       \* the area servers, and those of area 3
          Loads,                 \* which clients the servers run, a set of functions
          MaxChanges, MaxRecord, \* bounds: changes to a blob, longest pent run,
          MaxFaults, MaxRestarts, \* database errors, restarts,
          MaxSaves               \* and the version up to which a master saves

Clients == {"clan", "pent", "master"}
NoRow == 0                       \* the version of a row that does not exist

ASSUME StorageAssumption ==
    /\ IsFiniteSet(Servers) /\ Owners \subseteq Servers
    /\ Loads \subseteq [Servers -> SUBSET Clients]
    /\ MaxChanges \in Nat /\ MaxRecord \in Nat
    /\ MaxFaults \in Nat /\ MaxRestarts \in Nat /\ MaxSaves \in Nat

VARIABLES runs,      \* the clients each server runs: chosen once
          stored,    \* the rows: version and content
          cs, us, rs,   \* create, update and read slot of each server
          clan, pent, master,   \* the clients' memory on each server
          changes, faults, restarts  \* how often the bounded things happened

slots == <<cs, us, rs>>
storageVars == <<runs, stored, slots, clan, pent, master, changes, faults, restarts>>

Blobs == SUBSET (1 .. MaxChanges)   \* a clan or master blob: the changes it holds
Records == 0 .. MaxRecord
Nothing(row) == IF row = "pent" THEN 0 ELSE {}

Empty == [state |-> "EMPTY"]
Busy(row, ver) == [state |-> "CREATE", row |-> row, ver |-> ver]
Done(slot) == [slot EXCEPT !.state = "DONE"]
Failed(slot) == [slot EXCEPT !.state = "FAILED"]
InUse(slot) == slot.state # "EMPTY"
Answered(slot) == slot.state \in {"DONE", "FAILED"}

NewClan == [step |-> 0, ver |-> 0, data |-> {}, changed |-> FALSE]
NewPent == [step |-> "CREATE", ver |-> 0, record |-> 0, dirty |-> FALSE, buf |-> 0]
NewMaster == [step |-> 0, ver |-> 0, data |-> {}]

StorageInit ==
    /\ runs \in Loads
    /\ stored = [c \in Clients |-> [ver |-> NoRow, data |-> Nothing(c)]]
    /\ cs = [s \in Servers |-> Empty]
    /\ us = [s \in Servers |-> Empty]
    /\ rs = [s \in Servers |-> Empty]
    /\ clan = [s \in Servers |-> NewClan]
    /\ pent = [s \in Servers |-> NewPent]
    /\ master = [s \in Servers |-> NewMaster]
    /\ changes = 0 /\ faults = 0 /\ restarts = 0

-----------------------------------------------------------------------------
(* The slots *)

create_storage(s, row) ==
    /\ ~InUse(cs[s])
    /\ cs' = [cs EXCEPT ![s] = Busy(row, 0)]
    /\ UNCHANGED <<us, rs>>

update_storage(s, row, ver) ==
    /\ ~InUse(us[s])
    /\ us' = [us EXCEPT ![s] = Busy(row, ver)]
    /\ UNCHANGED <<cs, rs>>

read_storage(s, row, ver) ==
    /\ ~InUse(rs[s])
    /\ rs' = [rs EXCEPT ![s] = Busy(row, ver)]
    /\ UNCHANGED <<cs, us>>

\* A result is collected by whoever calls check_*_storage: nothing in the slot
\* says for whom it is.
check_create_storage(s) ==
    /\ Answered(cs[s]) /\ cs' = [cs EXCEPT ![s] = Empty] /\ UNCHANGED <<us, rs>>

check_update_storage(s) ==
    /\ Answered(us[s]) /\ us' = [us EXCEPT ![s] = Empty] /\ UNCHANGED <<cs, rs>>

check_read_storage(s) ==
    /\ Answered(rs[s]) /\ rs' = [rs EXCEPT ![s] = Empty] /\ UNCHANGED <<cs, us>>

Worked(slot) == slot.state = "DONE"

-----------------------------------------------------------------------------
(* The database thread.  The slot holds a pointer: the content written is  *)
(* the client's memory at the time of the query, except that pents copies  *)
(* its record to a buffer first.                                           *)

Content(s, row) ==
    CASE row = "clan" -> clan[s].data
      [] row = "pent" -> pent[s].buf
      [] row = "master" -> master[s].data

\* How a query ends: "ok"; "error", nothing was done; "again", the connection
\* was lost after the query was executed and mysql_query_con runs it once more.
mysql_query_con ==
    {"ok"} \cup (IF faults < MaxFaults THEN {"error", "again"} ELSE {})

Fault(how) == faults' = faults + (IF how = "ok" THEN 0 ELSE 1)

Waiting(slot) == slot.state = "CREATE"
ClientsUnchanged == UNCHANGED <<runs, clan, pent, master, changes, restarts>>

\* The second run of an insert finds the row, of an update the next version.
db_create_storage(s) == \E how \in mysql_query_con :
    LET row == cs[s].row  fits == stored[row].ver = NoRow IN
    /\ Waiting(cs[s])
    /\ cs' = [cs EXCEPT ![s] = IF fits /\ how = "ok" THEN Done(@) ELSE Failed(@)]
    /\ stored' = IF fits /\ how # "error"
                 THEN [stored EXCEPT ![row] = [ver |-> 1, data |-> Content(s, row)]]
                 ELSE stored
    /\ Fault(how)
    /\ ClientsUnchanged /\ UNCHANGED <<us, rs>>

\* Mutant: an update that does not look at the version it replaces.
UpdateAnyVersion(s) ==
    /\ Waiting(us[s]) /\ stored[us[s].row].ver # NoRow
    /\ us' = [us EXCEPT ![s] = Done(@)]
    /\ stored' = [stored EXCEPT ![us[s].row] =
                     [ver |-> @.ver + 1, data |-> Content(s, us[s].row)]]
    /\ Fault("ok")
    /\ ClientsUnchanged /\ UNCHANGED <<cs, rs>>

db_update_storage(s) == \E how \in mysql_query_con :
    LET row == us[s].row
        fits == stored[row].ver # NoRow /\ stored[row].ver = us[s].ver IN
    /\ Waiting(us[s])
    /\ us' = [us EXCEPT ![s] = IF fits /\ how = "ok" THEN Done(@) ELSE Failed(@)]
    /\ stored' = IF fits /\ how # "error"
                 THEN [stored EXCEPT ![row] = [ver |-> us[s].ver + 1, data |-> Content(s, row)]]
                 ELSE stored
    /\ Fault(how)
    /\ ClientsUnchanged /\ UNCHANGED <<cs, rs>>

\* A read of the version the client has answers without content.
db_read_storage(s) == \E how \in mysql_query_con \ {"again"} :
    LET row == stored[rs[s].row] IN
    /\ Waiting(rs[s])
    /\ rs' = [rs EXCEPT ![s] =
         IF how = "error" \/ row.ver = NoRow THEN Failed(@)
         ELSE IF row.ver = @.ver THEN Done(@)
         ELSE [state |-> "DONE", row |-> @.row, ver |-> row.ver, data |-> row.data]]
    /\ Fault(how)
    /\ ClientsUnchanged /\ UNCHANGED <<stored, cs, us>>

HasData(slot) == "data" \in DOMAIN slot

DbStorage(s) == db_create_storage(s) \/ db_update_storage(s) \/ db_read_storage(s)

-----------------------------------------------------------------------------
(* clan: tick_clan.  The ten second pauses of steps 2, 5 and 10 are left   *)
(* out; the steps 3 to 5 change the table through ChangeClan.              *)

SetClan(s, c) == clan' = [clan EXCEPT ![s] = c]
ClanOnly == UNCHANGED <<runs, stored, pent, master, changes, faults, restarts>>

ClanReads(s) ==
    /\ clan[s].step = 0
    /\ read_storage(s, "clan", clan[s].ver)
    /\ SetClan(s, [clan[s] EXCEPT !.step = 1])

ClanRead(s) ==
    /\ clan[s].step = 1
    /\ check_read_storage(s)
    /\ SetClan(s, IF Worked(rs[s])
                  THEN [clan[s] EXCEPT !.step = 2, !.ver = rs[s].ver,
                                       !.data = IF HasData(rs[s]) THEN rs[s].data ELSE @]
                  ELSE [clan[s] EXCEPT !.step = IF s \in Owners THEN 8 ELSE 2])

ClanUpdated(s) ==                \* update_done: the table may be used
    /\ clan[s].step = 2
    /\ SetClan(s, [clan[s] EXCEPT !.step = IF s \in Owners THEN 6 ELSE 0])
    /\ UNCHANGED slots

ClanSaves(s) ==
    /\ clan[s].step = 6
    /\ clan[s].changed
    /\ update_storage(s, "clan", clan[s].ver)
    /\ SetClan(s, [clan[s] EXCEPT !.step = 7])

\* Mutant: the answer is not collected.
SavedUnseen(s) ==
    /\ clan[s].step = 7
    /\ SetClan(s, [clan[s] EXCEPT !.step = 6, !.ver = @ + 1, !.changed = FALSE])
    /\ UNCHANGED slots
ClanSaved(s) ==
    /\ clan[s].step = 7
    /\ check_update_storage(s)
    /\ SetClan(s, IF Worked(us[s])
                  THEN [clan[s] EXCEPT !.step = 6, !.ver = @ + 1, !.changed = FALSE]
                  ELSE [clan[s] EXCEPT !.step = 0])

ClanCreates(s) ==
    /\ clan[s].step = 8
    /\ create_storage(s, "clan")
    /\ SetClan(s, [clan[s] EXCEPT !.step = 9])

ClanCreated(s) ==
    /\ clan[s].step = 9
    /\ check_create_storage(s)
    /\ SetClan(s, IF Worked(cs[s]) THEN [clan[s] EXCEPT !.step = 2, !.ver = 1]
                  ELSE [clan[s] EXCEPT !.step = 10])

\* Mutant: the step is counted up as after the others.
RetriesNext(s) ==
    /\ clan[s].step = 10
    /\ SetClan(s, [clan[s] EXCEPT !.step = @ + 1])
    /\ UNCHANGED slots

ClanRetries(s) ==
    /\ clan[s].step = 10
    /\ SetClan(s, [clan[s] EXCEPT !.step = 0])
    /\ UNCHANGED slots

tick_clan(s) ==
    /\ "clan" \in runs[s]
    /\ \/ ClanReads(s) \/ ClanRead(s) \/ ClanUpdated(s) \/ ClanSaves(s)
       \/ ClanSaved(s) \/ ClanCreates(s) \/ ClanCreated(s) \/ ClanRetries(s)
    /\ ClanOnly

\* Anything that writes clan[] and sets clan_changed, whatever tick_clan is
\* doing; the game does so on the servers of area 3 only.
ChangeClan(s) ==
    /\ "clan" \in runs[s] /\ s \in Owners
    /\ changes < MaxChanges
    /\ changes' = changes + 1
    /\ SetClan(s, [clan[s] EXCEPT !.data = @ \cup {changes'}, !.changed = TRUE])
    /\ UNCHANGED <<runs, stored, slots, pent, master, faults, restarts>>

-----------------------------------------------------------------------------
(* pent: tick_pents *)

SetPent(s, p) == pent' = [pent EXCEPT ![s] = p]
PentOnly == UNCHANGED <<runs, stored, clan, master, changes, faults, restarts>>

apply_pent_record(p, record) ==
    [p EXCEPT !.record = IF record > @ THEN record ELSE @,
              !.dirty = IF record >= p.record THEN FALSE ELSE @]

PentCreates(s) ==
    /\ pent[s].step = "CREATE"
    /\ create_storage(s, "pent")
    /\ SetPent(s, [pent[s] EXCEPT !.step = "CREATE_WAIT", !.buf = pent[s].record])

PentCreated(s) ==                 \* whatever the answer
    /\ pent[s].step = "CREATE_WAIT"
    /\ check_create_storage(s)
    /\ SetPent(s, [pent[s] EXCEPT !.step = "READ"])

PentReads(s) ==
    /\ \/ pent[s].step = "READ"
       \/ pent[s].step = "IDLE" /\ ~pent[s].dirty     \* every 15 seconds
    /\ read_storage(s, "pent", pent[s].ver)
    /\ SetPent(s, [pent[s] EXCEPT !.step = IF @ = "READ" THEN "READ_WAIT" ELSE "REREAD_WAIT"])

PentRead(s) ==
    /\ pent[s].step \in {"READ_WAIT", "REREAD_WAIT"}
    /\ check_read_storage(s)
    /\ LET p == [pent[s] EXCEPT !.ver = rs[s].ver, !.step = "IDLE"] IN
       SetPent(s, IF ~Worked(rs[s])
                  THEN [pent[s] EXCEPT !.step = IF @ = "READ_WAIT" THEN "CREATE" ELSE "IDLE"]
                  ELSE IF HasData(rs[s]) THEN apply_pent_record(p, rs[s].data) ELSE p)

PentWrites(s) ==
    /\ pent[s].step = "IDLE" /\ pent[s].dirty
    /\ update_storage(s, "pent", pent[s].ver)
    /\ SetPent(s, [pent[s] EXCEPT !.step = "WRITE_WAIT", !.dirty = FALSE, !.buf = pent[s].record])

\* Mutant: the record is not armed again.
WrittenOnce(s) ==
    /\ pent[s].step = "WRITE_WAIT"
    /\ check_update_storage(s)
    /\ SetPent(s, IF Worked(us[s]) THEN [pent[s] EXCEPT !.ver = @ + 1, !.step = "IDLE"]
                  ELSE [pent[s] EXCEPT !.step = "READ"])
PentWritten(s) ==
    /\ pent[s].step = "WRITE_WAIT"
    /\ check_update_storage(s)
    /\ SetPent(s, IF Worked(us[s]) THEN [pent[s] EXCEPT !.ver = @ + 1, !.step = "IDLE"]
                  ELSE [pent[s] EXCEPT !.dirty = TRUE, !.step = "READ"])

tick_pents(s) ==
    /\ "pent" \in runs[s]
    /\ \/ PentCreates(s) \/ PentCreated(s) \/ PentReads(s)
       \/ PentRead(s) \/ PentWrites(s) \/ PentWritten(s)
    /\ PentOnly

\* A player completes a run of n pents: the all-time record here.
BeatRecord(s) == \E n \in Records :
    /\ "pent" \in runs[s]
    /\ n > pent[s].record
    /\ SetPent(s, [pent[s] EXCEPT !.record = n, !.dirty = TRUE])
    /\ PentOnly /\ UNCHANGED slots

-----------------------------------------------------------------------------
(* master: the same eight steps in military.c (master and advisor) and     *)
(* arena.c (master and fighter)                                            *)

SetMaster(s, d) == master' = [master EXCEPT ![s] = d]
MasterOnly == UNCHANGED <<runs, stored, clan, pent, changes, faults, restarts>>

MasterAsks(s) ==
    \/ master[s].step = 0 /\ create_storage(s, "master")
    \/ master[s].step = 2 /\ read_storage(s, "master", master[s].ver)
    \/ master[s].step = 5 /\ update_storage(s, "master", master[s].ver)

MasterCreated(s) ==
    /\ master[s].step = 1
    /\ check_create_storage(s)
    /\ SetMaster(s, [master[s] EXCEPT !.step = 2])

MasterRead(s) ==                  \* a read that failed is passed over
    /\ master[s].step = 3
    /\ check_read_storage(s)
    /\ SetMaster(s, [master[s] EXCEPT !.step = 4,
                       !.ver = IF Worked(rs[s]) THEN rs[s].ver ELSE @,
                       !.data = IF Worked(rs[s]) /\ HasData(rs[s]) THEN rs[s].data ELSE @])

MasterSaved(s) ==                 \* whatever the answer
    /\ master[s].step = 6
    /\ check_update_storage(s)
    /\ SetMaster(s, [master[s] EXCEPT !.step = 4, !.ver = @ + 1])

MasterDriver(s) ==
    /\ "master" \in runs[s]
    /\ \/ MasterAsks(s) /\ SetMaster(s, [master[s] EXCEPT !.step = @ + 1])
       \/ MasterCreated(s) \/ MasterRead(s) \/ MasterSaved(s)
    /\ MasterOnly

\* The master's data changes; some time later (at most five minutes for the
\* military) the save begins.
ChangeMaster(s) ==
    /\ "master" \in runs[s]
    /\ changes < MaxChanges
    /\ changes' = changes + 1
    /\ SetMaster(s, [master[s] EXCEPT !.data = @ \cup {changes'}])
    /\ UNCHANGED <<runs, stored, slots, clan, pent, faults, restarts>>

MasterTimer(s) ==
    /\ "master" \in runs[s]
    /\ master[s].step = 4 /\ master[s].ver <= MaxSaves
    /\ SetMaster(s, [master[s] EXCEPT !.step = 5])
    /\ MasterOnly /\ UNCHANGED slots

-----------------------------------------------------------------------------
(* A server goes down, with what it had not stored, and comes back. *)
StorageRestart(s) ==
    /\ restarts < MaxRestarts
    /\ restarts' = restarts + 1
    /\ cs' = [cs EXCEPT ![s] = Empty]
    /\ us' = [us EXCEPT ![s] = Empty]
    /\ rs' = [rs EXCEPT ![s] = Empty]
    /\ SetClan(s, NewClan) /\ SetPent(s, NewPent) /\ SetMaster(s, NewMaster)
    /\ UNCHANGED <<runs, stored, changes, faults>>

StorageNext == \E s \in Servers :
    \/ DbStorage(s)
    \/ tick_clan(s) \/ ChangeClan(s)
    \/ tick_pents(s) \/ BeatRecord(s)
    \/ MasterDriver(s) \/ ChangeMaster(s) \/ MasterTimer(s)
    \/ StorageRestart(s)
=============================================================================
