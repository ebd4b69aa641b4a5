-------------------------- MODULE StorageProperties --------------------------
(***************************************************************************)
(* What the storage table and its clients promise.                         *)
(***************************************************************************)
EXTENDS Storage

\* The steps in which a client waits for a slot it asked.
ClanWaits(s, slot) ==
    clan[s].step = CASE slot = "cs" -> 9 [] slot = "us" -> 7 [] slot = "rs" -> 1
PentWaits(s, slot) ==
    pent[s].step \in CASE slot = "cs" -> {"CREATE_WAIT"} [] slot = "us" -> {"WRITE_WAIT"}
                       [] slot = "rs" -> {"READ_WAIT", "REREAD_WAIT"}
MasterWaits(s, slot) ==
    master[s].step = CASE slot = "cs" -> 1 [] slot = "us" -> 6 [] slot = "rs" -> 3

Slot(s, name) == CASE name = "cs" -> cs[s] [] name = "us" -> us[s] [] name = "rs" -> rs[s]

\* Nothing in a slot says whose it is, and still every client collects its own
\* result: a slot is in use exactly while the one client whose row it names
\* waits for it (database.c:961 to 1127, the wait steps of the clients).
OwnResult == \A s \in Servers, name \in {"cs", "us", "rs"} :
    LET slot == Slot(s, name)
        holds(row) == InUse(slot) /\ slot.row = row
    IN  /\ ClanWaits(s, name) = holds("clan")
        /\ PentWaits(s, name) = holds("pent")
        /\ MasterWaits(s, name) = holds("master")

\* Nothing that once was stored is overwritten with less, after restarts, errors
\* and lost answers: no change to the clans, whichever mirror of area 3 writes, and
\* no record, although every pent area writes it (pents.c:106).
StoredGrows ==
    [][/\ stored["clan"].data \subseteq stored'["clan"].data
       /\ stored["pent"].data <= stored'["pent"].data]_storageVars

\* With one saver of a row and no database error its version stays in step, so
\* that nothing it saved is overwritten and no later save is refused, although
\* it does not look at the answers (military.c:756, 793).
SaverInStep ==
    (faults = 0 /\ Cardinality({s \in Servers : "master" \in runs[s]}) = 1) =>
        \A s \in Servers : master[s].step \in {4, 5} => master[s].ver = stored["master"].ver

\* What a client relies on without looking: the slot it waits for is its own, and
\* the version it counts is that of the row.
ClientsAgree == OwnResult /\ SaverInStep

\* Every server's record is stored again and again, since the number of records
\* a run sets is bounded: the one that loses the race for a version reads what won
\* and tries again, and no error or busy slot leaves it waiting (pents.c:411, 425).
RecordStored == []<>(\A s \in Servers : pent[s].record <= stored["pent"].data)

-----------------------------------------------------------------------------
(* Fairness: the game loop ticks every client and the database thread takes *)
(* every query.  A slot that others use too is free again and again when a *)
(* client ticks, since they pause for seconds between two requests.        *)
StorageFair == \A s \in Servers :
    /\ WF_storageVars(db_create_storage(s))
    /\ WF_storageVars(db_update_storage(s))
    /\ WF_storageVars(db_read_storage(s))
    /\ WF_storageVars(tick_clan(s)) /\ WF_storageVars(MasterDriver(s))
    /\ SF_storageVars(tick_pents(s))

StorageSpec == StorageInit /\ [][StorageNext]_storageVars /\ StorageFair

StorageTypeOK ==
    /\ runs \in Loads
    /\ \A c \in Clients : stored[c].ver \in Nat
    /\ stored["clan"].data \in Blobs /\ stored["master"].data \in Blobs
    /\ stored["pent"].data \in Records
    /\ \A s \in Servers, name \in {"cs", "us", "rs"} :
           Slot(s, name).state \in {"EMPTY", "CREATE", "DONE", "FAILED"}
    /\ clan \in [Servers -> [step : 0 .. 10, ver : Nat, data : Blobs, changed : BOOLEAN]]
    /\ master \in [Servers -> [step : 0 .. 7, ver : Nat, data : Blobs]]
    /\ \A s \in Servers : pent[s].record \in Records /\ pent[s].buf \in Records
    /\ changes \in 0 .. MaxChanges /\ faults \in 0 .. MaxFaults /\ restarts \in 0 .. MaxRestarts
=============================================================================
