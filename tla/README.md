# Verification of the Dawnbronia (Astonia 3) server

TLA+ specifications of the server in `src/`, the TLC configurations that check
them on small instances, and theorems about them that TLAPS checks for all
instances. Paths without a directory are relative to `src/`.

## 1. The system

The game world is divided into areas, and an area may run in several mirrors.
Each (area, mirror) is a process of its own, `server -a <area> -m <mirror>`.
Area servers share nothing but a MySQL database. One chat server passes
messages between them. A game client has one TCP connection, to the area server
its character is on, and is told to reconnect elsewhere when the character
moves to another area. `docker-entrypoint.sh` starts the servers and starts
crashed ones again.

Inside an area server there are two threads:

- the **game loop** (`server.c`, `main`), 24 ticks per second: timers,
  characters, effects, clans, clubs, players (`tick_player`), the creation of
  loaded characters (`tick_login`), chat, network. It never waits for the
  database. At longer intervals it queues a backup of one player, the
  server's own sign of life (`area_alive`), and a refresh of the list of areas;
- the **database thread** (`db_thread`), which executes the queries that the
  game loop appended to one FIFO list (`add_query`), one after the other, and
  leaves results in shared variables protected by `data_mutex`.

### Components

| Component | State | Modules | What makes it correct |
|---|---|---|---|
| Character ownership and login (`database.c`, `player.c`, `lostcon.c`, `io.c`), the server's start, loop and end (`server.c`) | row of `chars`, query list, login slot, character slots `ch[]`, connections, area list | `CharacterDB`, `CheckOut` | one copy of a character; only the owner writes; saves in order; nobody locked out; logins answered |
| Storage (`database.c`) and its clients (pents, arena, military, clans) | slots `cs`, `us`, `rs`; rows with a version; the state machine of every client | `Storage` | no lost update; an answer reaches the one who asked |
| Clans (`clan.c`, `clanmaster.c`) | `clan[]`, serials, relations, treasury | `Clans`, `ClanMembers`, `ClanRelations`, `ClanTreasury` | relations mutual; no member of a dead clan; no solvent clan deleted |
| Clubs (`club.c`, `clubmaster.c`) | `club[]`, badges, fees | `Clubs` | paid or dissolved; gold conserved; one founder |
| Account requests (`database.c`) | one account slot `aq`, tables `subscriber`, `chars` | `Accounts` | an answer reaches the one who asked; no character lost or made twice |
| Tasks and punishments (`task.c`, `punish.c`, `database.c`) | rows any server may pick up | `Tasks` | done, and done once |
| Network (`io.c`), chat server (`chatserver.c`, `chat.c`) | ring buffer per connection | `Links` | bytes in order, no overrun |
| Timers (`timer.c`) | sorted list | `Timers` | a timer is called once, when due |
| Items, containers, map (`create.c`, `map.c`, `container.c`, `tool.c`), actions (`do.c`, `act.c`), death, respawn, expiry (`death.c`, `respawn.c`, `expire.c`) | item, container and map links, graves | `Belongings`, `Walking` | links agree in both directions (`consistency.c` looks for the opposite every few seconds); possessions neither lost nor doubled; nobody shut in |
| Gold, merchants, bank, depots, stores, trader | amounts, copies of items | `Shops`, `Trades` | conservation; no profit from selling back; no trade without consent |
| What a client is shown (`player.c`, `light.c`, `los.c`, `sector.c`) | the server's copy of what each client has | `ClientMirror` | after a sending the client shows the world as it is |
| Quests (`questlog.c` and the drivers of the areas) | quest log, a state per giver | `QuestLog`, `QuestNpc`, `Quests…`, `Residents`, `Ruby`, `Missions`, `Trials`, `CityLaw` | log and givers agree; nothing is rewarded twice; every quest can be finished |
| Names (`lookup.c`) | cache | none | an answer may be an hour old by design |
| Fights, spells, labyrinths, other drivers | large arithmetic state, one callback at a time | none | game rules |

Everything but the first row runs in one thread per server or exchanges single
records; what is hard in this system is the first row, the shared slots, and
state that is kept in two places (a member's serial and the clan table, an
item and its carrier, a client's picture and the world, a giver's state and
the quest log).

### What is hard

- A character that changes area is sent to the next server *at once*, while the
  query that saves it and gives its row free is still in the queue of the old
  one. The next server may read the row before or after.
- All logins of a server go through *one* slot that three parties in two
  threads pass along; whoever polls first fills it, and a result may belong to
  a client that has gone.
- A load that was queued while the character was here is executed after it left,
  and the other way round.
- Processes crash, taking their queue with them, and start again while other
  servers, whose area list is up to five minutes old, believe them up or down
  and rescue their characters.
- A slot `ch[n]` is freed by clearing its flags; its ID and its link to a
  player stay until the slot is allocated again.
- A slot or an entry that is used again: clans, clubs, items, effects, client
  slots and connections are known by number, and most have a serial beside it
  that somebody must compare.
- Two records of one fact, changed by different code: relations stored from
  both sides, a client's cache, a quest giver's number and the log.

## 2. Modules, and what is left

Each component has its own module with its variables, initial states, one action per
operation and its properties (for `CharacterDB`, `Storage` and the quests in a
module of their own, `…Properties`). Modules named `MC…` give the constants for TLC,
modules named `…Proofs` hold theorems.

| Module | Models | Composed in |
|---|---|---|
| `CharacterDB` | section 3 | `MCCharacterDB` |
| `CheckOut` | the abstract specification of ownership | `CharacterDBProperties` by refinement |
| `Storage` | the storage table, the three slots, the database thread's three queries, and the clients `tick_clan`, `tick_pents` and the masters of `military.c` and `arena.c` | `MCStorage` |
| `ClanMembers`, `ClanRelations`, `ClanTreasury` | three concerns of `clan.c` that share the slots of the table (`Clans`) and nothing else | `MCClans` |
| `QuestNpc`, `QuestsCameron`, `QuestsAston`, `QuestsFrontier`, `QuestsArkhata`, `Residents` | the tables of the drivers, one per area line; `QuestNpc` says how a driver reads one | `Quests` |
| `QuestLog` | `questlog.c` | `Quests` |
| `Tasks`, `Accounts`, `Links`, `Timers`, `Walking` | what serves the game | `MCServices` |
| `Belongings`, `Trades`, `Shops`, `Ruby`, `Missions`, `Clubs`, `Trials`, `CityLaw`, `ClientMirror` | life in the world | `MCWorld` |

`MCServices`, `MCWorld` and `MCClans` put parts side by side that share no state: a
behaviour chooses one part at the start and the others rest. This keeps one run per
question and costs no interleaving that the code has: within an area server these
parts are called one after the other by one loop.

Left for later: the drivers that only talk, orders between players and their
characters (`cl_*` of `player.c` and `player_driver.c`), and the puzzles and fights of
the areas (section 9).

## 3. CharacterDB: the model

`CharacterDB.tla` has the state, the actions and the specification,
`CharacterDBProperties.tla` the properties, `CheckOut.tla` the abstract
specification, `MCCharacterDB.tla` the constants for TLC, and
`CharacterDBProofs.tla`, `OwnershipProofs.tla` the proofs.

### State

| Variable | Code |
|---|---|
| `row[c]` | `current_area`/`current_mirror` (`cur`, a server or None), `allowed_area` and the saved progress (`data`) of the character's row in `chars` |
| `fresh` | servers whose `alive_time` in table `area` is younger than five minutes |
| `run[s]` | `down`; `up` (game loop runs); `leaving` (after the loop, characters leave one by one); `draining` (`exit_database` waits for the database thread) |
| `isUp[s]` | the `area[][]` array of server `s`: its possibly outdated view of `fresh` |
| `queue[s]` | the list `wquery … equery`; a query that `save_char` formats carries the data of that moment |
| `ch[s][n]` | slot `n`: in use (`flags`), `ID` (None for monsters), progress, `player`, and whether the driver is `CDR_LOSTCON` |
| `login[s]` | the login slot: status, name, where to, slot number, data read, `current`, `didusurp`, and whether the result is more than two ticks old |
| `conn[k]` | connection of client `k`: off, waiting for a login at a server, or in the game with slot `cn` |
| `strayed` | history: characters that a rescue took from a server that was running |
| `crashes` | counter for the bound |

A character's whole record is abstracted to one number, its progress. It tells
old data from new data, which is all the protocol depends on. The failing
statuses of a login are one status `failed`; `LS_EMPTY`, `LS_READ`, `LS_CREATE`,
`LS_OK`, `LS_NEWAREA` keep their meaning. `-1` as area ("it is down, rescue") is
area 0.

### Actions

- *find_login and read_login*, polled every tick by each waiting connection:
  `AskEmpty`, `AskUnclaimed`, `AskUsurped` fill the slot and queue the load
  (clearing a stale result first, each in its own way); `CollectRefusal`,
  `CollectRedirect`, `CollectRescue`, `CollectChar`, `CollectGone` take a result.
- *tick_login*: `Usurp`, `UsurpGone`, `Create`, `CreateNoSlot`,
  `CreateNoItem`, `CreateNoRoom`.
- *database thread*, one action per kind of query, in queue order: `DoBackup`,
  `DoLogout`, `DoRelease`, `DoRescue`, `DoAlive`, `DoArealist`; a load is
  `LoadRefused`, `LoadElsewhere`, `LoadOtherMirror` or `LoadHere`. Each is one
  step: a load and a rescue run under `lock tables`, the others are single
  statements.
- *in the game*: `Play`, `change_area`, `exit_char`, `LostconExit`, `kick_player`,
  `GiveUp`, `IdleExit`, `Backup`, `BareKick`; monsters in the same slots:
  `SpawnNpc`, `NpcDies`.
- *processes*: `Periodic` queries, `AliveLapses`, `Crash`, `Start` (with the sweep
  of `init_database`), `Shutdown`, `LeaveNext`, `AllLeft`, `Drained`.

`exit_char` may happen to any player character at any time: the reasons (karma,
arena, death, commands, quests) are many and none of them matters to the
protocol. `BareKick` stands for the callers of `kick_char` that do not tell the
connection (`lostcon.c:89` for a lagging player who is still connected,
`act.c:1413`, `dungeon.c:1541`); it and a few other behaviours of the environment
can be switched off by the constant `Optional`, so that a property is checked
with exactly the behaviours it tolerates, and so that a run stays small.

What `free_char` leaves in a freed slot is kept where something may still read
it: an in-game connection that points to the slot, or the login slot.

`MAXCHARS` is `NumSlots`; a full server is `CreateNoSlot`. `read_login`'s refusal of
clients on a server that is nearly full is `GiveUp`.

### Left out of this module

The single-threaded build (`multi = 0`), which executes queries inside
`tick_login`; passwords, payment and bans (one nondeterministic refusal,
`LoadRefused`); `save_char_new`, by which an administrator's tool creates a row; the
tables `charinfo` and `iplog`; the random choice of a mirror for a character that has
none; retries of a single SQL statement. `check_lag`, which hands a connected
character to the lost-connection driver and back, appears only through
`BareKick`. A character name is the row's key; renames are left
out.

## 4. The other modules

**Storage.** A slot is `EMPTY`, or holds a request with its row and version, or the
result for the one who asked. A query may fail and be repeated (`mysql_query_con`
tries again after a lost connection, so a statement may have been executed twice);
servers restart with what they had not stored. The content of the record is a set
of changes for the clans, a record for the pents, a counter for the masters. Two
remarks: the savers of `military.c` and `arena.c` count their version up after an
update that failed; and `clan_changed` is cleared by an answer also for a change that
was made while the update was on its way (`clan.c:351`), which is then stored only by
the next change.

**Clans.** `ClanMembers`: who founds, joins, leaves, is promoted, and what the copies
of the other areas make of a membership. `ClanRelations`: a wish and its age for each
side; `update_relations` visits each pair twice. What needs
a day (`clan.h:36`) is a step for a wish that is a day old, so a wish that
old takes an alliance to neutral in two updates, ten seconds apart.
`ClanTreasury`: debt in thousandths of a jewel, raids between two updates; four
raids between two updates can break a clan that was solvent before, three cannot,
which is why `MaxRaids` is 3 and why the hazard at `clan.c:1189` is real. An invitation names a
slot (`clanmaster.c:302`): who accepts it joins the clan that is there by then, which the
model includes and leaves out of `NoFalseMember` (`astray`).

An area's table is `NEW` until storage answers (until then `get_char_clan` takes what the
character carries for granted, `clan.c:199`), then `EMPTY` or `READ`. An update of area 3 that
fails before it was executed costs nothing: the reread finds the same version. One that was
executed and reported as failed is repeated, misses, and is followed by a reread of what
was stored (`clan.c:340`-`357`); this, and a restart, drop the clans founded since. The serial of such a
clan is given again, and its members then count as members of the next clan there: `NoFalseMember`
speaks of clans that were not lost this way.

**Quests.** A driver is a table (see `QuestNpc`): the states in which it waits, what each
state opens, rewards and skips, what it takes. The exceptions that the properties name
are bugs of single quests (`QuestProperties`): James opens quest 0 again, Sanwyn rewards
again, Carlos asks for the wrong state, the guild master starts over, and a later
quest of a series is rewarded when the item is handed over before talking. Not in the
model: Kelly's 13 is opened again without a look at its series; the states hermit 24,
kelly 14 and crypt 18 pass without waiting; the commands of gods.

**Tasks.** Rows of a table that the database threads of all servers look at. Whoever has the
character changes it there; anyone changes the saved one while nobody has it. When a
`select` fails, `check_task` returns without `unlock tables` (`database.c:3249`). A delete that
fails is only logged (`database.c:3263`) and the task is applied again; a connection that is made
anew in mid-task has lost the table lock, and a second server may take the same row.

**Accounts.** Every area server takes account requests (`player.c:2835`), each with one place
for them, polled for every connection, and a timeout; the database is shared. Operations have
several statements, under no table lock, and the database thread reads the place (name, wish)
unlocked each time it needs it. Since the place belongs to a door and not to a client, a
connection that takes over a place gets the answer its predecessor asked for, and a
request dropped as stale while its query is queued or under way makes that query go on with the
name of the next one. So it can come to

- an account with more than `ACC_MAXCHARS` characters, since they are counted
  (`database.c:1892`) before the insert (1933): one more for each *other* server that has counted;
- two accounts under one name, since `email` is no unique key and what `database.c:1773` says of
  races is true of one server only;
- a deletion that can never be finished: once the copy is in the archive and the delete failed, every
  repeat finds the archive's key taken and ends in `SERVERERR` (`database.c:2005`).

`AccountsKept` says how far these go: no character vanishes without a copy, names and IDs are
given once, and the excess stays below the number of servers. A row that is also in the archive
is one under deletion or one for which something went wrong. A deletion may meet a load on
another server (`database.c:1955`); the row's owner is not part of this module.

**Links.** A ring buffer tells full from empty by a free byte; a `csend` is an action, so
that a kick can come in the middle of a message. `chat.c` keeps what it had received
when it connects anew.

**Timers.** The list stays sorted while callbacks set timers. The callback's rule of `timer.c:38`
(set no timer for now or before) is assumed, so `TimersKeep` says nothing of a callback that breaks
it (`timer.c:59`): such a timer is lost.

**Walking.** A row of five tiles with a door that closes by a timer, a gate to elsewhere, two
players who can swap places, a monster that dies and comes back.

**Belongings.** Items and the characters, containers and tiles that have them, all in tables
whose entries are used again; graves and who may open them; giving, taking, theft.
Actions take some ticks and look again when they end; the item's serial is looked at by
no one, and `ItemsKept` holds since each end looks at where the item lies.

**Trades.** The trader keeps goods in his own table. A receiver who is gone or has no room
loses the good; the property is about consent, who gives what to whom.

**Shops.** Prices with a barter skill are clamped between 0.8 and 1.25, in whole units as the
code rounds. `NoProfit` counts what a player has at the best price he could get for it.
What is bought and may not be carried (`store.c:131`) leaves its entry of the item
table behind, which is a leak and no profit.

**Clubs.** Sums are arbitrary. A club that cannot pay its fee is closed with what it has left
(`club.c:92`), and founding another in its place sets the treasury to zero (`club.c:154`), so this gold
is lost; `ClubBooks` bounds it by one coin less than a fee for each club closed.

**Trials.** A challenger whose warped fighter dies stays in the room when another killed it, when he
is gone, or when the teleport fails (`warped.c:843`, result ignored). `TrialsSound` holds all the same:
the next one is let in only when nobody is inside.

**Ruby, Missions, CityLaw.** Each is one driver with its tables. Met
on the way, and without a property: who asks for the special
offer right after another bought it pays and gets nothing; a guard has one clock for all whom he watches; a
weapon that does not fit the inventory is lost, since `sidestory.c:678` goes on to clear the
favours after it said "try again".

**ClientMirror.** The server's copy of what a client shows: tiles in view, effects, his own
character. Each is sent by difference, and what is looked at for differences depends on
marks (sectors that changed), on flags (`CF_UPDATE`, `CF_ITEMS`) and on serials. An effect
that is alive but out of view keeps its client slot (`player.c:2233`). Two limits of the code are in the
model and in `ViewCurrent`: when a door has moved and something asks `los_can_see` before the sending
does (`see.c:96`, `talk.c:35`), that rebuilds the table (`los.c:202`), the sending takes it for unchanged
and does not look at unmarked tiles beyond the door, until they are marked or the viewer moves
(`overlooked`); and a client has `MAXEF` 64 places for the effects of a server with 512 or more, beyond
which they are dropped (`full`). What is shown in a place is always a present effect. Bytes and the
client program are outside.

## 5. Properties and runs

Runs that pass (`T` after a property: also a theorem, section 6):

| Run | Instance | Properties and what they say |
|---|---|---|
| `Handover` | 2 areas, 1 character, 2 clients, 2 slots: area changes, lost connections, repeated and abandoned logins, backups, no room on the map, with queues of any delay | `TypeOK` T; `OwnershipSafe` T: the inductive invariant; `NoLockout` T (where no allocation fails): a row that says "online here", on a running server, is true, about to be true, or about to be freed by a queued query; `LoadFindsRequest` T: a queued load finds the request it was queued for; `ProgressKept` T: a delayed save never puts older data over newer data; `LogoutLands` T: a logout is never dropped by its own guard (`and current_area=…`) |
| `Mirrors` | 2 mirrors, 1 client, 1 crash, refreshed area lists: preferred mirrors, stand-ins, rescues, sweeps, with outdated area lists | `SingleCopy` T: no character exists twice, on two servers or in two slots; `CopyOwnsRow` T: the server that has a character in memory is the one whose saves the database accepts |
| `Trouble` | 2 areas, 2 characters of one account, 1 client, monsters, full tables, derelict connections | `OneCharPerAccount` T: the promise of `load_char_dup`, across servers |
| `Outage` | 2 areas, 1 client, progress, 1 crash, shutdown | `ImplementsCheckOut` T: the protocol does to a character only what `CheckOut` allows |
| `Answer` | 2 areas, 1 client, fairness | `LoginAnswered`, `LostCharacterFreed` |
| `Storage` | 3 servers, 5 loads of clients, 1 database error, 1 restart | `ClientsAgree` T: a slot is in use exactly while the one client whose row it names waits for it; `StoredGrows` T: no statement overwrites what was stored with less; `RecordStored`: a record that was broken is in the table in the end |
| `Clans` | 2 slots, 2 characters, up to 3 foundings; 15 jewels, 3 raids | `NoFalseMember` T: nobody counts as member of a clan he did not found or join, unless his was lost before it was stored; `TreatiesKept` T: relations stay mutual and move only as a wish allows; `RelationsSettle`: what both want comes; `SolventSurvives` T: a clan with jewels enough is not deleted |
| `Quests` | every quest giver, in groups that hand players on | `LogSound` T: when a giver waits, log and states agree; `DoneStays` T: what is done is rewarded and opened no second time but through the log; `AllFinished`: every quest can be finished |
| `Services` | parts of section 2, each in its own behaviours | `OncePerTrouble` T: a task is applied once, and once more at most for each restart, failed delete and lost lock; `TaskDone`: and at some time; `AccountsKept` T: a character ever made is in its table or in the archive, names and IDs are given once, and limits are exceeded by races of servers and by faults only; `AccountAnswered`; `StreamsIntact` T: who is not dropped gets the bytes as they were put in; `TimersKeep` T: timers are called once, not early, in order, given that no callback sets one that is due at once; `RowPassable`: a row of tiles with a door does not stay blocked |
| `World` | parts of section 2, each in its own behaviours | `ItemsKept` T: an item is in one place, linked from both sides; `TradesFair` T: what is handed over both have accepted; `NoProfit` T, `NoMoneyMade` T: no gold from nothing; `RubyFair` T; `JobsKept` T; `FounderOnly` T, `ClubBooks` T: gold of clubs, purses and fees adds up with the less than a fee that each closed club took with it; `TrialsSound` T; `GuestsBehave` T; `ViewCurrent` T: what a client shows is so, but for the two limits of section 4 |

The safety properties of `CharacterDB` except the promise about accounts speak of
characters that are not in `strayed`. A rescue ignores the owner of a row
(`db_rescue_char` has no `current_area` in its `where`), so a rescue from a
running server breaks every promise for that character until its copies are
gone; the exclusion names this condition and nothing else.

`CheckOut` says: a character is checked out by at most one server; only the owner
writes it; a write lies between what was written before and what the owner has made
of it; handing back writes everything; memory may be lost at a crash, and then only
what was not saved. The refinement mapping takes the owner from the row, the saved
data from the row, and the working data from the copy in memory, else from the logout
still in the queue, else from the row.

Runs that find a violation are findings about the code:

- `StaleBackup`: a connection whose character was kicked without telling it stays
  `ST_NORMAL` and points to the freed slot, which keeps its ID and its data.
  `backup_players` goes on saving that slot. When the player logs in again on
  the same server the row names this server again, the guard that
  `database.c:393` relies on holds, and old data overwrites newer data. (The free
  list of `create.c` hands out the slot freed last, and a slot that is handed out
  is cleared, which ends the derelict connection; so this takes another character
  or monster that was freed after the kick, which is what the choice of any free
  slot in `Create` stands for.)
- `MemberKept`: a founder walks to an area whose copy of the clan table is older
  than his clan. The serial there is not his, `get_char_clan` erases the
  membership of the character, and he is no member at home either.

More that the model makes plain, without a run of their own:

- A stale login result is cleared only inside the next `find_login`, so an unclaimed
  character stays in the game, without connection and without driver, until
  somebody else logs in on that server (`database.c:1518` says "if it wasnt
  collected for two ticks"). What is destroyed then is whatever is in the slot
  by then, which may be a monster.
- When `alloc_char` or `alloc_item` fails, `tick_login` reports failure and does
  not release the row that `load_char` has just marked. Every later login finds
  the character "online here" and in no slot, and fails, until the server
  restarts. This is the reason for the assumption `NoAllocFail`.
- Between the decision to rescue and its execution in the queue the server may
  come back and load the character: hence `strayed`.
- A derelict connection can also break `SingleCopy`: its idle exit queues a second
  logout for a character that was loaded again, this frees the row while the new
  copy is in the game, and another server loads it a second time; with two areas,
  two clients, two slots and only `bareKick`, TLC reaches this in 18 steps. It is the
  reason for the assumption `NoBareKick`.
- `read_login` (`player.c:327`) takes a result when its slot is in use, by whomever. A
  character that leaves before it is collected may have its slot taken by a
  monster, and the player then is given the monster; when that dies the connection is
  as derelict as after a bare kick. TLC reaches a breach of `CheckOut` this way
  in 21 steps. Hence the assumption
  `NoTakeover` of two theorems (section 6): no monster is spawned in the slot of a
  character that left before its player came for it. The runs without `"npc"` have only
  such behaviours.

### Bounds

- `MaxData` (0 or 1): two values tell old from new. `MaxCrashes` (0 or 1): the second
  crash finds nothing in the state that the first did not. `MaxQueue` bounds only the
  *periodic* queries (backups, `area_alive`, area list); queries of logins, logouts
  and rescues are never held back, so the queues grow as long as the protocol makes them.
- Two servers are the two ends of every hand-over. The actions touch at most two
  servers at once (the one left, the one entered), and the third server of a
  chain of redirects meets the row in the state a second would. One character
  suffices where no property relates two; two clients are needed for one to usurp or
  take the result of the other; two slots for a character to come back into
  another slot than the one it left. Areas are 1 and 3, because these are the
  areas a rescue goes to.
- `Storage`: three servers, of which two write the clans; one error and one restart,
  each at any statement; `MaxSaves` 3 and two changes reach every step of each
  driver after every other. `Clans`: `MAXCLAN` 3 gives the two slots a relation
  needs, two characters an inviter and a guest, two foundings of a slot a
  predecessor; one fault (a restart or an update that failed) at any place. 15 jewels and 3 raids reach every outcome of `update_treasure`.
- `Quests`: asking a giver again twice and opening twice reaches every state of
  every table from each other; each group of givers who read each other's
  states is an instance of its own, and `EveryGiver` checks that none is missing.
- `Services`: two servers of which one has the character while the other looks at a task, and both
  do after a lost lock; one restart and one failed statement (`MaxDowns`, `MaxTroubles`); two servers with
  a place each for account requests, two connections, two requests, `ACC_MAXCHARS` 1 and one fault, so that
  a request is dropped, a count outdated and a deletion left half-way; buffers of 3 to 5 bytes wrap around
  several times in 12 bytes; three timers can be due in one order and set in
  another; five tiles hold two players, a monster, the door and the gate.
- `World`: two slots for three names, so that slots are reused; two seats for
  three traders; each of Ruby's stories alone, and the two that share a favour
  together; two agents for one den; two fighters, one of whom waits; one citizen between
  two guards; a view of three tiles with one other figure whose slot is
  reused, three effect slots and one client slot, which is soon full; three coins for each member and
  a fee of two, so that a remainder is left.
- Symmetry is used on clients, and in `Trouble` on the two characters, which belong to
  one account and prefer the same mirror; never in the run with liveness.
- The theorems need no bound.

Deadlock is checked in the runs of `CharacterDB`: some client can always connect or a
server start. In the others a bound can stop everything, so there it is not checked.

### Fairness

`FairSpec` (run `Answer`) assumes weak fairness of `tick_login` and of the database
thread of each server: the loop calls one in every tick, and the other loops until its
list is empty. It assumes weak fairness of a waiting client's poll: `tick_player` calls
`read_login` for every connection every tick. And of `LostconExit`: the
lost-connection driver runs every tick and its timeout is finite. Nothing is
assumed of players, crashes, restarts or periodic queries. `LoginAnswered` makes one
exception: a character that is sent away again each time before its client picks it up
(`CollectGone`) can be answered never.

`StorageFair`: every client's tick and every query of the database thread; a slot that
others use is free again and again when a client ticks, since they pause for seconds
between two requests (strong fairness of asking). `RelFair`: `update_relations` every
ten seconds, and time. `TasksFair`: logins, saves and the end of a task that was begun;
strong fairness of `process_task`, which every server asks for every few seconds,
less than a character stays; and of its statements, which wait for the tables and get them
(`LockTables`, `AtRow`). `AccountsFair`: the main loop's poll, and the database
thread of every server. `WalkingFair`: the timer of the door. `Quests`: a player who goes on
(`GoesOn`: he talks, and brings what was asked for), since `AllFinished` is about dead ends.

## 6. Proofs

All theorems hold for any sets of servers, characters, clients and so on, any number of
slots, and no bound on crashes, data or queues, under the named assumptions of
the modules (constants have their types; servers are pairs of positive numbers). TLC
evaluates these assumptions in every run.

**Ownership** (`CharacterDBProofs`, `OwnershipProofs`).

- `TypeCorrect`: `Spec => []TypeOK`. The type of the login slot contains what its
  status implies (a result has a name, `LS_OK` has a slot), likewise for
  connections.
- `LoadsFindRequests`: `LoadFindsRequest` is inductive together with the types and
  with "a server that is down has an empty queue". It rests on lemmas about what
  each action does to queue and slot.
- `AccountsStayApart`: `OneCharPerAccount` is inductive as it stands, since only
  `LoadHere` marks a row and it looks at all rows of the account in the same step.
- `OwnershipKept`: `Spec => []OwnershipSafe`; from it `OneCopyEach` (`SingleCopy`) and
  `CopiesOwnTheirRows` (`CopyOwnsRow`). These assume `NoBareKick` (`"bareKick"` is not in
  `Optional`); section 5 says why it cannot be dropped.
- `NobodyLockedOut`: `NoLockout`, assuming `NoAllocFail` (`"allocFail"` is not in
  `Optional`; section 5 says why). It is inductive with the types alone: no step
  loses sight of a character (`KeepsSight`) that its row still names.
- `LogoutsLand`: `LogoutLands`, assuming `NoBareKick`. Its invariant, `LogoutSafe`: the row of every
  queued logout names the logout's server, and nothing before it in the queue takes the row away.
- `ProgressIsKept` (`ProgressKept`) and `CharactersAreCheckedOut` (`ImplementsCheckOut`: the initial
  states map to `CInit`, each step to a step of `CheckOut` or a stutter), assuming `NoBareKick`,
  `NoAllocFail` (a creation that fails half-way leaves a copy without its progress) and, of the
  behaviour, `NoTakeover`. They hold for any number of servers, characters, clients and slots.

Neither `SingleCopy` nor `CopyOwnsRow` is inductive. `OwnershipSafe` adds what they
rest on:

- `CopySafe`: a copy owns its row, is alone on its server, and *no queued logout or
  release of it is left behind in its own queue*: otherwise the row would be freed
  under the copy and loaded elsewhere.
- `CreationSafe`: the same for a copy that `tick_login` is about to make, of which
  there must be none yet.
- `LoadSafe`: when a logout follows a load in the queue, the copy it belongs to
  owned the row all the while, so the load will find `current` set and create
  nothing. This is why a load that is overtaken by a logout does no harm.
- `ResidueSafe`: an unclaimed result whose slot was freed names a character this
  server does not have; otherwise clearing it would release somebody's row.
- `LinkSafe`, `DownSafe`: a connection's slot that points back to it holds a live
  character; an unclaimed character has no player; a server that is down holds
  nothing.

The step theorem has one lemma per family of actions (client, slot, login tick,
database thread, server), which cite lemmas about the common moves: freeing a
slot with a logout (`KickSafe`), asking for a load (`AskSafe`), a step that leaves
everything the invariant reads alone (`Frame`). `StrayedGrows` shows that the set of
exempted characters never shrinks, so that each step needs the invariant only
for characters that are settled before it.

The last three theorems share another argument. `StepHandles` shows once, action by action, that
every step does to a settled character one of eleven things (`Handled`: it is untouched, gains
something, is kicked, backed up, made, dropped, lost, stored, released, swept or loaded), each with
what it leaves alone. The invariants and the refinement then have one short lemma per kind instead
of one per action. `SavesSafe` says of the saves in a queue that they are the row owner's, in
the order of their data, not behind what is stored nor ahead of the copy; `ProgressSafe` that a copy
is not behind its row; `FreshSafe` that a copy nobody plays yet is what was read; `PlayersSafe` that
who plays has a character that is his. `Working` (what the owner has made of a character: the copy,
else its queued logout, else the row) is computed in each case by `HeldWork`, `LateWork` and `LostWork`.

**Storage** (`StorageProofs`): `ClientsAlwaysAgree` and `StoredNeverShrinks`. The invariant
`StorageSafe` says of each server that a slot in use belongs to the client that waits
for it (`Own`), and of each client what its version tells it (`ClanKnows`, `PentKnows`,
`MasterKnows`): a version that is not ahead of the row's, and with the row's own version
the row's content. An update that finds its version therefore overwrites what its
writer has seen. `Fault` is any error at any statement, also after it was executed.

**Clans** (`ClansProofs`): `MembersTrue` (`MembersSafe`: any table that knows the serial a
member carries shows his clan, for members whose clan was not lost; what was stored or read is the
present clan or of an earlier serial; `Settled`: the next founding takes a higher one; `Ahead`: what
area 3 lost at a restart or a missed update is only what was founded since the last one), `TreatiesTrue` (a visit of a pair from either side keeps what
holds mutual, `RelSafe`, and moves it as `VisitKept` says), `SolventStays` (arithmetic of one
update: what a whole number of jewels pays).

**Services** (`ServicesProofs`): `TasksOncePerTrouble` (`TasksSafe`: only the server that the row
names has copies, and the last save of its queue is the one that leaves; all copies stay within
a `Bound` that counts restarts, troubles and whether the task was applied in good order, less the servers
that have lost the lock and have the task still before them), `CharactersKept` (`AccountsSafe`: rows
and archive, and `WithinLimit`: characters together with the threads that have counted and not
yet inserted stay below the limit; likewise accounts),
`TimersAlwaysKeep` (`TimersSafe`: the list is sorted, and what was fired comes before it),
`StreamsAlwaysIntact` (`RingSafe`, `PeerSafe`: the places ahead of the reader hold the bytes
that come next, and while a message is handed out, who has not had it is `Pending` bytes
behind; `RingPut` and `RingTake` are the arithmetic of the ring, for any size).

**World** (`WorldProofs`): `FoundersAlone` (serials are used once, also those of badges that
count no more), `JobsAlwaysKept`, `TrialsAlwaysSound` (`StepsBehind`: what a fighter has
experience for is behind him on his level), `GuestsAlwaysBehave`, `ItemsAlwaysKept`. The
invariant of the last is `BelongSafe`: in *sound tables* what is carried, lies on the map or is
in a grave says so itself and every item in use is somewhere. Every handler is a
sequence of links and unlinks, so the lemmas are about tables with one item *in transit*
(`GainsSafe`, `LosesSafe`, `LaidDownSafe`, `EntombedSafe`, ...), and each handler's lemma strings
them together. For the quest items a relic's first owner is its bearer, or the dead
in whose grave it lies (`Heir`).

`BooksBalance`, `TradeGainsNothing` and `MoneyOnlyMoves` are about sums over players, clubs,
depots, slots and items, which the model computes with the folds of the community modules.
The sum of *f* over a finite set *S* is the value at *S* of a function of partial sums on the
subsets of *S*. That function exists (`SumsExist`, from the empty set upward), and what holds of
the empty set and passes from a set without the element that is taken to the set, holds of all
(`SubsetInduction`); so sums are typed (`SumTyped`), change as one summand changes (`SumChanges`),
grow as their summands (`SumGrows`) and are *n* times a constant (`SumConstant`). This is
why the slots, names, places and depots are assumed finite, as the tables of the code are. `ClubBooks`
counts the gold that founding overwrites (`ruins`), which is less than a fee for each club that was closed
(`BooksSafe`). `NoProfit` needs, for every price, barter skill and stack, that a merchant
sells for no less and buys for no more than `Resale` counts. `NoMoneyMade` has the invariant
`MoneySafe`: purses and values are natural numbers, money is worth something, and the sum of purses and values of items
(`Coffers`) is looked at together with what is saved of those who are away. Handlers that do
not log anyone in or out are *thrifty* (`Thrift`: `Coffers` does not grow, nobody but a monster
leaves); for login and logout, what one slot gains is what the record of that name loses
(`EnteredWorth`, `QuitWorth`, `OneSaves`).

**Players** (`PlayersProofs`): `ViewAlwaysCurrent`: neither "the picture is true" nor
"the cache is true" is inductive between two sendings; what is, is that *a cell is true
or the coming sending will look at it* or is named as overlooked (`ViewSafe`, `WillLook`), that an entry
with a living effect's serial shows it and no effect in view is without entry unless the slots ran out, for
any number of slots on either side (`EffectSafe`), and that what is not flagged is shown
(`StatsSafe`). `TradesAlwaysFair`: a good is in one place and an acceptance is for what
lies there (`TradeSafe`). `RubyAlwaysFair`: her debts are those of the
stories that thanked, with the lemma that in every story only one line is for the state at
which she gives thanks (`StoriesThank`).

**Quests** (`QuestProofs`): `StoryAlwaysSound` (`LogSound`) and `RewardedOnce` (`DoneStays`), for any
lines of givers and any number of repeats, late visits and reopenings. The tables of the givers are
data, so the proof is split. `QuestProperties` says for *one* quest and *one* giver what a step can
make of them (`Steps`), and which of untouched, open and done a giver's state may show of a
quest (`Told`, from what `questlog_init` asks; `Turn`, whose turn it is in a series; `Held`, not done
where a reward is still to come). That no row of any table leads out of that (`Keeps`), rewards
again (`Firm`), or is undone by the resets of `questlog_reopen` (`Reopens`) are the named assumptions
`GiversTell`, `GiversTakeTurns`, `GiversRewardOnce`, `KnownOnce` and `TalliesMatch`, which TLC evaluates on
all rows in a second or two, without any state. Proved is that this is enough: whatever a player and a
giver do, for each quest one of the `Steps` is what happened (`StepMakes`, over every handler, with
cases that fall through, jumps, turns of other givers and counted parts), so what the states show
of it stays true (`MadeFits`, `ReopenFits`). `StorySafe` needs two more parts: a quest that drivers
ask for with `questlog_count` was rewarded once and is done (`Counted`), since a driver that finds the
count zero says its lines again; and of a done quest in parts no part is missing (`Full`). A line
with givers of a series must contain the one whose state tells whose turn it is; the groups
of `MCQuests` do.

## 7. What is only model-checked

- Liveness, and whatever needs `ENABLED`: `LoginAnswered`, `LostCharacterFreed`, `RecordStored`,
  `RelationsSettle`, `AllFinished`, `TaskDone`, `AccountAnswered`, `RowPassable`.
- What the tables of the quest givers are like (the named assumptions of `QuestProperties`): they
  are data, and TLC evaluates them as they are. The quests that `DoneStays` excepts by name do
  break it: with any one of them taken off the list TLC finds a counterexample.

## 8. Mutants

Every property of a passing run has a mutant of a definition that translates code, the
way the code could plausibly be wrong: a kick that does not destroy the character, a
release that is forgotten, a sweep of all rows instead of the server's own, `=` for `!=`
in the account check, progress that is not copied, a load that ends without
answer, a version that is not compared, a serial that is not compared, a relation stored on
one side, a timer put at the wrong place, an acceptance that is not withdrawn when a
gift is added, a tile that is not marked. Mutants stand in front of the definition they
change, and are marked as such.

## 9. Not modelled

The name cache (`lookup.c`), since its answers decide no state of the server and may be
an hour old by design; path finding and light beyond one lamp; commands, talk and
texts; fights, spells, labyrinths, the strategy game and the drivers of single monsters and
items, which are sequential callbacks over large arithmetic state with rules of a game and
no promise to check them against; gold in the hand and on the ground (`cl_take_gold` and
`cl_drop_gold`, `player.c:888` and 916), so `NoMoneyMade` is about money as items and purses; logging, statistics, memory, dates; the tools and
generators, the deployment scripts (what they do to a server is `Crash`, `Start`, `Shutdown`), the
zone data. `PROJECT.json` lists every part, what is left out of a part that is modelled, and
the hazards with the properties that are about them.
