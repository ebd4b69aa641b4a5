------------------------------- MODULE Accounts -------------------------------
(***************************************************************************)
(* Account requests before login (account_op in database.c).  Every area    *)
(* server takes them, and has one place for a request: the main loop polls  *)
(* it for every connection, the database thread does what is in it.  The    *)
(* thread reads the place without its lock, statement by statement, while   *)
(* the main loop may give it to another request.  The servers share the     *)
(* database with each other and with the game.  Passwords are right when    *)
(* they come with the account's name.                                       *)
(***************************************************************************)
EXTENDS Integers, FiniteSets

CONSTANTS LoginServers,
          Doors,            \* places for connections on a server
          Users, Heroes,    \* names of accounts and of characters
          NoName,           \* the empty string
          Admins,           \* the accounts with admin = 'Y'
          ACC_MAXCHARS,
          MaxAsks, MaxFaults    \* bounds: requests, and things that go wrong

ASSUME AccountsAssumption ==
    /\ IsFiniteSet(LoginServers) /\ LoginServers # {}
    /\ NoName \notin Users \cup Heroes /\ NoName \notin LoginServers
    /\ Admins \subseteq Users /\ ACC_MAXCHARS \in Nat \ {0}
    /\ MaxAsks \in Nat /\ MaxFaults \in Nat

VARIABLES client,           \* what the connection there asks for, and on which server
          aq,               \* the place of each server
          queries,          \* DT_ACCOUNT entries in its query queue
          work,             \* what its database thread is at, and has read
          subscriber,       \* rows of accounts under each name: the name is not unique
          chars,            \* rows: ID, name, owner, whether it is in the game or in a clan
          archive,          \* IDs in chars_deleted
          rows, asks, faults
accountVars == <<client, aq, queries, work, subscriber, chars, archive, rows, asks, faults>>

Blank == [op |-> "none", user |-> NoName, name |-> NoName]
Wishes ==
    [op : {"REGISTER", "LIST"}, user : Users, name : {NoName}] \cup
    [op : {"CREATE", "DELETE"}, user : Users, name : Heroes]

NoClient == [at |-> NoName, wish |-> Blank]
AqEmpty == [status |-> "EMPTY", nr |-> 0, wish |-> Blank, fresh |-> TRUE]
NoWork == [op |-> "none", step |-> "idle", user |-> NoName, id |-> 0]

\* Accounts and a character may be there already.
AccountsInit ==
    /\ client = [d \in Doors |-> NoClient]
    /\ aq = [s \in LoginServers |-> AqEmpty]
    /\ queries = [s \in LoginServers |-> 0]
    /\ work = [s \in LoginServers |-> NoWork]
    /\ subscriber \in [Users -> {0, 1}]
    /\ archive = {} /\ asks = 0 /\ faults = 0
    /\ \/ chars = {} /\ rows = 0
       \/ rows = 1 /\ \E u \in Users, n \in Heroes :
             subscriber[u] = 1 /\ chars = {[id |-> 1, name |-> n, owner |-> u, bound |-> FALSE]}

Owned(u) == {c \in chars : c.owner = u}
Named(n) == {c \in chars : c.name = n}

-----------------------------------------------------------------------------
(* The main loop *)

Database == <<subscriber, chars, archive, rows>>

\* The main loop is in the middle of account_op, and holds the lock.
Filling(s) == aq[s].status = "FILLING"

Connect(d, s, w) ==
    /\ client[d] = NoClient /\ asks < MaxAsks
    /\ client' = [client EXCEPT ![d] = [at |-> s, wish |-> w]] /\ asks' = asks + 1
    /\ UNCHANGED <<aq, queries, work, Database, faults>>
Disconnect(d) ==
    /\ client[d] # NoClient /\ ~Filling(client[d].at)
    /\ client' = [client EXCEPT ![d] = NoClient]
    /\ UNCHANGED <<aq, queries, work, Database, asks, faults>>

Polled(d, s) == client[d].at = s /\ ~Filling(s)

\* A request is stale when nobody has polled it for twenty ticks: the place its
\* connection had is empty, or another server's.
Ages(s) ==
    /\ aq[s].status \in {"READ", "DONE"} /\ aq[s].fresh
    /\ \A d \in Doors : client[d].at = s => d # aq[s].nr
    /\ aq' = [aq EXCEPT ![s].fresh = FALSE]
    /\ UNCHANGED <<client, queries, work, Database, asks, faults>>

\* A mutant: a place with an answer nobody comes for stays taken.
FreedOnlyByOwner(s) == aq[s].status = "EMPTY"
Available(s) == aq[s].status = "EMPTY" \/ ~aq[s].fresh

\* account_op, asked by every connection in every tick.  It clears a free place
account_op(d, s) ==
    /\ Polled(d, s)
    /\ \/ /\ Available(s)
          /\ aq' = [aq EXCEPT ![s] = [AqEmpty EXCEPT !.status = "FILLING", !.nr = d]]
          /\ UNCHANGED client
       \/ /\ aq[s].status = "DONE" /\ aq[s].fresh /\ aq[s].nr = d
          /\ aq' = [aq EXCEPT ![s].status = "EMPTY"]
          /\ client' = [client EXCEPT ![d] = NoClient]
    /\ UNCHANGED <<queries, work, Database, asks, faults>>
\* and fills it.
FillIn(d, s) ==
    /\ Filling(s) /\ aq[s].nr = d
    /\ aq' = [aq EXCEPT ![s].status = "READ", ![s].wish = client[d].wish]
    /\ queries' = [queries EXCEPT ![s] = @ + 1]
    /\ UNCHANGED <<client, work, Database, asks, faults>>

-----------------------------------------------------------------------------
(* The database thread *)

\* The result goes to whatever request is in the place by then, under the lock.
Reply(s) ==
    /\ ~Filling(s)
    /\ aq' = [aq EXCEPT ![s].status = "DONE", ![s].fresh = TRUE]
    /\ work' = [work EXCEPT ![s] = NoWork]
GoOn(s, record) == work' = [work EXCEPT ![s] = record] /\ UNCHANGED aq

Others == <<client, queries, asks>>
Doing(s, op, step) == work[s].op = op /\ work[s].step = step
Wish(s) == aq[s].wish
Fault == faults < MaxFaults /\ faults' = faults + 1

\* The operation is what the place asks for when the query is taken from the queue;
\* a query whose request is gone does the next one's, or the last one's again.
db_account_op(s) ==
    /\ work[s] = NoWork /\ queries[s] > 0
    /\ queries' = [queries EXCEPT ![s] = @ - 1]
    /\ IF Wish(s).op = "none" THEN Reply(s)
       ELSE GoOn(s, [NoWork EXCEPT !.op = Wish(s).op, !.step = "start"])
    /\ UNCHANGED <<client, Database, asks, faults>>

\* A statement that fails ends the request.
Failing(s) ==
    /\ work[s] # NoWork /\ Fault
    /\ Reply(s)
    /\ UNCHANGED <<Others, Database>>

\* The name is looked for first, the account is inserted after that.
RegisterLooks(s) ==
    /\ Doing(s, "REGISTER", "start")
    /\ LET u == Wish(s).user
       IN IF u = NoName THEN Reply(s)
          ELSE IF subscriber[u] > 0 THEN Reply(s)
          ELSE GoOn(s, [work[s] EXCEPT !.step = "looked", !.user = u])
    /\ UNCHANGED <<Others, Database, faults>>
\* An insert whose connection is lost after it was made is made again.
db_acc_register(s) ==
    /\ Doing(s, "REGISTER", "looked")
    /\ \E n \in {1, 2} :
          /\ IF n = 1 THEN UNCHANGED faults ELSE Fault
          /\ subscriber' = [subscriber EXCEPT ![work[s].user] = @ + n]
    /\ Reply(s)
    /\ UNCHANGED <<Others, chars, archive, rows>>

\* The account is selected by its name; the password is compared after that.
db_acc_auth(s) ==
    /\ work[s].op # "REGISTER" /\ work[s].step \in {"start", "selected"}
    /\ LET u == Wish(s).user
       IN IF u = NoName \/ subscriber[u] = 0 \/ (work[s].step = "selected" /\ work[s].user # u)
          THEN Reply(s)
          ELSE GoOn(s, [work[s] EXCEPT !.user = u, !.step = IF @ = "start" THEN "selected" ELSE "known"])
    /\ UNCHANGED <<Others, Database, faults>>

db_acc_list(s) ==
    /\ Doing(s, "LIST", "known")
    /\ Reply(s)
    /\ UNCHANGED <<Others, Database, faults>>

MayCreate(n) == n < ACC_MAXCHARS
\* The characters of the account are counted,
CreateCounts(s) ==
    /\ Doing(s, "CREATE", "known")
    /\ IF Wish(s).name = NoName THEN Reply(s)
       ELSE IF ~MayCreate(Cardinality(Owned(work[s].user))) THEN Reply(s)
       ELSE GoOn(s, [work[s] EXCEPT !.step = "counted"])
    /\ UNCHANGED <<Others, Database, faults>>
\* and the new one inserted, under the name that is in the place by then: the name
\* is unique in the table.  The insert that is made again finds its own name.
db_acc_create(s) ==
    /\ Doing(s, "CREATE", "counted")
    /\ LET n == Wish(s).name
       IN IF Named(n) # {} THEN Reply(s) /\ UNCHANGED <<chars, rows, faults>>
          ELSE /\ rows' = rows + 1
               /\ chars' = chars \cup {[id |-> rows + 1, name |-> n, owner |-> work[s].user,
                                         bound |-> FALSE]}
               /\ \/ Reply(s) /\ UNCHANGED faults
                  \/ Reply(s) /\ Fault
    /\ UNCHANGED <<Others, subscriber, archive>>

\* Deleting: look, archive, delete, each a statement of its own.
DeleteLooks(s) ==
    /\ Doing(s, "DELETE", "known")
    /\ LET mine == Named(Wish(s).name) \cap Owned(work[s].user)
           admin == work[s].user \in Admins
       IN \/ (Wish(s).name = NoName \/ mine = {}) /\ Reply(s)
          \/ Wish(s).name # NoName /\ \E c \in mine :
                IF ~admin /\ c.bound THEN Reply(s)
                ELSE GoOn(s, [work[s] EXCEPT !.step = "found", !.id = c.id])
    /\ UNCHANGED <<Others, Database, faults>>

RowOf(s) == {c \in chars : c.id = work[s].id}
\* A mutant: the row is gone before its copy is made.
ArchiveAfterwards(s) ==
    /\ Doing(s, "DELETE", "found")
    /\ chars' = chars \ RowOf(s)
    /\ GoOn(s, [work[s] EXCEPT !.step = "archived"])
    /\ archive' = archive
    /\ UNCHANGED <<Others, subscriber, rows, faults>>
\* The ID is the key of the archive: a row that was archived by a request that came
\* to nothing after that, or by a copy made again, is never copied twice.
DeleteArchives(s) ==
    /\ Doing(s, "DELETE", "found")
    /\ LET copies == {c.id : c \in RowOf(s)}
       IN \/ copies \cap archive # {} /\ Reply(s) /\ UNCHANGED <<archive, faults>>
          \/ /\ copies \cap archive = {} /\ archive' = archive \cup copies
             /\ \/ GoOn(s, [work[s] EXCEPT !.step = "archived"]) /\ UNCHANGED faults
                \/ copies # {} /\ Reply(s) /\ Fault
    /\ UNCHANGED <<Others, subscriber, chars, rows>>
db_acc_delete(s) ==
    /\ Doing(s, "DELETE", "archived")
    /\ chars' = chars \ RowOf(s)
    /\ Reply(s)
    /\ UNCHANGED <<Others, subscriber, archive, rows, faults>>

\* A server goes down with its connections, its place and its queue.
AccountRestart(s) ==
    /\ Fault
    /\ client' = [d \in Doors |-> IF client[d].at = s THEN NoClient ELSE client[d]]
    /\ aq' = [aq EXCEPT ![s] = AqEmpty] /\ work' = [work EXCEPT ![s] = NoWork]
    /\ queries' = [queries EXCEPT ![s] = 0]
    /\ UNCHANGED <<Database, asks>>

-----------------------------------------------------------------------------
\* In the game a character is loaded, joins or leaves a clan, and is saved: an
\* update that finds no row when it was deleted in between.
Plays(c) ==
    /\ \E bound \in BOOLEAN : chars' = (chars \ {c}) \cup {[c EXCEPT !.bound = bound]}
    /\ UNCHANGED <<client, aq, queries, work, subscriber, archive, rows, asks, faults>>

AccountStep(s) ==
    \/ db_account_op(s) \/ db_acc_auth(s) \/ RegisterLooks(s) \/ db_acc_register(s) \/ db_acc_list(s)
    \/ CreateCounts(s) \/ db_acc_create(s) \/ DeleteLooks(s) \/ DeleteArchives(s) \/ db_acc_delete(s)
AccountsNext ==
    \/ \E s \in LoginServers : Ages(s) \/ AccountStep(s) \/ Failing(s) \/ AccountRestart(s)
    \/ \E c \in chars : Plays(c)
    \/ \E d \in Doors :
          \/ Disconnect(d)
          \/ \E s \in LoginServers : account_op(d, s) \/ FillIn(d, s) \/ \E w \in Wishes : Connect(d, s, w)

\* The database thread works, and every connection is polled; a place that is
\* free when it is polled becomes free again and again.
Polling == \E d \in Doors, s \in LoginServers : account_op(d, s)
AccountsWorked ==
    /\ \A s \in LoginServers :
         /\ WF_accountVars(AccountStep(s)) /\ WF_accountVars(Ages(s))
         /\ WF_accountVars(\E d \in Doors : FillIn(d, s))
AccountsFair == AccountsWorked /\ SF_accountVars(Polling)

AccountsSpec == AccountsInit /\ [][AccountsNext]_accountVars /\ AccountsFair

-----------------------------------------------------------------------------
(* Properties *)

\* Whatever is asked twice or at two servers, left behind, or fails half-way: a
\* character that was ever made has its row or is in the archive, and both only when
\* something went wrong or its deletion goes on; names are used once; and an account
\* has one character, a name one account, more than allowed for each other server
\* that checks before it inserts, and no more than that.
AccountsKept ==
    /\ 1 .. rows = {c.id : c \in chars} \cup archive
    /\ \A c1, c2 \in chars : c1.name = c2.name \/ c1.id = c2.id => c1 = c2
    /\ \A c \in chars : c.id \in archive =>
         faults > 0 \/ \E s \in LoginServers : work[s].step = "archived" /\ work[s].id = c.id
    /\ \A u \in Users :
         /\ Cardinality(Owned(u)) < ACC_MAXCHARS + Cardinality(LoginServers)
         /\ subscriber[u] <= Cardinality(LoginServers) + faults

\* Who stays gets an answer, although requests of others that were given up
\* block the place, and their queries are done with what is in it by then.
AccountAnswered == \A d \in Doors : client[d] # NoClient ~> client[d] = NoClient
=============================================================================
