----------------------- MODULE CharacterDBProperties -----------------------
(* What CharacterDB is checked for. *)
EXTENDS CharacterDB

(* Types. *)
TypeOK ==
    /\ row \in [Chars -> [cur : Servers \cup {None}, allowed : Nat, data : Nat]]
    /\ fresh \subseteq Servers
    /\ run \in [Servers -> {"down", "up", "leaving", "draining"}]
    /\ isUp \in [Servers -> SUBSET Servers]
    /\ queue \in [Servers -> Seq(Query)]
    /\ ch \in [Servers -> [Slots -> SlotType]]
    /\ login \in [Servers -> LoginType]
    /\ conn \in [Clients -> ConnType]
    /\ strayed \subseteq Chars
    /\ crashes \in Nat

-----------------------------------------------------------------------------
\* Query i of server s takes character c's row away from s.
Frees(s, i, c) == queue[s][i].op \in {"logout", "release"} /\ queue[s][i].id = c

Leaving(s, c) == \E i \in DOMAIN queue[s] : Frees(s, i, c)

\* Server s has read character c and is about to create it.
Creating(s, c) == login[s].status = "create" /\ ~login[s].current /\ login[s].name = c

Settled == Chars \ strayed

\* No character exists twice, neither on two servers nor in two slots of one,
\* unless it was rescued away from a server that was running.
SingleCopy ==
    \A c \in Settled, s, t \in Servers, m, n \in Slots :
        Holds(s, m, c) /\ Holds(t, n, c) => s = t /\ m = n

\* The server that has a character in memory is the one that may write its row:
\* no player plays a character whose saves the database drops.
CopyOwnsRow ==
    \A c \in Settled, s \in Servers, n \in Slots : Holds(s, n, c) => row[c].cur = s

\* No lockout: when a row says a character is online on a running server, it is
\* there, is about to be, or a queued query is about to free the row.
NoLockout ==
    \A c \in Settled, s \in Servers :
        row[c].cur = s /\ run[s] = "up" =>
            \/ \E n \in Slots : Holds(s, n, c)
            \/ Creating(s, c)
            \/ Leaving(s, c)

\* load_char_dup: two characters of one account are never online together,
\* whichever servers they log into.
OneCharPerAccount ==
    \A c, d \in Chars :
        c # d /\ Subscriber[c] = Subscriber[d] /\ Subscriber[c] # 1
            => row[c].cur = None \/ row[d].cur = None

\* load_char never finds the login slot without a request: the slot is not
\* reused while the load that serves it is still queued.
LoadFindsRequest ==
    \A s \in Servers : \A i \in DOMAIN queue[s] :
        queue[s][i].op = "load" =>
            /\ login[s].status = "read"
            /\ \A j \in DOMAIN queue[s] : queue[s][j].op = "load" => i = j

\* A delayed save never puts older data over newer data.
ProgressKept ==
    [][\A c \in Settled : c \notin strayed' => row'[c].data >= row[c].data]_vars

\* A logout is never dropped for having come too late: the row still names the
\* server when the query is executed.
LogoutLands ==
    [][\A s \in Servers : DoLogout(s) /\ Head(queue[s]).id \in Settled => Mine(s)]_vars

\* A client that asks to log in is answered: over however many redirects between
\* servers, while the logout it follows is still queued somewhere.  The exception is
\* a character that is sent away again and again before its client picks it up.
LoginAnswered ==
    \A k \in Clients : \/ []<><<CollectGone(k)>>_vars
                       \/ conn[k].state = "login" ~> conn[k].state # "login"

\* A character whose connection is lost leaves its server and its row comes free.
LostCharacterFreed ==
    \A s \in Servers, n \in Slots, c \in Chars :
        Holds(s, n, c) /\ ch[s][n].lost
            ~> row[c].cur # s \/ \E m \in Slots : Holds(s, m, c) /\ ~ch[s][m].lost

-----------------------------------------------------------------------------
(* Why SingleCopy and CopyOwnsRow hold: the conjuncts of an inductive invariant, *)
(* for a character c that is settled.                                            *)

\* A copy owns its row, is the only one of its server, and nothing queued frees the row.
CopySafe(c) ==
    \A s \in Servers, n \in Slots : Holds(s, n, c) =>
        /\ row[c].cur = s /\ ~Leaving(s, c)
        /\ \A m \in Slots : Holds(s, m, c) => m = n

\* So does a copy that is about to be made, and there is none yet.
CreationSafe(c) ==
    \A s \in Servers : Creating(s, c) =>
        /\ row[c].cur = s /\ ~Leaving(s, c)
        /\ \A n \in Slots : ~Holds(s, n, c)

\* When a load is overtaken by a logout, that is the logout of a copy which still
\* owned the row: the load will find the character to be here and create nothing.
LoadSafe(c) ==
    \A s \in Servers : \A i, j \in DOMAIN queue[s] :
        queue[s][i].op = "load" /\ i < j /\ Frees(s, j, c) =>
            /\ row[c].cur = s
            /\ \A k \in DOMAIN queue[s] : k < i => ~Frees(s, k, c)

\* An unclaimed slot that was freed names a character its server does not have.
ResidueSafe(c) ==
    \A s \in Servers :
        LET x == ch[s][login[s].cn]
        IN  login[s].status = "ok" /\ ~x.used /\ x.id = c
                => \A m \in Slots : ~Holds(s, m, c)

\* An unclaimed character has no player; a player whose slot points back to it has
\* a character there; a server that is down has nothing in memory.
LinkSafe ==
    /\ \A s \in Servers : login[s].status = "ok" => ch[s][login[s].cn].player = None
    /\ \A k \in Clients : conn[k].state = "play" =>
          LET x == ch[conn[k].at][conn[k].cn]
          IN  Up(conn[k].at) /\ (x.player = k /\ x.id # None => x.used)
DownSafe ==
    \A s \in Servers : run[s] = "down" =>
        /\ queue[s] = <<>> /\ login[s] = NoLogin
        /\ \A n \in Slots : ~ch[s][n].used

\* The load protocol keeps one copy per character, on the server its row names: the
\* reason why delayed logouts, redirects and repeated logins do not duplicate characters.
OwnershipSafe ==
    /\ LinkSafe /\ DownSafe
    /\ \A c \in Settled :
          CopySafe(c) /\ CreationSafe(c) /\ LoadSafe(c) /\ ResidueSafe(c)

-----------------------------------------------------------------------------
(* The check-out of one character (CheckOut) as this protocol implements it. *)

\* The logout that server s still has to write for character c.
LastSave(s, c) == LET saves == {i \in DOMAIN queue[s] :
                                   queue[s][i].op = "logout" /\ queue[s][i].id = c}
                  IN  {queue[s][i].data : i \in saves}

\* What the owner has made of c: the copy in memory, else the logout on its way, else
\* what is saved.
Working(c) ==
    LET s == row[c].cur
        held == IF s = None THEN {} ELSE {n \in Slots : Holds(s, n, c)}
        late == IF s = None THEN {} ELSE LastSave(s, c)
    IN  CASE held # {}               -> ch[s][CHOOSE n \in held : TRUE].data
          [] held = {} /\ late # {} -> CHOOSE d \in late : TRUE
          [] OTHER                   -> row[c].data

CheckedOut == INSTANCE CheckOut WITH
    owner <- [c \in Chars |-> row[c].cur], saved <- [c \in Chars |-> row[c].data],
    working <- [c \in Chars |-> Working(c)], seized <- strayed

\* The whole protocol, of all servers, queues, redirects, crashes and shutdowns, does to
\* a character only what CheckOut allows.
ImplementsCheckOut == CheckedOut!CSpec

-----------------------------------------------------------------------------
(* What a comment of the code says of it, and it does not do. *)

=============================================================================
