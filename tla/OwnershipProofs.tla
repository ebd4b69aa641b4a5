--------------------------- MODULE OwnershipProofs ---------------------------
(* Why a character exists once, on the server its row names: OwnershipSafe is   *)
(* an inductive invariant of CharacterDB, for any number of servers, slots,     *)
(* clients and characters, as long as no kick leaves its connection behind.     *)
EXTENDS CharacterDBProofs

-----------------------------------------------------------------------------
(* One copy of character c, on the server its row names.                        *)

CharacterSafe(c) == CopySafe(c) /\ CreationSafe(c) /\ LoadSafe(c) /\ ResidueSafe(c)

\* Query i of server s matters to c: it is a load, or it takes the row of c away.
Matters(s, i, c) == queue[s][i].op = "load" \/ Frees(s, i, c)

\* What a step may do to c without looking: free copies, drop queries or add ones that
\* do not matter to c, and leave the login slot if it is about to create c.
CopiesKept(c) == \A s \in Servers, n \in Slots : Holds(s, n, c)' => Holds(s, n, c)

QueueKept(s, c) == \E d \in Nat : \A i \in DOMAIN queue'[s] :
    Matters(s, i, c)' => /\ i + d \in DOMAIN queue[s]
                         /\ queue'[s][i].op = queue[s][i + d].op
                         /\ queue'[s][i].id = queue[s][i + d].id

CreationsKept(c) == \A s \in Servers : Creating(s, c)' => Creating(s, c)

ResiduesKept(c) == \A s \in Servers :
    LET x == ch'[s][login'[s].cn]
    IN  login'[s].status = "ok" /\ ~x.used /\ x.id = c =>
            /\ login[s].status = "ok" /\ login[s].cn = login'[s].cn
            /\ ch[s][login[s].cn].id = c

LEMMA LeavingKept ==
    ASSUME NEW s \in Servers, NEW c, QueueKept(s, c), Leaving(s, c)'
    PROVE  Leaving(s, c)
  BY DEF QueueKept, Leaving, Matters, Frees

LEMMA LoadKept ==
    ASSUME TypeOK, TypeOK', NEW s \in Servers, NEW c, QueueKept(s, c), LoadSafe(c),
           NEW i \in DOMAIN queue'[s], NEW j \in DOMAIN queue'[s],
           queue'[s][i].op = "load", i < j, Frees(s, j, c)'
    PROVE  row[c].cur = s /\ \A k \in DOMAIN queue'[s] : k < i => ~Frees(s, k, c)'
<1>1. PICK d \in Nat : \A m \in DOMAIN queue'[s] :
        Matters(s, m, c)' => /\ m + d \in DOMAIN queue[s]
                             /\ queue'[s][m].op = queue[s][m + d].op
                             /\ queue'[s][m].id = queue[s][m + d].id
  BY DEF QueueKept
<1>2. DOMAIN queue'[s] \subseteq Nat
  BY DEF TypeOK
<1>3. /\ i + d \in DOMAIN queue[s] /\ j + d \in DOMAIN queue[s] /\ i + d < j + d
      /\ queue[s][i + d].op = "load" /\ Frees(s, j + d, c)
  BY <1>1, <1>2 DEF Matters, Frees
<1>4. row[c].cur = s /\ \A m \in DOMAIN queue[s] : m < i + d => ~Frees(s, m, c)
  BY <1>3 DEF LoadSafe
<1>5. ASSUME NEW k \in DOMAIN queue'[s], k < i, Frees(s, k, c)' PROVE FALSE
  <2>1. k + d \in DOMAIN queue[s] /\ Frees(s, k + d, c) /\ k + d < i + d
    BY <1>1, <1>2, <1>5 DEF Matters, Frees
  <2> QED
    BY <1>4, <2>1
<1> QED
  BY <1>4, <1>5

(* Such a step keeps c safe, if the row of c stays, or the server it leaves has *)
(* nothing to do with c any more.                                               *)
LEMMA Frame ==
    ASSUME TypeOK, TypeOK', NEW c \in Chars, CharacterSafe(c),
           CopiesKept(c), CreationsKept(c), ResiduesKept(c), \A s \in Servers : QueueKept(s, c),
           \/ row'[c].cur = row[c].cur
           \/ \A s \in Servers : row[c].cur = s =>
                 /\ \A n \in Slots : ~Holds(s, n, c)'
                 /\ ~Creating(s, c)'
                 /\ \A i, j \in DOMAIN queue'[s] :
                       ~(queue'[s][i].op = "load" /\ i < j /\ Frees(s, j, c)')
    PROVE  CharacterSafe(c)'
<1>1. CopySafe(c)'
  <2> SUFFICES ASSUME NEW s \in Servers, NEW n \in Slots, Holds(s, n, c)'
               PROVE  /\ row'[c].cur = s /\ ~Leaving(s, c)'
                      /\ \A m \in Slots : Holds(s, m, c)' => m = n
    BY DEF CopySafe
  <2>1. /\ row[c].cur = s /\ ~Leaving(s, c)
        /\ \A m \in Slots : Holds(s, m, c) => m = n
    BY DEF CopiesKept, CharacterSafe, CopySafe
  <2> QED
    BY <2>1, LeavingKept DEF CopiesKept
<1>2. CreationSafe(c)'
  <2> SUFFICES ASSUME NEW s \in Servers, Creating(s, c)'
               PROVE  /\ row'[c].cur = s /\ ~Leaving(s, c)'
                      /\ \A n \in Slots : ~Holds(s, n, c)'
    BY DEF CreationSafe
  <2>1. /\ row[c].cur = s /\ ~Leaving(s, c) /\ \A n \in Slots : ~Holds(s, n, c)
    BY DEF CreationsKept, CharacterSafe, CreationSafe
  <2> QED
    BY <2>1, LeavingKept DEF CopiesKept
<1>3. LoadSafe(c)'
  <2> SUFFICES ASSUME NEW s \in Servers, NEW i \in DOMAIN queue'[s], NEW j \in DOMAIN queue'[s],
                      queue'[s][i].op = "load", i < j, Frees(s, j, c)'
               PROVE  row'[c].cur = s /\ \A k \in DOMAIN queue'[s] : k < i => ~Frees(s, k, c)'
    BY DEF LoadSafe
  <2>1. row[c].cur = s /\ \A k \in DOMAIN queue'[s] : k < i => ~Frees(s, k, c)'
    BY LoadKept DEF CharacterSafe
  <2> QED
    BY <2>1
<1>4. ResidueSafe(c)'
  <2> SUFFICES ASSUME NEW s \in Servers, login'[s].status = "ok",
                      ~ch'[s][login'[s].cn].used, ch'[s][login'[s].cn].id = c,
                      NEW m \in Slots, Holds(s, m, c)'
               PROVE  FALSE
    BY DEF ResidueSafe
  <2> DEFINE n == login[s].cn
  <2>1. login[s].status = "ok" /\ n = login'[s].cn /\ ch[s][n].id = c
    BY DEF ResiduesKept
  <2>2. n \in Slots
    BY <2>1 DEF TypeOK, LoginType
  <2>3. Holds(s, m, c)
    BY DEF CopiesKept
  <2>4. ch[s][n].used
    BY <2>1, <2>3 DEF CharacterSafe, ResidueSafe
  <2>5. m = n
    BY <2>1, <2>2, <2>3, <2>4 DEF CharacterSafe, CopySafe, Holds
  <2> QED
    BY <2>1, <2>5 DEF Holds
<1> QED
  BY <1>1, <1>2, <1>3, <1>4 DEF CharacterSafe

LEMMA QueueSame ==
    ASSUME TypeOK, NEW s \in Servers, queue'[s] = queue[s], NEW c
    PROVE  QueueKept(s, c)
<1>1. \A i \in DOMAIN queue'[s] : i + 0 = i
  BY DEF TypeOK
<1> QED
  BY <1>1, 0 \in Nat DEF QueueKept, Matters, Frees

LEMMA EnqueueKeeps ==
    ASSUME TypeOK, NEW s \in Servers, NEW qs \in Seq(Query), Enqueue(s, qs), NEW c,
           \A i \in 1 .. Len(qs) :
              qs[i].op # "load" /\ ~(qs[i].op \in {"logout", "release"} /\ qs[i].id = c)
    PROVE  \A t \in Servers : QueueKept(t, c)
<1>1. ASSUME NEW t \in Servers \ {s} PROVE QueueKept(t, c)
  BY <1>1, EnqueueAppends, QueueSame
<1>2. QueueKept(s, c)
  <2>1. \A i \in DOMAIN queue'[s] : i + 0 = i
    BY EnqueueAppends DEF TypeOK
  <2>2. \A i \in DOMAIN queue'[s] : Matters(s, i, c)' =>
          i \in DOMAIN queue[s] /\ queue'[s][i] = queue[s][i]
    BY EnqueueAppends DEF Matters, Frees
  <2> QED
    BY <2>1, <2>2, 0 \in Nat DEF QueueKept
<1> QED
  BY <1>1, <1>2

LEMMA TakesKeeps ==
    ASSUME TypeOK, NEW s \in Servers, NEW op, Takes(s, op), NEW c
    PROVE  \A t \in Servers : QueueKept(t, c)
<1>1. ASSUME NEW t \in Servers \ {s} PROVE QueueKept(t, c)
  BY <1>1, TakesShifts, QueueSame
<1>2. QueueKept(s, c)
  BY TakesShifts, 1 \in Nat DEF QueueKept
<1> QED
  BY <1>1, <1>2

(* A step that leaves copies, logins and the row of c alone. *)
LEMMA MemoryFrame ==
    ASSUME TypeOK, TypeOK', NEW c \in Chars, CharacterSafe(c), UNCHANGED row,
           \A s \in Servers : QueueKept(s, c),
           \A s \in Servers, n \in Slots :
              ch'[s][n].used = ch[s][n].used /\ ch'[s][n].id = ch[s][n].id,
           \A s \in Servers : login'[s] = login[s] \/ login'[s].status \in {"empty", "read", "failed", "newarea"}
    PROVE  CharacterSafe(c)'
<1>1. CopiesKept(c) /\ CreationsKept(c)
  BY DEF CopiesKept, CreationsKept, Holds, Creating
<1>2. ResiduesKept(c)
  <2> SUFFICES ASSUME NEW s \in Servers, login'[s].status = "ok", ch'[s][login'[s].cn].id = c
               PROVE  /\ login[s].status = "ok" /\ login[s].cn = login'[s].cn
                      /\ ch[s][login[s].cn].id = c
    BY DEF ResiduesKept
  <2>1. login'[s] = login[s]
    OBVIOUS
  <2>2. login[s].cn \in Slots
    BY <2>1 DEF TypeOK, LoginType
  <2> QED
    BY <2>1, <2>2
<1> QED
  BY <1>1, <1>2, Frame

(* A kick frees a copy and queues its logout behind everything else. *)
LEMMA KickSafe ==
    ASSUME TypeOK, TypeOK', NEW c \in Chars, CharacterSafe(c),
           NEW s \in Servers, NEW n \in Slots, NEW a \in Nat, NEW gone,
           kick_char(s, n, a, gone), ch[s][n].used \/ ch[s][n].id = None,
           UNCHANGED <<row, login>>
    PROVE  CharacterSafe(c)'
<1> DEFINE x == ch[s][n]
           qs == save_char(s, n, a)
<1>1. /\ ch'[s][n].used = FALSE /\ ch'[s][n].id \in {x.id, None}
      /\ login[s].status = "ok" /\ login[s].cn = n => ch'[s][n].id = x.id
      /\ \A t \in Servers, m \in Slots : t # s \/ m # n => ch'[t][m] = ch[t][m]
  <2>1. ch'[s][n] = Freed(s, n, gone)
        /\ \A t \in Servers, m \in Slots : t # s \/ m # n => ch'[t][m] = ch[t][m]
    BY KickFrees
  <2>2. /\ Freed(s, n, gone).used = FALSE /\ Freed(s, n, gone).id \in {x.id, None}
        /\ login[s].status = "ok" /\ login[s].cn = n => Freed(s, n, gone).id = x.id
    BY FreedForgets
  <2> QED
    BY <2>1, <2>2
<1>2. qs \in Seq(Query) /\ Enqueue(s, qs)
  BY SavesAreQueries DEF kick_char
<1>3. c # None
  BY NoneAssumption
<1>4. CopiesKept(c) /\ CreationsKept(c)
  BY <1>1 DEF CopiesKept, CreationsKept, Holds, Creating
<1>5. CASE x.id # c
  <2>1. \A i \in 1 .. Len(qs) :
           qs[i].op # "load" /\ ~(qs[i].op \in {"logout", "release"} /\ qs[i].id = c)
    BY <1>5 DEF save_char
  <2>2. \A t \in Servers : QueueKept(t, c)
    <3> HIDE DEF qs
    <3> QED BY <1>2, <2>1, EnqueueKeeps
  <2>3. ResiduesKept(c)
    <3> SUFFICES ASSUME NEW t \in Servers, login'[t].status = "ok", ch'[t][login'[t].cn].id = c
                 PROVE  /\ login[t].status = "ok" /\ login[t].cn = login'[t].cn
                        /\ ch[t][login[t].cn].id = c
      BY DEF ResiduesKept
    <3>1. login[t].cn \in Slots /\ login'[t] = login[t]
      BY DEF TypeOK, LoginType
    <3> QED
      BY <1>1, <1>3, <1>5, <3>1
  <2> QED
    BY <1>4, <2>2, <2>3, Frame
<1>6. CASE x.id = c
  <2>1. Holds(s, n, c)
    BY <1>3, <1>6 DEF Holds
  <2>2. /\ row[c].cur = s /\ ~Leaving(s, c) /\ \A m \in Slots : Holds(s, m, c) => m = n
    BY <2>1 DEF CharacterSafe, CopySafe
  <2>3. \A t \in Servers, m \in Slots : ~Holds(t, m, c)'
    BY <1>1, <1>4, <2>2 DEF CopiesKept, CharacterSafe, CopySafe, Holds
  <2>4. \A t \in Servers : ~Creating(t, c)'
    BY <1>4, <2>1, <2>2 DEF CreationsKept, CharacterSafe, CreationSafe
  <2>5. LoadSafe(c)'
    <3> SUFFICES ASSUME NEW t \in Servers, NEW i \in DOMAIN queue'[t], NEW j \in DOMAIN queue'[t],
                        queue'[t][i].op = "load", i < j, Frees(t, j, c)'
                 PROVE  row'[c].cur = t /\ \A k \in DOMAIN queue'[t] : k < i => ~Frees(t, k, c)'
      BY DEF LoadSafe
    <3>1. CASE t = s
      <4>1. Len(qs) \in {0, 1} /\ \A k \in 1 .. Len(qs) : qs[k].op # "load"
        BY DEF save_char
      <4> HIDE DEF qs, x
      <4>2. /\ DOMAIN queue[s] = 1 .. Len(queue[s]) /\ Len(queue[s]) \in Nat
            /\ DOMAIN queue'[s] = 1 .. Len(queue[s]) + Len(qs)
            /\ \A k \in DOMAIN queue[s] : queue'[s][k] = queue[s][k]
        BY <1>2, EnqueueAppends
      <4>3. j \notin DOMAIN queue[s]
        BY <2>2, <3>1, <4>2 DEF Leaving, Frees
      <4>4. \A k \in DOMAIN queue'[s] : k < j => k \in DOMAIN queue[s]
        BY <3>1, <4>1, <4>2, <4>3, SMTT(30)
      <4>5. \A k \in DOMAIN queue'[s] : k < i => k < j
        BY <3>1, <4>1, <4>2
      <4> QED
        BY <2>2, <3>1, <4>2, <4>4, <4>5 DEF Leaving, Frees
    <3>2. CASE t # s
      <4>1. queue'[t] = queue[t]
        BY <3>2, KickFrees
      <4>2. row[c].cur = t
        BY <4>1 DEF CharacterSafe, LoadSafe, Frees
      <4> QED
        BY <2>2, <3>2, <4>2
    <3> QED
      BY <3>1, <3>2
  <2> QED
    BY <2>3, <2>4, <2>5 DEF CharacterSafe, CopySafe, CreationSafe, ResidueSafe
<1> QED
  BY <1>5, <1>6

(* A request puts the release of an unclaimed copy before its load.             *)
LEMMA AskSafe ==
    ASSUME TypeOK, TypeOK', LoadFindsRequest, NEW c \in Chars, CharacterSafe(c),
           NEW s \in Servers, login[s].status # "read",
           NEW cleared \in Seq(Query), \A i \in 1 .. Len(cleared) : cleared[i].op = "release",
           Enqueue(s, Append(cleared, Plain("load"))), login'[s].status = "read",
           \A t \in Servers \ {s} : login'[t] = login[t] /\ ch'[t] = ch[t],
           UNCHANGED row, CopiesKept(c),
           (\E i \in 1 .. Len(cleared) : cleared[i].id = c) => \A m \in Slots : ~Holds(s, m, c)'
    PROVE  CharacterSafe(c)'
<1> DEFINE qs == Append(cleared, Plain("load"))
<1>1. /\ qs \in Seq(Query) /\ Len(qs) = Len(cleared) + 1 /\ Len(cleared) \in Nat
      /\ \A i \in 1 .. Len(cleared) : qs[i] = cleared[i]
      /\ qs[Len(cleared) + 1] = Plain("load") /\ Plain("load").op = "load"
  BY PlainIsQuery DEF Plain
<1>2. Enqueue(s, qs)
  OBVIOUS
<1> HIDE DEF qs
<1>3. \A i \in DOMAIN queue[s] : queue[s][i].op # "load"
  BY DEF LoadFindsRequest
<1>4. /\ DOMAIN queue[s] = 1 .. Len(queue[s]) /\ Len(queue[s]) \in Nat
      /\ DOMAIN queue'[s] = 1 .. Len(queue[s]) + Len(qs)
      /\ \A i \in DOMAIN queue[s] : queue'[s][i] = queue[s][i]
      /\ \A i \in DOMAIN queue'[s] : i \notin DOMAIN queue[s] =>
             /\ i - Len(queue[s]) \in 1 .. Len(qs)
             /\ queue'[s][i] = qs[i - Len(queue[s])]
      /\ \A t \in Servers \ {s} : queue'[t] = queue[t]
  BY <1>1, <1>2, EnqueueAppends
\* The only load of s is its last query, so nothing overtakes it.
<1>5. \A i \in DOMAIN queue'[s] : queue'[s][i].op = "load" => i = Len(queue[s]) + Len(qs)
  <2> SUFFICES ASSUME NEW i \in DOMAIN queue'[s], queue'[s][i].op = "load"
               PROVE  i = Len(queue[s]) + Len(qs)
    OBVIOUS
  <2>1. i - Len(queue[s]) \in 1 .. Len(qs) /\ queue'[s][i] = qs[i - Len(queue[s])]
    BY <1>3, <1>4
  <2>2. i - Len(queue[s]) \notin 1 .. Len(cleared)
    BY <1>1, <2>1
  <2>3. i \in Nat
    BY <1>4
  <2>4. Len(qs) = Len(cleared) + 1 /\ Len(cleared) \in Nat /\ Len(queue[s]) \in Nat
    BY <1>1, <1>4
  <2>5. ASSUME NEW N \in Nat, NEW M \in Nat, i - N \in 1 .. M + 1, i - N \notin 1 .. M
        PROVE  i = N + (M + 1)
    BY <2>3, <2>5
  <2> QED
    BY <2>1, <2>2, <2>4, <2>5
<1>6. ASSUME Leaving(s, c)' PROVE Leaving(s, c) \/ \A m \in Slots : ~Holds(s, m, c)'
  <2>1. PICK i \in DOMAIN queue'[s] : Frees(s, i, c)'
    BY <1>6 DEF Leaving
  <2>2. CASE i \in DOMAIN queue[s]
    BY <1>4, <2>1, <2>2 DEF Leaving, Frees
  <2>3. CASE i \notin DOMAIN queue[s]
    <3> DEFINE p == i - Len(queue[s])
    <3>1. p \in 1 .. Len(qs) /\ queue'[s][i] = qs[p]
      BY <1>4, <2>3
    <3> HIDE DEF p
    <3>2. p # Len(cleared) + 1
      BY <1>1, <2>1, <3>1 DEF Frees
    <3>3. p \in 1 .. Len(cleared)
      BY <1>1, <3>1, <3>2
    <3>4. cleared[p].id = c
      BY <1>1, <2>1, <3>1, <3>3 DEF Frees
    <3> QED
      BY <3>3, <3>4
  <2> QED
    BY <2>2, <2>3
<1>7. ASSUME NEW t \in Servers \ {s}, Leaving(t, c)' PROVE Leaving(t, c)
  BY <1>4, <1>7 DEF Leaving, Frees
<1>8. CopySafe(c)'
  <2> SUFFICES ASSUME NEW t \in Servers, NEW n \in Slots, Holds(t, n, c)'
               PROVE  /\ row'[c].cur = t /\ ~Leaving(t, c)'
                      /\ \A m \in Slots : Holds(t, m, c)' => m = n
    BY DEF CopySafe
  <2>1. /\ row[c].cur = t /\ ~Leaving(t, c)
        /\ \A m \in Slots : Holds(t, m, c) => m = n
    BY DEF CopiesKept, CharacterSafe, CopySafe
  <2>2. ~Leaving(t, c)'
    BY <1>6, <1>7, <2>1
  <2> QED
    BY <2>1, <2>2 DEF CopiesKept
<1>9. CreationSafe(c)'
  <2> SUFFICES ASSUME NEW t \in Servers, Creating(t, c)'
               PROVE  /\ row'[c].cur = t /\ ~Leaving(t, c)'
                      /\ \A n \in Slots : ~Holds(t, n, c)'
    BY DEF CreationSafe
  <2>1. t # s /\ login'[t] = login[t]
    BY DEF Creating
  <2>2. row[c].cur = t /\ ~Leaving(t, c) /\ \A n \in Slots : ~Holds(t, n, c)
    BY <2>1 DEF CharacterSafe, CreationSafe, Creating
  <2> QED
    BY <1>7, <2>1, <2>2 DEF CopiesKept
<1>10. LoadSafe(c)'
  <2> SUFFICES ASSUME NEW t \in Servers, NEW i \in DOMAIN queue'[t], NEW j \in DOMAIN queue'[t],
                      queue'[t][i].op = "load", i < j, Frees(t, j, c)'
               PROVE  row'[c].cur = t /\ \A m \in DOMAIN queue'[t] : m < i => ~Frees(t, m, c)'
    BY DEF LoadSafe
  <2>1. CASE t = s
    <3>1. i = Len(queue[s]) + Len(qs) /\ j \in 1 .. Len(queue[s]) + Len(qs)
      BY <1>4, <1>5, <2>1
    <3>2. Len(queue[s]) \in Nat /\ Len(qs) \in Nat
      BY <1>1, <1>4
    <3> QED
      BY <3>1, <3>2
  <2>2. CASE t # s
    <3>1. queue'[t] = queue[t]
      BY <1>4, <2>2
    <3> QED
      BY <3>1 DEF CharacterSafe, LoadSafe, Frees
  <2> QED
    BY <2>1, <2>2
<1>11. ResidueSafe(c)'
  <2> SUFFICES ASSUME NEW t \in Servers, login'[t].status = "ok",
                      ~ch'[t][login'[t].cn].used, ch'[t][login'[t].cn].id = c
               PROVE  \A m \in Slots : ~Holds(t, m, c)'
    BY DEF ResidueSafe
  <2>1. t # s /\ login'[t] = login[t] /\ ch'[t] = ch[t]
    OBVIOUS
  <2> QED
    BY <2>1 DEF CharacterSafe, ResidueSafe, Holds
<1> QED
  BY <1>8, <1>9, <1>10, <1>11 DEF CharacterSafe

LEMMA ClientOwnership ==
    ASSUME TypeOK, TypeOK', LoadFindsRequest, LinkSafe, NEW c \in Chars, CharacterSafe(c),
           NEW k \in Clients, Client(k)
    PROVE  CharacterSafe(c)'
<1>1. ASSUME Waits(k)
      PROVE  conn[k].at \in Servers /\ login[conn[k].at] \in LoginType /\ conn[k].name \in Chars
  BY <1>1 DEF TypeOK, ConnType, Waits
<1>2. ASSUME Plays(k) PROVE conn[k].at \in Servers /\ conn[k].cn \in Slots
  BY <1>2 DEF TypeOK, ConnType, Plays
<1>3. ASSUME UNCHANGED row, \A s \in Servers : QueueKept(s, c),
             \A s \in Servers, n \in Slots :
                ch'[s][n].used = ch[s][n].used /\ ch'[s][n].id = ch[s][n].id,
             UNCHANGED login \/ \E s \in Servers : login' = [login EXCEPT ![s] = NoLogin]
      PROVE  CharacterSafe(c)'
  <2>1. \A s \in Servers : login'[s] = login[s] \/ login'[s].status \in {"empty", "read", "failed", "newarea"}
    BY <1>3 DEF TypeOK, NoLogin
  <2> QED
    BY <1>3, <2>1, MemoryFrame
<1>4. ASSUME UNCHANGED queue PROVE \A s \in Servers : QueueKept(s, c)
  BY <1>4, QueueSame
<1>5. ASSUME NEW s \in Servers, NEW n \in Slots, NEW x, ch' = [ch EXCEPT ![s][n] = x],
             x.used = ch[s][n].used, x.id = ch[s][n].id
      PROVE  \A t \in Servers, m \in Slots :
                ch'[t][m].used = ch[t][m].used /\ ch'[t][m].id = ch[t][m].id
  BY <1>5 DEF TypeOK
<1>6. \A s \in Servers, n \in Slots : ch[s][n] \in SlotType
  BY DEF TypeOK
<1>7. ASSUME Waits(k), NEW cleared \in Seq(Query), Ask(k, cleared)
      PROVE  LET s == conn[k].at
             IN  /\ Enqueue(s, Append(cleared, Plain("load"))) /\ UNCHANGED row
                 /\ login'[s].status = "read" /\ \A t \in Servers \ {s} : login'[t] = login[t]
  BY <1>1, <1>7 DEF Ask, TypeOK, NoLogin
<1>8. <<>> \in Seq(Query) /\ \A i \in 1 .. Len(<<>>) : FALSE
  OBVIOUS
<1>9. CASE AskEmpty(k)
  <2>1. Waits(k) /\ Ask(k, <<>>) /\ UNCHANGED ch /\ login[conn[k].at].status # "read"
    BY <1>9 DEF AskEmpty, Stale, Results
  <2>2. CopiesKept(c)
    BY <2>1 DEF CopiesKept, Holds
  <2> QED
    BY <1>1, <1>7, <1>8, <2>1, <2>2, AskSafe
<1>10. CASE AskUnclaimed(k)
  <2> DEFINE s0 == conn[k].at
             n0 == login[s0].cn
             q0 == release_char(s0, n0)
  <2>1. /\ Waits(k) /\ Ask(k, q0) /\ login[s0].status = "ok"
        /\ ch' = [ch EXCEPT ![s0][n0] = Freed(s0, n0, None)]
    BY <1>10 DEF AskUnclaimed
  <2>2. s0 \in Servers /\ n0 \in Slots
    BY <1>1, <2>1 DEF LoginType
  <2>3. q0 \in Seq(Query) /\ \A i \in 1 .. Len(q0) : q0[i].op = "release"
    BY <2>2, SavesAreQueries, SavesAreNoLoads, 0 \in Nat
  <2>4. \A i \in 1 .. Len(q0) : q0[i].id = ch[s0][n0].id
    <3>1. CASE ch[s0][n0].id = None
      <4>1. q0 = <<>>
        BY <3>1 DEF release_char
      <4> HIDE DEF q0
      <4> QED
        BY <4>1
    <3>2. CASE ch[s0][n0].id # None
      <4> DEFINE e == [op |-> "release", id |-> ch[s0][n0].id, data |-> 0, area |-> 0]
      <4>1. q0 = <<e>> /\ e.id = ch[s0][n0].id
        BY <3>2 DEF release_char
      <4> HIDE DEF q0, e
      <4> QED
        BY <4>1
    <3> QED
      BY <3>1, <3>2
  <2>5. PICK s \in Servers, n \in Slots, cleared \in Seq(Query) :
           s = s0 /\ n = n0 /\ cleared = q0
    BY <2>2, <2>3
  <2>6. /\ Waits(k) /\ Ask(k, cleared) /\ login[s].status = "ok" /\ login[s].cn = n
        /\ ch' = [ch EXCEPT ![s][n] = Freed(s, n, None)] /\ s = conn[k].at
        /\ \A i \in 1 .. Len(cleared) : cleared[i].op = "release" /\ cleared[i].id = ch[s][n].id
    BY <2>1, <2>3, <2>4, <2>5
  <2> HIDE DEF s0, n0, q0
  <2>7. /\ \A t \in Servers \ {s} : ch'[t] = ch[t]
        /\ \A t \in Servers, m \in Slots : t # s \/ m # n => ch'[t][m] = ch[t][m]
        /\ ch'[s][n].used = FALSE
    <3>1. Freed(s, n, None).used = FALSE
      BY FreedForgets
    <3> QED
      BY <2>6, <3>1 DEF TypeOK
  <2>8. CopiesKept(c)
    BY <2>7 DEF CopiesKept, Holds
  <2>9. ASSUME ch[s][n].id = c PROVE \A m \in Slots : ~Holds(s, m, c)'
    <3>1. CASE ch[s][n].used
      <4>1. \A m \in Slots : Holds(s, m, c) => m = n
        BY <2>9, <3>1 DEF CharacterSafe, CopySafe, Holds
      <4> QED
        BY <2>7, <4>1 DEF Holds
    <3>2. CASE ~ch[s][n].used
      <4>1. \A m \in Slots : ~Holds(s, m, c)
        BY <2>6, <2>9, <3>2 DEF CharacterSafe, ResidueSafe
      <4> QED
        BY <2>8, <4>1 DEF CopiesKept
    <3> QED
      BY <3>1, <3>2
  <2>10. /\ Enqueue(s, Append(cleared, Plain("load"))) /\ UNCHANGED row
         /\ login'[s].status = "read" /\ \A t \in Servers \ {s} : login'[t] = login[t]
    BY <1>7, <2>6
  <2> QED
    BY <2>6, <2>7, <2>8, <2>9, <2>10, AskSafe, SMTT(30)
<1>11. CASE AskUsurped(k)
  <2>1. /\ Waits(k) /\ Ask(k, <<>>) /\ login[conn[k].at].status # "read"
        /\ ch' = [ch EXCEPT ![conn[k].at][login[conn[k].at].cn].lost = TRUE]
    BY <1>11 DEF AskUsurped
  <2> DEFINE s == conn[k].at
             n == login[s].cn
             x == [ch[s][n] EXCEPT !.lost = TRUE]
  <2>2. /\ \A t \in Servers \ {s} : ch'[t] = ch[t]
        /\ \A t \in Servers, m \in Slots :
              ch'[t][m].used = ch[t][m].used /\ ch'[t][m].id = ch[t][m].id
    <3>1. s \in Servers /\ n \in Slots /\ ch' = [ch EXCEPT ![s][n] = x]
      BY <1>1, <1>11, <2>1 DEF AskUsurped, LoginType
    <3>2. x.used = ch[s][n].used /\ x.id = ch[s][n].id
      BY <1>6, <3>1 DEF SlotType
    <3> HIDE DEF x, s, n
    <3>3. ch \in [Servers -> [Slots -> SlotType]]
      BY <1>5 DEF TypeOK
    <3>4. \A t \in Servers, m \in Slots :
             ch'[t][m] = IF t = s /\ m = n THEN x ELSE ch[t][m]
      BY <3>1, <3>3
    <3> QED
      BY <3>1, <3>2, <3>3, <3>4
  <2>3. CopiesKept(c)
    BY <2>2 DEF CopiesKept, Holds
  <2> QED
    BY <1>1, <1>7, <1>8, <2>1, <2>2, <2>3, AskSafe
<1>12. CASE CollectRefusal(k) \/ CollectRedirect(k) \/ CollectGone(k)
  BY <1>1, <1>3, <1>4, <1>12 DEF CollectRefusal, CollectRedirect, CollectGone, Collects
<1>13. CASE CollectRescue(k)
  <2> DEFINE qs == <<[Plain("rescue") EXCEPT !.id = conn[k].name]>>
  <2>1. Waits(k) /\ Enqueue(conn[k].at, qs) /\ Collects(k, "newarea") /\ UNCHANGED ch
    BY <1>13 DEF CollectRescue, Collects
  <2>2. /\ qs \in Seq(Query)
        /\ \A i \in 1 .. Len(qs) :
              qs[i].op # "load" /\ ~(qs[i].op \in {"logout", "release"} /\ qs[i].id = c)
    BY <1>1, <2>1 DEF Plain, Query, About
  <2>3. \A t \in Servers : QueueKept(t, c)
    BY <1>1, <2>1, <2>2, EnqueueKeeps
  <2> QED
    BY <1>1, <1>3, <2>1, <2>3 DEF Collects
<1>14. CASE CollectChar(k)
  <2> DEFINE s0 == conn[k].at
             n0 == login[s0].cn
             x == [ch[s0][n0] EXCEPT !.player = k, !.lost = FALSE]
  <2>1. /\ Waits(k) /\ login[s0].status = "ok" /\ ch' = [ch EXCEPT ![s0][n0] = x]
        /\ UNCHANGED <<queue, row>> /\ login' = [login EXCEPT ![s0] = NoLogin]
    BY <1>14 DEF CollectChar, Collects
  <2>2. s0 \in Servers /\ n0 \in Slots
    BY <1>1, <2>1 DEF LoginType
  <2>3. x.used = ch[s0][n0].used /\ x.id = ch[s0][n0].id
    BY <1>6, <2>2 DEF SlotType
  <2> HIDE DEF x, s0, n0
  <2>4. \A t \in Servers, m \in Slots :
            ch'[t][m].used = ch[t][m].used /\ ch'[t][m].id = ch[t][m].id
    BY <1>5, <2>1, <2>2, <2>3
  <2> QED
    BY <1>3, <1>4, <2>1, <2>2, <2>4
<1>15. CASE Play(k) \/ kick_player(k)
  <2> DEFINE s == conn[k].at
             n == conn[k].cn
             x == [ch[s][n] EXCEPT !.data = @ + 1]
             y == [ch[s][n] EXCEPT !.player = None, !.lost = TRUE]
  <2>1. /\ s \in Servers /\ n \in Slots /\ UNCHANGED <<row, queue, login>>
        /\ ch' = [ch EXCEPT ![s][n] = x] \/ ch' = [ch EXCEPT ![s][n] = y]
    BY <1>2, <1>15 DEF Play, kick_player
  <2>2. /\ x.used = ch[s][n].used /\ x.id = ch[s][n].id
        /\ y.used = ch[s][n].used /\ y.id = ch[s][n].id
    BY <1>6, <2>1 DEF SlotType
  <2> HIDE DEF x, y, s, n
  <2>3. \A t \in Servers, m \in Slots :
            ch'[t][m].used = ch[t][m].used /\ ch'[t][m].id = ch[t][m].id
    BY <1>5, <2>1, <2>2
  <2> QED
    BY <1>3, <1>4, <2>1, <2>3
<1>16. CASE GiveUp(k)
  BY <1>3, <1>4, <1>16 DEF GiveUp
<1>17. CASE Backup(k)
  <2> DEFINE qs == save_char(conn[k].at, conn[k].cn, 0)
  <2>1. Plays(k) /\ Enqueue(conn[k].at, qs) /\ UNCHANGED <<row, ch, login>>
    BY <1>17 DEF Backup
  <2>2. /\ qs \in Seq(Query)
        /\ \A i \in 1 .. Len(qs) :
              qs[i].op # "load" /\ ~(qs[i].op \in {"logout", "release"} /\ qs[i].id = c)
    <3>1. qs \in Seq(Query)
      BY <1>2, <2>1, SavesAreQueries, 0 \in Nat
    <3>2. \A i \in 1 .. Len(qs) : qs[i].op = "backup"
      BY DEF save_char
    <3> QED
      BY <3>1, <3>2
  <2> HIDE DEF qs
  <2>3. \A t \in Servers : QueueKept(t, c)
    BY <1>2, <2>1, <2>2, EnqueueKeeps
  <2> QED
    BY <1>3, <2>1, <2>3
<1>18. ASSUME NEW a \in Areas, IdleExit(k, a) PROVE CharacterSafe(c)'
  <2>1. /\ Plays(k) /\ UNCHANGED <<row, login>> /\ conn[k].state = "play"
    BY <1>18 DEF IdleExit, Plays
  <2>2. CASE ch[conn[k].at][conn[k].cn].player = k
    <3>1. ch[conn[k].at][conn[k].cn].used \/ ch[conn[k].at][conn[k].cn].id = None
      BY <2>1, <2>2 DEF LinkSafe
    <3>2. kick_char(conn[k].at, conn[k].cn, a, k)
      BY <1>18, <2>2 DEF IdleExit
    <3> QED
      BY <1>2, <2>1, <3>1, <3>2, KickSafe, AreasAreNumbers
  <2>3. CASE ch[conn[k].at][conn[k].cn].player # k
    BY <1>3, <1>4, <1>18, <2>1, <2>3 DEF IdleExit
  <2> QED
    BY <2>2, <2>3
<1>19. ASSUME NEW t \in Servers, NEW d \in Chars, Connect(k, t, d) PROVE CharacterSafe(c)'
  BY <1>3, <1>4, <1>19 DEF Connect
<1> QED
  BY <1>9, <1>10, <1>11, <1>12, <1>13, <1>14, <1>15, <1>16, <1>17, <1>18, <1>19
     DEF Client, Poll

LEMMA SlotOwnership ==
    ASSUME TypeOK, TypeOK', NEW c \in Chars, CharacterSafe(c),
           NEW s \in Servers, NEW n \in Slots, Slot(s, n)
    PROVE  CharacterSafe(c)'
<1>1. UNCHANGED <<row, login>> /\ c # None
  BY NoneAssumption
     DEF Slot, SpawnNpc, NpcDies, change_area, exit_char, LostconExit, BareKick
<1>2. ASSUME NEW x, ch' = [ch EXCEPT ![s][n] = x], x.id = None, UNCHANGED queue
      PROVE  CharacterSafe(c)'
  <2>1. \A t \in Servers, m \in Slots : ch'[t][m] = IF t = s /\ m = n THEN x ELSE ch[t][m]
    BY <1>2 DEF TypeOK
  <2>2. CopiesKept(c) /\ CreationsKept(c)
    BY <1>1, <1>2, <2>1 DEF CopiesKept, CreationsKept, Holds, Creating
  <2>3. ResiduesKept(c)
    <3> SUFFICES ASSUME NEW t \in Servers, login'[t].status = "ok", ch'[t][login'[t].cn].id = c
                 PROVE  /\ login[t].status = "ok" /\ login[t].cn = login'[t].cn
                        /\ ch[t][login[t].cn].id = c
      BY DEF ResiduesKept
    <3>1. login[t].cn \in Slots /\ login'[t] = login[t]
      BY <1>1 DEF TypeOK, LoginType
    <3> QED
      BY <1>1, <1>2, <2>1, <3>1
  <2>4. \A t \in Servers : QueueKept(t, c)
    BY <1>2, QueueSame
  <2> QED
    BY <1>1, <2>2, <2>3, <2>4, Frame
<1>3. CASE SpawnNpc(s, n)
  <2> DEFINE x == [FreeSlot EXCEPT !.used = TRUE]
  <2>1. ch' = [ch EXCEPT ![s][n] = x] /\ UNCHANGED queue
    BY <1>3 DEF SpawnNpc
  <2>2. x.id = None
    BY DEF FreeSlot
  <2> HIDE DEF x
  <2> QED
    BY <1>2, <2>1, <2>2
<1>4. CASE NpcDies(s, n)
  <2> DEFINE x == Freed(s, n, None)
  <2>1. ch[s][n].id = None /\ ch' = [ch EXCEPT ![s][n] = x] /\ UNCHANGED queue
    BY <1>4 DEF NpcDies
  <2>2. x.id = None
    BY <2>1, FreedForgets
  <2> HIDE DEF x
  <2> QED
    BY <1>2, <2>1, <2>2
<1>5. ASSUME NEW a \in Areas, NEW gone, kick_char(s, n, a, gone), ch[s][n].used
      PROVE  CharacterSafe(c)'
  BY <1>1, <1>5, KickSafe, AreasAreNumbers
<1> QED
  BY <1>3, <1>4, <1>5 DEF Slot, change_area, exit_char, LostconExit, BareKick, PlayerCopy

(* The game loop makes the copy of the character whose row it was handed. *)
LEMMA CopySafely ==
    ASSUME TypeOK, TypeOK', NEW c \in Chars, CharacterSafe(c),
           NEW s \in Servers, NEW n \in Slots, NEW x,
           Creates(s), ~login[s].current, x.used, x.id = login[s].name,
           ch' = [ch EXCEPT ![s][n] = x],
           login'[s].status = "failed" \/ (login'[s].status = "ok" /\ login'[s].cn = n),
           \A t \in Servers \ {s} : login'[t] = login[t],
           UNCHANGED <<row, queue>>
    PROVE  CharacterSafe(c)'
<1>1. /\ \A t \in Servers, m \in Slots : t # s \/ m # n => ch'[t][m] = ch[t][m]
      /\ ch'[s][n] = x /\ \A t \in Servers \ {s} : ch'[t] = ch[t]
  BY DEF TypeOK
<1>2. \A t \in Servers : Creating(t, c)' => t # s /\ Creating(t, c)
  BY DEF Creating
<1>3. ResiduesKept(c)
  <2> SUFFICES ASSUME NEW t \in Servers, login'[t].status = "ok", ~ch'[t][login'[t].cn].used,
                      ch'[t][login'[t].cn].id = c
               PROVE  /\ login[t].status = "ok" /\ login[t].cn = login'[t].cn
                      /\ ch[t][login[t].cn].id = c
    BY DEF ResiduesKept
  <2>1. t # s
    BY <1>1
  <2> QED
    BY <1>1, <2>1
<1>5. CASE x.id # c
  <2>1. CopiesKept(c)
    BY <1>1, <1>5 DEF CopiesKept, Holds
  <2>2. \A t \in Servers : QueueKept(t, c)
    BY QueueSame
  <2> QED
    BY <1>2, <1>3, <2>1, <2>2, Frame DEF CreationsKept
<1>6. CASE x.id = c
  <2>1. Creating(s, c)
    BY <1>6 DEF Creating, Creates
  <2>2. /\ row[c].cur = s /\ ~Leaving(s, c)
        /\ \A t \in Servers, m \in Slots : ~Holds(t, m, c)
        /\ \A t \in Servers : Creating(t, c) => t = s
    BY <2>1 DEF CharacterSafe, CreationSafe, CopySafe
  <2>3. \A t \in Servers, m \in Slots : Holds(t, m, c)' => t = s /\ m = n
    BY <1>1, <2>2 DEF Holds
  <2>4. CopySafe(c)' /\ CreationSafe(c)'
    BY <1>2, <2>2, <2>3 DEF CopySafe, CreationSafe, Leaving, Frees
  <2>5. LoadSafe(c)'
    BY DEF CharacterSafe, LoadSafe, Frees
  <2>6. ResidueSafe(c)'
    <3> SUFFICES ASSUME NEW t \in Servers, login'[t].status = "ok",
                        ~ch'[t][login'[t].cn].used, NEW m \in Slots, Holds(t, m, c)'
                 PROVE  FALSE
      BY DEF ResidueSafe
    <3>1. t = s
      BY <2>3
    <3> QED
      BY <1>1, <3>1
  <2> QED
    BY <2>4, <2>5, <2>6 DEF CharacterSafe
<1> QED
  BY <1>5, <1>6

LEMMA TickOwnership ==
    ASSUME TypeOK, TypeOK', LoadFindsRequest, NEW c \in Chars, CharacterSafe(c),
           NEW s \in Servers, tick_login(s)
    PROVE  CharacterSafe(c)'
<1>1. /\ login[s].status = "create" /\ UNCHANGED row /\ login[s].name \in Chars /\ Creates(s)
  <2>1. login[s].status = "create" /\ UNCHANGED row /\ Creates(s)
    BY DEF tick_login, Creates, Usurp, UsurpGone, Create, CreateNoSlot, CreateNoItem, CreateNoRoom
  <2> QED
    BY <2>1, LoginTypes
<1>2. ASSUME Fails(s)
      PROVE  login'[s].status = "failed" /\ \A t \in Servers \ {s} : login'[t] = login[t]
  BY <1>2 DEF Fails, NoLogin, TypeOK
<1>3. ASSUME NEW n \in Slots, NEW u \in BOOLEAN, Succeeds(s, n, u)
      PROVE  /\ login'[s].status = "ok" /\ login'[s].cn = n
             /\ \A t \in Servers \ {s} : login'[t] = login[t]
  BY <1>3 DEF Succeeds, NoLogin, TypeOK
<1>4. Copy(s).used /\ Copy(s).id = login[s].name
      /\ [Copy(s) EXCEPT !.data = 0].used /\ [Copy(s) EXCEPT !.data = 0].id = login[s].name
  BY DEF Copy, FreeSlot
<1>5. CASE UsurpGone(s) \/ CreateNoSlot(s)
  <2>1. \A t \in Servers : QueueKept(t, c)
    BY <1>5, QueueSame DEF UsurpGone, CreateNoSlot
  <2> QED
    BY <1>1, <1>2, <1>5, <2>1, MemoryFrame DEF UsurpGone, CreateNoSlot
<1>6. CASE Usurp(s)
  <2>1. PICK n \in Slots :
          /\ Holds(s, n, login[s].name) /\ Succeeds(s, n, TRUE) /\ UNCHANGED queue
          /\ ch' = [ch EXCEPT ![s][n] = [ch[s][n] EXCEPT !.player = None, !.lost = FALSE]]
    BY <1>6 DEF Usurp
  <2>2. ch[s][n] \in SlotType
    BY DEF TypeOK
  <2>3. /\ ch'[s][n].used /\ ch'[s][n].id = ch[s][n].id /\ ch[s][n].used
        /\ \A t \in Servers, m \in Slots : t # s \/ m # n => ch'[t][m] = ch[t][m]
    BY <2>1, <2>2 DEF TypeOK, SlotType, Holds
  <2>4. CopiesKept(c)
    BY <2>3 DEF CopiesKept, Holds
  <2>5. CreationsKept(c)
    BY <1>3, <2>1 DEF CreationsKept, Creating
  <2>6. ResiduesKept(c)
    <3> SUFFICES ASSUME NEW t \in Servers, login'[t].status = "ok", ~ch'[t][login'[t].cn].used,
                        ch'[t][login'[t].cn].id = c
                 PROVE  /\ login[t].status = "ok" /\ login[t].cn = login'[t].cn
                        /\ ch[t][login[t].cn].id = c
      BY DEF ResiduesKept
    <3>1. login'[s].cn = n /\ \A r \in Servers \ {s} : login'[r] = login[r]
      BY <1>3, <2>1, TRUE \in BOOLEAN
    <3>2. t # s
      BY <2>3, <3>1
    <3>3. login'[t] = login[t] /\ login[t].cn \in Slots
      BY <3>1, <3>2 DEF TypeOK, LoginType
    <3> QED
      BY <2>3, <3>2, <3>3
  <2>7. \A t \in Servers : QueueKept(t, c)
    BY <2>1, QueueSame
  <2> QED
    BY <1>1, <2>4, <2>5, <2>6, <2>7, Frame
<1>7. CASE Create(s)
  <2>1. PICK n \in Slots : ch' = [ch EXCEPT ![s][n] = Copy(s)] /\ Succeeds(s, n, FALSE)
    BY <1>7 DEF Create
  <2>2. UNCHANGED queue /\ ~login[s].current
    BY <1>7 DEF Create
  <2>3. /\ login'[s].status = "ok" /\ login'[s].cn = n
        /\ \A t \in Servers \ {s} : login'[t] = login[t]
    BY <1>3, <2>1
  <2> QED
    BY <1>1, <1>4, <2>1, <2>2, <2>3, CopySafely
<1>8. CASE CreateNoItem(s)
  <2>1. PICK n \in Slots : ch' = [ch EXCEPT ![s][n] = [Copy(s) EXCEPT !.data = 0]]
    BY <1>8 DEF CreateNoItem
  <2>2. UNCHANGED queue /\ ~login[s].current /\ Fails(s)
    BY <1>8 DEF CreateNoItem
  <2> QED
    BY <1>1, <1>2, <1>4, <2>1, <2>2, CopySafely
<1>9. CASE CreateNoRoom(s)
  <2> DEFINE qs == <<[op |-> "release", id |-> login[s].name, data |-> 0, area |-> 0]>>
  <2>1. PICK n \in Slots : ch' = [ch EXCEPT ![s][n] = FreeSlot]
    BY <1>9 DEF CreateNoRoom
  <2>2. /\ Enqueue(s, qs) /\ ~login[s].current /\ login'[s].status = "failed"
        /\ \A t \in Servers \ {s} : login'[t] = login[t]
    BY <1>2, <1>9 DEF CreateNoRoom
  <2>3. qs \in Seq(Query)
    BY <1>1 DEF Query, About
  <2>4. /\ \A t \in Servers, m \in Slots : t # s \/ m # n => ch'[t][m] = ch[t][m]
        /\ ~ch'[s][n].used /\ \A t \in Servers \ {s} : ch'[t] = ch[t]
    BY <2>1 DEF TypeOK, FreeSlot
  <2>5. CopiesKept(c)
    BY <2>4 DEF CopiesKept, Holds
  <2>6. CreationsKept(c) /\ ~Creating(s, c)'
    BY <2>2 DEF CreationsKept, Creating
  <2>7. ResiduesKept(c)
    <3> SUFFICES ASSUME NEW t \in Servers, login'[t].status = "ok", ch'[t][login'[t].cn].id = c
                 PROVE  /\ login[t].status = "ok" /\ login[t].cn = login'[t].cn
                        /\ ch[t][login[t].cn].id = c
      BY DEF ResiduesKept
    <3>1. t # s
      BY <2>2
    <3> QED
      BY <2>2, <2>4, <3>1
  <2>8. CASE login[s].name # c
    <3>1. \A i \in 1 .. Len(qs) :
             qs[i].op # "load" /\ ~(qs[i].op \in {"logout", "release"} /\ qs[i].id = c)
      BY <2>8
    <3> HIDE DEF qs
    <3>2. \A t \in Servers : QueueKept(t, c)
      BY <2>2, <2>3, <3>1, EnqueueKeeps
    <3> QED
      BY <1>1, <2>5, <2>6, <2>7, <3>2, Frame
  <2>9. CASE login[s].name = c
    <3>1. Creating(s, c)
      BY <1>1, <2>2, <2>9 DEF Creating
    <3>2. /\ row[c].cur = s /\ \A t \in Servers, m \in Slots : ~Holds(t, m, c)
          /\ \A t \in Servers : Creating(t, c) => t = s
      BY <3>1 DEF CharacterSafe, CreationSafe, CopySafe
    <3>3. /\ \A t \in Servers, m \in Slots : ~Holds(t, m, c)'
          /\ \A t \in Servers : ~Creating(t, c)'
      BY <2>5, <2>6, <3>2 DEF CopiesKept, CreationsKept
    <3>4. \A i \in 1 .. Len(qs) : qs[i].op # "load"
      OBVIOUS
    <3> HIDE DEF qs
    <3>5. \A i \in DOMAIN queue'[s] : queue'[s][i].op # "load"
      <4>1. \A i \in DOMAIN queue[s] : queue[s][i].op # "load"
        BY <1>1 DEF LoadFindsRequest
      <4> QED
        BY <2>2, <2>3, <3>4, <4>1, EnqueueAppends
    <3>6. \A t \in Servers \ {s} : queue'[t] = queue[t]
      BY <2>2, <2>3, EnqueueAppends
    <3>7. LoadSafe(c)'
      BY <1>1, <3>5, <3>6 DEF CharacterSafe, LoadSafe, Frees
    <3> QED
      BY <3>3, <3>7 DEF CharacterSafe, CopySafe, CreationSafe, ResidueSafe
  <2> QED
    BY <2>8, <2>9
<1> QED
  BY <1>5, <1>6, <1>7, <1>8, <1>9 DEF tick_login

(* What the database thread does to the row of c, one query at a time.          *)
LEMMA ThreadOwnership ==
    ASSUME TypeOK, TypeOK', LoadFindsRequest, DownSafe, NEW c \in Chars, c \notin strayed',
           CharacterSafe(c), NEW s \in Servers, db_thread(s)
    PROVE  CharacterSafe(c)'
<1>1. UNCHANGED ch
  BY DEF db_thread, DoBackup, DoLogout, DoRelease, LoadRefused, LoadElsewhere,
         LoadOtherMirror, LoadHere, Loads, DoRescue, DoAlive, DoArealist
<1>2. PICK op : Takes(s, op)
  BY DEF db_thread, DoBackup, DoLogout, DoRelease, LoadRefused, LoadElsewhere,
         LoadOtherMirror, LoadHere, Loads, DoRescue, DoAlive, DoArealist
<1> DEFINE q == Head(queue[s])
<1>3. /\ run[s] # "down" /\ 1 \in DOMAIN queue[s] /\ queue[s][1] = q /\ q \in Query
      /\ \A i \in DOMAIN queue'[s] :
            i \in Nat \ {0} /\ i + 1 \in DOMAIN queue[s] /\ queue'[s][i] = queue[s][i + 1]
      /\ \A t \in Servers \ {s} : queue'[t] = queue[t]
  <2>1. queue[s] \in Seq(Query)
    BY DEF TypeOK
  <2>2. /\ run[s] # "down" /\ 1 \in DOMAIN queue[s] /\ queue[s][1] = q
        /\ \A i \in DOMAIN queue'[s] :
              i \in Nat \ {0} /\ i + 1 \in DOMAIN queue[s] /\ queue'[s][i] = queue[s][i + 1]
        /\ \A t \in Servers \ {s} : queue'[t] = queue[t]
    BY <1>2, TakesShifts
  <2>3. queue[s][1] \in Query
    BY <2>1, <2>2
  <2> QED
    BY <2>2, <2>3
<1> HIDE DEF q
<1>4. \A t \in Servers : QueueKept(t, c)
  BY <1>2, TakesKeeps
<1>5. CopiesKept(c)
  BY <1>1 DEF CopiesKept, Holds
<1>6. ASSUME UNCHANGED login PROVE CreationsKept(c) /\ ResiduesKept(c)
  BY <1>1, <1>6 DEF CreationsKept, Creating, ResiduesKept
<1>7. ASSUME UNCHANGED login, row'[c].cur = row[c].cur PROVE CharacterSafe(c)'
  BY <1>4, <1>5, <1>6, <1>7, Frame
<1>8. CASE DoBackup(s)
  <2>1. row'[c].cur = row[c].cur
    BY <1>8 DEF DoBackup, TypeOK
  <2> QED
    BY <1>7, <1>8, <2>1 DEF DoBackup
<1>9. CASE DoLogout(s) \/ DoRelease(s)
  <2>1. UNCHANGED login /\ q.op \in {"logout", "release"}
    BY <1>9 DEF DoLogout, DoRelease, Takes, q
  <2>2. row'[c].cur = row[c].cur \/ (q.id = c /\ row[c].cur = s)
    BY <1>9 DEF DoLogout, DoRelease, Mine, TypeOK, q
  <2>3. ASSUME q.id = c, row[c].cur = s, NEW t \in Servers, row[c].cur = t
        PROVE  /\ \A n \in Slots : ~Holds(t, n, c)'
               /\ ~Creating(t, c)'
               /\ \A i, j \in DOMAIN queue'[t] :
                     ~(queue'[t][i].op = "load" /\ i < j /\ Frees(t, j, c)')
    <3>1. t = s /\ Frees(s, 1, c)
      BY <1>3, <2>1, <2>3 DEF Frees
    <3>2. /\ \A n \in Slots : ~Holds(t, n, c)
          /\ ~Creating(t, c)
      BY <1>3, <3>1 DEF CharacterSafe, CopySafe, CreationSafe, Leaving
    <3>3. ASSUME NEW i \in DOMAIN queue'[s], NEW j \in DOMAIN queue'[s],
                 queue'[s][i].op = "load", i < j, Frees(s, j, c)'
          PROVE  FALSE
      <4>1. /\ i \in Nat \ {0} /\ i + 1 \in DOMAIN queue[s] /\ queue[s][i + 1].op = "load"
            /\ j \in Nat \ {0} /\ j + 1 \in DOMAIN queue[s] /\ Frees(s, j + 1, c)
        BY <1>3, <3>3 DEF Frees
      <4>2. i + 1 < j + 1 /\ 1 < i + 1
        BY <3>3, <4>1
      <4>3. ~Frees(s, 1, c)
        BY <1>3, <4>1, <4>2 DEF CharacterSafe, LoadSafe
      <4> QED
        BY <3>1, <4>3
    <3> QED
      BY <1>5, <1>6, <2>1, <3>1, <3>2, <3>3 DEF CopiesKept, CreationsKept
  <2> QED
    BY <1>4, <1>5, <1>6, <2>1, <2>2, <2>3, Frame
<1>10. CASE LoadRefused(s) \/ LoadElsewhere(s) \/ LoadOtherMirror(s)
  <2>1. UNCHANGED row /\ (Fails(s) \/ \E to : NewArea(s, to))
    BY <1>10 DEF LoadRefused, LoadElsewhere, LoadOtherMirror, NewArea
  <2>2. \A t \in Servers : login'[t] = login[t] \/ login'[t].status \in {"failed", "newarea"}
    <3>1. CASE Fails(s)
      BY <3>1 DEF Fails, NoLogin, TypeOK
    <3>2. ASSUME NEW to, NewArea(s, to)
          PROVE  \A t \in Servers : login'[t] = login[t] \/ login'[t].status = "newarea"
      BY <3>2 DEF NewArea, NoLogin, TypeOK
    <3> QED
      BY <2>1, <3>1, <3>2
  <2> QED
    BY <1>1, <1>4, <2>1, <2>2, MemoryFrame
<1>11. CASE LoadHere(s)
  <2> DEFINE e == login[s].name
  <2>1. /\ ~Elsewhere(s, e) /\ Takes(s, "load") /\ login[s].status = "read"
        /\ login' = [login EXCEPT ![s] = [NoLogin EXCEPT !.status = "create", !.name = e,
                                             !.data = row[e].data, !.current = (row[e].cur = s)]]
        /\ row' = [row EXCEPT ![e] = [@ EXCEPT !.cur = s, !.allowed = Area(s)]]
    BY <1>11 DEF LoadHere, Loads
  <2>2. /\ \A t \in Servers \ {s} : login'[t] = login[t]
        /\ login'[s].status = "create" /\ login'[s].name = e
        /\ login'[s].current = (row[e].cur = s)
    BY <2>1 DEF TypeOK, NoLogin
  <2>3. e \in Chars /\ row[e].cur \in {None, s}
    BY <2>1, LoginTypes DEF Elsewhere
  <2>4. \A d \in Chars : row'[d].cur = IF d = e THEN s ELSE row[d].cur
    BY <2>1, <2>3 DEF TypeOK
  <2> HIDE DEF e
  <2>5. ResiduesKept(c)
    <3> SUFFICES ASSUME NEW t \in Servers, login'[t].status = "ok", ch'[t][login'[t].cn].id = c
                 PROVE  /\ login[t].status = "ok" /\ login[t].cn = login'[t].cn
                        /\ ch[t][login[t].cn].id = c
      BY DEF ResiduesKept
    <3>1. login'[t] = login[t]
      BY <2>2
    <3> QED
      BY <1>1, <3>1
  <2>6. CASE c # e \/ row[c].cur = s
    <3>1. row'[c].cur = row[c].cur
      BY <2>4, <2>6
    <3>2. CreationsKept(c)
      BY <2>2, <2>6 DEF CreationsKept, Creating
    <3> QED
      BY <1>4, <1>5, <2>5, <3>1, <3>2, Frame
  <2>7. CASE c = e /\ row[c].cur # s
    <3>1. row[c].cur = None /\ None \notin Servers /\ row'[c].cur = s
      BY <2>3, <2>4, <2>7, NoneAssumption
    <3>2. /\ \A t \in Servers, m \in Slots : ~Holds(t, m, c)
          /\ \A t \in Servers : ~Creating(t, c)
      BY <3>1 DEF CharacterSafe, CopySafe, CreationSafe
    <3>3. /\ \A t \in Servers, m \in Slots : ~Holds(t, m, c)'
          /\ \A t \in Servers : Creating(t, c)' => t = s
      BY <1>5, <2>2, <3>2 DEF CopiesKept, Creating
    <3>4. ~Leaving(s, c)'
      <4> SUFFICES ASSUME NEW j \in DOMAIN queue'[s], Frees(s, j, c)' PROVE FALSE
        BY DEF Leaving
      <4>1. j \in Nat \ {0} /\ j + 1 \in DOMAIN queue[s] /\ Frees(s, j + 1, c)
        BY <1>3 DEF Frees
      <4>2. 1 < j + 1
        BY <4>1
      <4>3. 1 \in DOMAIN queue[s] /\ queue[s][1].op = "load"
        BY <2>1, TakesShifts
      <4>4. row[c].cur = s
        BY <4>1, <4>2, <4>3 DEF CharacterSafe, LoadSafe
      <4> QED
        BY <2>7, <4>4
    <3>5. LoadSafe(c)'
      <4> SUFFICES ASSUME NEW t \in Servers, NEW i \in DOMAIN queue'[t], NEW j \in DOMAIN queue'[t],
                          queue'[t][i].op = "load", i < j, Frees(t, j, c)'
                   PROVE  FALSE
        BY DEF LoadSafe
      <4>1. t # s
        BY <2>1, <2>2, LoadEmptiesRequest
      <4>2. queue'[t] = queue[t]
        BY <1>3, <4>1
      <4>3. row[c].cur = t
        BY <4>2 DEF CharacterSafe, LoadSafe, Frees
      <4> QED
        BY <3>1, <4>3
    <3> QED
      BY <3>1, <3>3, <3>4, <3>5 DEF CharacterSafe, CopySafe, CreationSafe, ResidueSafe
  <2> QED
    BY <2>6, <2>7
<1>12. CASE DoRescue(s)
  <2>1. UNCHANGED login
    BY <1>12 DEF DoRescue
  <2>2. \/ row'[c].cur = row[c].cur
        \/ row[c].cur = None /\ row'[c].cur = None
        \/ run[row[c].cur] = "down"
    <3>1. UNCHANGED row
          \/ /\ \E a : row' = [row EXCEPT ![q.id] = [@ EXCEPT !.cur = None, !.allowed = a]]
             /\ strayed' = IF row[q.id].cur # None /\ run[row[q.id].cur] # "down"
                           THEN strayed \cup {q.id} ELSE strayed
      BY <1>12 DEF DoRescue, q
    <3>2. ASSUME NEW a, row' = [row EXCEPT ![q.id] = [@ EXCEPT !.cur = None, !.allowed = a]]
          PROVE  row'[c].cur = IF c = q.id THEN None ELSE row[c].cur
      BY <3>2 DEF TypeOK
    <3> QED
      BY <3>1, <3>2
  <2>3. ASSUME run[row[c].cur] = "down", NEW t \in Servers, row[c].cur = t
        PROVE  /\ \A n \in Slots : ~Holds(t, n, c)'
               /\ ~Creating(t, c)'
               /\ DOMAIN queue'[t] = {}
    <3>1. run[t] = "down" /\ t # s
      BY <1>3, <2>3
    <3>2. /\ \A n \in Slots : ~Holds(t, n, c)
          /\ ~Creating(t, c)
          /\ queue[t] = <<>>
      BY <3>1 DEF DownSafe, Holds, Creating, NoLogin
    <3> QED
      BY <1>3, <1>5, <1>6, <2>1, <3>1, <3>2 DEF CopiesKept, CreationsKept
  <2>4. CASE row'[c].cur = row[c].cur
    BY <1>7, <2>1, <2>4
  <2>5. CASE run[row[c].cur] = "down"
    <3>1. \A t \in Servers : row[c].cur = t =>
             /\ \A n \in Slots : ~Holds(t, n, c)'
             /\ ~Creating(t, c)'
             /\ \A i, j \in DOMAIN queue'[t] :
                   ~(queue'[t][i].op = "load" /\ i < j /\ Frees(t, j, c)')
      BY <2>3, <2>5
    <3> QED
      BY <1>4, <1>5, <1>6, <2>1, <3>1, Frame
  <2> QED
    BY <2>2, <2>4, <2>5
<1>13. CASE DoAlive(s) \/ DoArealist(s)
  BY <1>7, <1>13 DEF DoAlive, DoArealist
<1> QED
  BY <1>8, <1>9, <1>10, <1>11, <1>12, <1>13 DEF db_thread

LEMMA ServerOwnership ==
    ASSUME TypeOK, TypeOK', LoadFindsRequest, DownSafe, NEW c \in Chars, c \notin strayed',
           CharacterSafe(c), NEW s \in Servers, Server(s)
    PROVE  CharacterSafe(c)'
<1>1. ASSUME UNCHANGED <<ch, login>> PROVE CopiesKept(c) /\ CreationsKept(c) /\ ResiduesKept(c)
  BY <1>1 DEF CopiesKept, Holds, CreationsKept, Creating, ResiduesKept
<1>2. ASSUME UNCHANGED <<ch, login, row>>, \A t \in Servers : QueueKept(t, c)
      PROVE  CharacterSafe(c)'
  BY <1>1, <1>2, Frame
<1>3. ASSUME UNCHANGED queue PROVE \A t \in Servers : QueueKept(t, c)
  BY <1>3, QueueSame
<1>4. ASSUME NEW op \in {"alive", "arealist", "dead"}, Enqueue(s, <<Plain(op)>>)
      PROVE  \A t \in Servers : QueueKept(t, c)
  <2> DEFINE qs == <<Plain(op)>>
  <2>1. /\ qs \in Seq(Query)
        /\ \A i \in 1 .. Len(qs) :
              qs[i].op # "load" /\ ~(qs[i].op \in {"logout", "release"} /\ qs[i].id = c)
    BY PlainIsQuery DEF Plain
  <2> QED
    BY <1>4, <2>1, EnqueueKeeps
<1>5. CASE LoginAges(s)
  <2>1. /\ \A t \in Servers \ {s} : login'[t] = login[t]
        /\ login'[s].status = login[s].status /\ login'[s].cn = login[s].cn
        /\ login[s].status # "create"
    BY <1>5 DEF LoginAges, Results, TypeOK, LoginType
  <2>2. UNCHANGED <<row, queue, ch>>
    BY <1>5 DEF LoginAges
  <2>3. CopiesKept(c)
    BY <2>2 DEF CopiesKept, Holds
  <2>4. CreationsKept(c)
    BY <2>1 DEF CreationsKept, Creating
  <2>5. ResiduesKept(c)
    <3> SUFFICES ASSUME NEW t \in Servers, login'[t].status = "ok", ch'[t][login'[t].cn].id = c
                 PROVE  /\ login[t].status = "ok" /\ login[t].cn = login'[t].cn
                        /\ ch[t][login[t].cn].id = c
      BY DEF ResiduesKept
    <3> QED
      BY <2>1, <2>2
  <2> QED
    BY <1>3, <2>2, <2>3, <2>4, <2>5, Frame
<1>6. ASSUME Forget(s), login' = [login EXCEPT ![s] = NoLogin], queue' = [queue EXCEPT ![s] = <<>>],
             UNCHANGED row
      PROVE  CharacterSafe(c)'
  <2>1. /\ \A t \in Servers \ {s} : ch'[t] = ch[t] /\ login'[t] = login[t] /\ queue'[t] = queue[t]
        /\ login'[s] = NoLogin /\ queue'[s] = <<>>
        /\ \A m \in Slots : ~ch'[s][m].used
    BY <1>6 DEF Forget, FreeSlot, TypeOK
  <2>2. CopiesKept(c)
    BY <2>1 DEF CopiesKept, Holds
  <2>3. CreationsKept(c)
    BY <2>1 DEF CreationsKept, Creating, NoLogin
  <2>4. ResiduesKept(c)
    <3> SUFFICES ASSUME NEW t \in Servers, login'[t].status = "ok", ch'[t][login'[t].cn].id = c
                 PROVE  /\ login[t].status = "ok" /\ login[t].cn = login'[t].cn
                        /\ ch[t][login[t].cn].id = c
      BY DEF ResiduesKept
    <3>1. t # s
      BY <2>1 DEF NoLogin
    <3> QED
      BY <2>1, <3>1
  <2>5. \A t \in Servers : QueueKept(t, c)
    <3>1. QueueKept(s, c)
      BY <2>1, 0 \in Nat DEF QueueKept
    <3> QED
      BY <2>1, <3>1, QueueSame
  <2> QED
    BY <1>6, <2>2, <2>3, <2>4, <2>5, Frame
<1>7. CASE Crash(s)
  BY <1>6, <1>7 DEF Crash
<1>8. CASE Drained(s)
  <2>1. queue' = [queue EXCEPT ![s] = <<>>]
    BY <1>8 DEF Drained, TypeOK
  <2> QED
    BY <1>6, <1>8, <2>1 DEF Drained
<1>9. CASE Start(s)
  <2>1. run[s] = "down" /\ UNCHANGED <<queue, ch, login>>
    BY <1>9 DEF Start
  <2>2. row'[c].cur = row[c].cur \/ row[c].cur = s
    BY <1>9 DEF Start
  <2>3. ASSUME NEW t \in Servers, row[c].cur = t, row[c].cur = s
        PROVE  /\ \A n \in Slots : ~Holds(t, n, c)'
               /\ ~Creating(t, c)'
               /\ \A i, j \in DOMAIN queue'[t] :
                     ~(queue'[t][i].op = "load" /\ i < j /\ Frees(t, j, c)')
    <3>1. /\ \A n \in Slots : ~Holds(t, n, c)
          /\ ~Creating(t, c)
          /\ queue[t] = <<>>
      BY <2>1, <2>3 DEF DownSafe, Holds, Creating, NoLogin
    <3> QED
      BY <1>1, <2>1, <3>1 DEF CopiesKept, CreationsKept
  <2>4. CASE row'[c].cur = row[c].cur
    BY <1>1, <1>3, <2>1, <2>4, Frame
  <2>5. CASE row[c].cur = s
    BY <1>1, <1>3, <2>1, <2>3, <2>5, Frame
  <2> QED
    BY <2>2, <2>4, <2>5
<1>10. CASE LeaveNext(s)
  <2>1. PICK n \in Slots, a \in Areas : kick_char(s, n, a, None) /\ ch[s][n].used
    BY <1>10 DEF LeaveNext
  <2> QED
    BY <1>10, <2>1, KickSafe, AreasAreNumbers DEF LeaveNext
<1>11. CASE tick_login(s)
  BY <1>11, TickOwnership
<1>12. CASE db_thread(s)
  BY <1>12, ThreadOwnership
<1>13. ASSUME NEW op \in {"alive", "arealist"}, Periodic(s, op) PROVE CharacterSafe(c)'
  BY <1>2, <1>4, <1>13 DEF Periodic
<1>14. CASE AliveLapses(s) \/ Shutdown(s)
  BY <1>2, <1>3, <1>14 DEF AliveLapses, Shutdown
<1>15. CASE AllLeft(s)
  BY <1>2, <1>4, <1>15 DEF AllLeft
<1> QED
  BY <1>5, <1>7, <1>8, <1>9, <1>10, <1>11, <1>12, <1>13, <1>14, <1>15 DEF Server

-----------------------------------------------------------------------------
(* The theorems. *)

LEMMA OwnershipInitially == Init => OwnershipSafe
<1> SUFFICES ASSUME Init PROVE OwnershipSafe
  OBVIOUS
<1>1. /\ \A s \in Servers : queue[s] = <<>> /\ login[s] = NoLogin /\ run[s] = "up"
      /\ \A s \in Servers, n \in Slots : ~ch[s][n].used
      /\ \A k \in Clients : conn[k].state = "off"
  BY DEF Init, FreeSlot, Offline
<1>2. LinkSafe /\ DownSafe
  BY <1>1 DEF LinkSafe, DownSafe, NoLogin
<1>3. ASSUME NEW c PROVE CopySafe(c) /\ CreationSafe(c) /\ LoadSafe(c) /\ ResidueSafe(c)
  BY <1>1 DEF CopySafe, CreationSafe, LoadSafe, ResidueSafe, Holds, Creating, NoLogin
<1> QED
  BY <1>2, <1>3 DEF OwnershipSafe

\* A character once rescued away from a running server stays outside the promise.
LEMMA StrayedGrows == ASSUME TypeOK, [Next]_vars PROVE Settled' \subseteq Settled
<1>1. strayed \subseteq strayed'
  <2>1. ASSUME NEW s \in Servers, DoRescue(s) PROVE strayed \subseteq strayed'
    BY <2>1 DEF DoRescue
  <2>2. ASSUME NEW k \in Clients, Client(k) PROVE UNCHANGED strayed
    BY <2>2 DEF Client, Poll, AskEmpty, AskUnclaimed, AskUsurped, Ask, CollectRefusal,
       CollectRedirect, CollectRescue, CollectChar, CollectGone, Collects, Play, kick_player,
       GiveUp, Backup, IdleExit, Connect
  <2>3. ASSUME NEW s \in Servers, NEW n \in Slots, Slot(s, n) PROVE UNCHANGED strayed
    BY <2>3 DEF Slot, SpawnNpc, NpcDies, change_area, exit_char, LostconExit, BareKick
  <2>4. ASSUME NEW s \in Servers, tick_login(s) PROVE UNCHANGED strayed
    BY <2>4 DEF tick_login, Usurp, UsurpGone, Create, CreateNoSlot, CreateNoItem, CreateNoRoom
  <2>5. ASSUME NEW s \in Servers, db_thread(s) PROVE strayed \subseteq strayed'
    BY <2>1, <2>5 DEF db_thread, DoBackup, DoLogout, DoRelease, LoadRefused, LoadElsewhere,
                      LoadOtherMirror, LoadHere, Loads, DoAlive, DoArealist
  <2>6. ASSUME NEW s \in Servers, Server(s) PROVE strayed \subseteq strayed'
    BY <2>4, <2>5, <2>6 DEF Server, LoginAges, Periodic, AliveLapses, Crash, Start, Shutdown,
                            LeaveNext, AllLeft, Drained
  <2> QED
    BY <2>2, <2>3, <2>6 DEF Next, vars
<1> QED
  BY <1>1 DEF Settled

LEMMA OwnershipStep ==
    NoBareKick /\ TypeOK /\ TypeOK' /\ LoadFindsRequest /\ OwnershipSafe /\ [Next]_vars
        => OwnershipSafe'
<1> SUFFICES ASSUME NoBareKick, TypeOK, TypeOK', LoadFindsRequest, OwnershipSafe, [Next]_vars
             PROVE  OwnershipSafe'
  OBVIOUS
<1>1. LinkSafe /\ DownSafe
  BY DEF OwnershipSafe
<1>2. CASE UNCHANGED vars
  <2>1. UNCHANGED <<row, run, queue, ch, login, conn, strayed>>
    BY <1>2 DEF vars
  <2>2. LinkSafe' /\ DownSafe'
    BY <1>1, <2>1 DEF LinkSafe, DownSafe, Up
  <2>3. ASSUME NEW c \in Settled'
        PROVE  CopySafe(c)' /\ CreationSafe(c)' /\ LoadSafe(c)' /\ ResidueSafe(c)'
    <3>1. c \in Settled
      BY <2>1 DEF Settled
    <3> QED
      BY <2>1, <3>1 DEF OwnershipSafe, CopySafe, CreationSafe, LoadSafe, ResidueSafe,
                        Holds, Creating, Leaving, Frees
  <2> QED
    BY <2>2, <2>3 DEF OwnershipSafe
<1>3. CASE Next
  <2>1. LinkSafe'
    BY <1>1, <1>3, ClientLinks, SlotLinks, ServerLinks DEF Next
  <2>2. DownSafe'
    BY <1>1, <1>3, DownStep
  <2>3. ASSUME NEW c \in Settled' PROVE CharacterSafe(c)'
    <3>1. c \in Chars /\ c \notin strayed' /\ c \in Settled
      BY StrayedGrows DEF Settled
    <3>2. CharacterSafe(c)
      BY <3>1 DEF OwnershipSafe, CharacterSafe
    <3> QED
      BY <1>1, <1>3, <3>1, <3>2, ClientOwnership, SlotOwnership, ServerOwnership DEF Next
  <2> QED
    BY <2>1, <2>2, <2>3 DEF OwnershipSafe, CharacterSafe
<1> QED
  BY <1>2, <1>3

(* The login protocol keeps one copy per character, on the server its row names, *)
(* through delayed logouts, redirects, repeated logins, failed creations,        *)
(* crashes, restarts and shutdowns of any number of servers: provided no kick    *)
(* leaves a connection behind.                                                   *)
THEOREM OwnershipKept == ASSUME NoBareKick PROVE Spec => []OwnershipSafe
<1>1. TypeOK /\ TypeOK' /\ LoadFindsRequest /\ OwnershipSafe /\ [Next]_vars => OwnershipSafe'
  BY OwnershipStep
<1> QED
  BY <1>1, TypeCorrect, LoadsFindRequests, OwnershipInitially, PTL DEF Spec

(* No character exists twice, on two servers or in two slots of one. *)
THEOREM OneCopyEach == ASSUME NoBareKick PROVE Spec => []SingleCopy
<1>1. OwnershipSafe => SingleCopy
  BY DEF OwnershipSafe, CopySafe, SingleCopy
<1>2. Spec => []OwnershipSafe
  BY OwnershipKept
<1> QED
  BY <1>1, <1>2, PTL

(* The server that has a character in memory is the one whose saves the database *)
(* accepts.                                                                      *)
THEOREM CopiesOwnTheirRows == ASSUME NoBareKick PROVE Spec => []CopyOwnsRow
<1>1. OwnershipSafe => CopyOwnsRow
  BY DEF OwnershipSafe, CopySafe, CopyOwnsRow
<1>2. Spec => []OwnershipSafe
  BY OwnershipKept
<1> QED
  BY <1>1, <1>2, PTL

-----------------------------------------------------------------------------
(* Why nobody is locked out (NoLockout).                                        *)

\* The tables of a server are never full.
NoAllocFail == "allocFail" \notin Optional

Reached(s, c) == (\E n \in Slots : Holds(s, n, c)) \/ Creating(s, c) \/ Leaving(s, c)

\* A step does not lose sight of c: if its row names s now and did before, what
\* would free the row is still there, or something else is.
KeepsSight(c) == \A s \in Servers :
    row'[c].cur = s /\ run'[s] = "up" =>
        row[c].cur = s /\ run[s] = "up" /\ (Reached(s, c) => Reached(s, c)')

\* Whatever is queued is taken from the front, or stays.
LEMMA QueueStays ==
    ASSUME TypeOK, NEW s \in Servers, queue'[s] = queue[s], NEW c, Leaving(s, c)
    PROVE  Leaving(s, c)'
  BY DEF Leaving, Frees

\* Enqueuing at any server keeps the save that lets a character go.
LEMMA LeavingStays ==
    ASSUME TypeOK, NEW t \in Servers, NEW qs \in Seq(Query), Enqueue(t, qs),
           NEW s \in Servers, NEW c, Leaving(s, c)
    PROVE  Leaving(s, c)'
<1>1. CASE s = t
  <2>1. PICK i \in DOMAIN queue[s] : Frees(s, i, c)
    BY DEF Leaving
  <2>2. i \in DOMAIN queue'[s] /\ queue'[s][i] = queue[s][i]
    BY <1>1, EnqueueAppends
  <2> QED
    BY <2>1, <2>2 DEF Leaving, Frees
<1>2. CASE s # t
  BY <1>2, EnqueueAppends, QueueStays
<1> QED
  BY <1>1, <1>2

\* What is queued behind everything else.
LEMMA Queued ==
    ASSUME TypeOK, NEW s \in Servers, NEW qs \in Seq(Query), Enqueue(s, qs), NEW c,
           NEW i \in 1 .. Len(qs), qs[i].op \in {"logout", "release"}, qs[i].id = c
    PROVE  Leaving(s, c)'
<1>1. queue[s] \in Seq(Query) /\ queue'[s] = queue[s] \o qs
  BY DEF Enqueue, TypeOK
<1>2. Len(queue[s]) + i \in DOMAIN queue'[s] /\ queue'[s][Len(queue[s]) + i] = qs[i]
  BY <1>1
<1> QED
  BY <1>2 DEF Leaving, Frees

\* A query that does not free the row of c is done.
LEMMA TakesLeavesRest ==
    ASSUME TypeOK, NEW t \in Servers, NEW op, Takes(t, op), NEW s \in Servers, NEW c, Leaving(s, c)
    PROVE  Leaving(s, c)' \/ (s = t /\ op \in {"logout", "release"} /\ Head(queue[s]).id = c)
<1>1. CASE s = t
  <2>1. PICK i \in DOMAIN queue[s] : Frees(s, i, c)
    BY DEF Leaving
  <2>2. CASE i = 1
    BY <1>1, <2>1, <2>2, TakesShifts DEF Frees
  <2>3. CASE i # 1
    <3>1. queue[s] \in Seq(Query) /\ queue[s] # <<>> /\ queue'[s] = Tail(queue[s])
      BY <1>1 DEF Takes, TypeOK
    <3>2. i - 1 \in DOMAIN queue'[s] /\ queue'[s][i - 1] = queue[s][i]
      BY <2>3, <3>1
    <3> QED
      BY <2>1, <3>2 DEF Leaving, Frees
  <2> QED
    BY <2>2, <2>3
<1>2. CASE s # t
  BY <1>2, TakesShifts, QueueStays
<1> QED
  BY <1>1, <1>2

\* A step that keeps rows, logins that create and every copy.
LEMMA SightFrame ==
    ASSUME NEW c, UNCHANGED <<row, run>>,
           \A s \in Servers : Creating(s, c) => Creating(s, c)',
           \A s \in Servers, n \in Slots : Holds(s, n, c) => Holds(s, n, c)' \/ Leaving(s, c)',
           \A s \in Servers : Leaving(s, c) => Leaving(s, c)'
    PROVE  KeepsSight(c)
  BY DEF KeepsSight, Reached

\* A kick queues the logout of the copy it frees.
LEMMA KickSight ==
    ASSUME TypeOK, NEW c \in Chars, NEW s \in Servers, NEW n \in Slots, NEW a \in Nat \ {0}, NEW gone,
           kick_char(s, n, a, gone), UNCHANGED <<row, run, login>>
    PROVE  KeepsSight(c)
<1>1. save_char(s, n, a) \in Seq(Query) /\ Enqueue(s, save_char(s, n, a))
  BY SavesAreQueries DEF kick_char
<1>2. ASSUME NEW t \in Servers, NEW m \in Slots, Holds(t, m, c)
      PROVE  Holds(t, m, c)' \/ Leaving(t, c)'
  <2>1. CASE t = s /\ m = n
    <3> DEFINE qs == save_char(s, n, a)
    <3>1. ch[s][n].id = c /\ c # None
      BY <1>2, <2>1, NoneAssumption DEF Holds
    <3>2. Len(qs) = 1 /\ qs[1].op = "logout" /\ qs[1].id = c
      BY <3>1 DEF save_char
    <3>3. 1 \in 1 .. Len(qs)
      BY <3>2
    <3> HIDE DEF qs
    <3> QED
      BY <1>1, <2>1, <3>2, <3>3, Queued DEF qs
  <2>2. CASE t # s \/ m # n
    BY <1>2, <2>2, KickFrees DEF Holds
  <2> QED
    BY <2>1, <2>2
<1>3. \A t \in Servers : Leaving(t, c) => Leaving(t, c)'
  BY <1>1, LeavingStays
<1> QED
  BY <1>2, <1>3, SightFrame DEF Creating

\* A step on what a slot says of its player and progress.
LEMMA SlotKeeps ==
    ASSUME TypeOK, NEW s \in Servers, NEW n \in Slots, NEW x,
           ch' = [ch EXCEPT ![s][n] = x], x.used = ch[s][n].used, x.id = ch[s][n].id, NEW c
    PROVE  \A t \in Servers, m \in Slots : Holds(t, m, c) => Holds(t, m, c)'
  BY DEF TypeOK, Holds

\* Sight is kept by a step that leaves rows and queues alone.
LEMMA SameQueueSight ==
    ASSUME TypeOK, NEW c \in Chars, UNCHANGED <<row, run, queue>>,
           \A s \in Servers : Creating(s, c) => Creating(s, c)',
           \A s \in Servers, n \in Slots : Holds(s, n, c) => Holds(s, n, c)'
    PROVE  KeepsSight(c)
  BY SightFrame DEF Leaving, Frees

\* Sight is kept by a step that only adds to a queue.
LEMMA EnqueueSight ==
    ASSUME TypeOK, NEW c \in Chars, UNCHANGED <<row, run>>,
           NEW t \in Servers, NEW qs \in Seq(Query), Enqueue(t, qs),
           \A s \in Servers : Creating(s, c) => Creating(s, c)',
           \A s \in Servers, n \in Slots : Holds(s, n, c) => Holds(s, n, c)'
    PROVE  KeepsSight(c)
  BY LeavingStays, SightFrame

\* A request is written over nothing that is being created.
LEMMA AskSight ==
    ASSUME TypeOK, NEW c \in Chars, NEW k \in Clients, Waits(k), conn[k].at \in Servers,
           login[conn[k].at].status # "create", NEW cleared \in Seq(Query), Ask(k, cleared),
           \A s \in Servers, n \in Slots : Holds(s, n, c) =>
                Holds(s, n, c)' \/ \E i \in 1 .. Len(cleared) :
                    s = conn[k].at /\ cleared[i].op = "release" /\ cleared[i].id = c
    PROVE  KeepsSight(c)
<1> DEFINE s == conn[k].at
           qs == Append(cleared, Plain("load"))
<1>1. /\ qs \in Seq(Query) /\ Len(qs) = Len(cleared) + 1 /\ Len(cleared) \in Nat
      /\ \A i \in 1 .. Len(cleared) : qs[i] = cleared[i]
  BY PlainIsQuery
<1>2. /\ Enqueue(s, qs) /\ UNCHANGED <<row, run>>
      /\ \A t \in Servers \ {s} : login'[t] = login[t]
  BY DEF Ask, TypeOK, servers
<1> HIDE DEF qs
<1>3. \A t \in Servers : Creating(t, c) => Creating(t, c)'
  BY <1>2 DEF Creating
<1>4. \A t \in Servers : Leaving(t, c) => Leaving(t, c)'
  BY <1>1, <1>2, LeavingStays
<1>5. ASSUME NEW t \in Servers, NEW n \in Slots, Holds(t, n, c) PROVE Holds(t, n, c)' \/ Leaving(t, c)'
  <2>1. CASE \E i \in 1 .. Len(cleared) : t = s /\ cleared[i].op = "release" /\ cleared[i].id = c
    <3>1. PICK i \in 1 .. Len(cleared) : t = s /\ cleared[i].op = "release" /\ cleared[i].id = c
      BY <2>1
    <3>2. i \in 1 .. Len(qs) /\ qs[i] = cleared[i]
      BY <1>1
    <3> QED
      BY <1>1, <1>2, <3>1, <3>2, Queued
  <2> QED
    BY <1>5, <2>1
<1> QED
  BY <1>2, <1>3, <1>4, <1>5, SightFrame

\* Sight is kept by every step of a client.
LEMMA ClientSight ==
    ASSUME TypeOK, TypeOK', NEW c \in Chars, NEW k \in Clients, Client(k)
    PROVE  KeepsSight(c)
<1>1. conn[k].state # "off" => conn[k].at \in Servers
  BY DEF TypeOK, ConnType
<1>2. \A a \in Areas : a \in Nat \ {0}
  BY ServersAssumption DEF Areas, Area
<1>3. CASE AskEmpty(k) \/ AskUsurped(k)
  <2>1. /\ Waits(k) /\ conn[k].at \in Servers /\ login[conn[k].at].status # "create"
        /\ Ask(k, <<>>)
    BY <1>1, <1>3 DEF AskEmpty, AskUsurped, Stale, Results, Waits
  <2>2. \A s \in Servers, n \in Slots : Holds(s, n, c) => Holds(s, n, c)'
    <3>1. CASE AskEmpty(k)
      BY <3>1 DEF AskEmpty, Holds
    <3>2. CASE AskUsurped(k)
      <4> DEFINE s == conn[k].at
                 n == login[s].cn
                 x == [ch[s][n] EXCEPT !.lost = TRUE]
      <4>1. s \in Servers /\ n \in Slots /\ ch' = [ch EXCEPT ![s][n] = x]
        BY <2>1, <3>2 DEF AskUsurped, TypeOK, LoginType
      <4>2. ch[s][n] \in SlotType
        BY <4>1 DEF TypeOK
      <4>3. x.used = ch[s][n].used /\ x.id = ch[s][n].id
        BY <4>2 DEF SlotType
      <4> HIDE DEF x, n, s
      <4> QED
        BY <4>1, <4>3, SlotKeeps
    <3> QED
      BY <1>3, <3>1, <3>2
  <2>3. <<>> \in Seq(Query)
    OBVIOUS
  <2> QED
    BY <2>1, <2>2, <2>3, AskSight
<1>4. CASE AskUnclaimed(k)
  <2> DEFINE s == conn[k].at
             l == login[s]
             cleared == release_char(s, l.cn)
  <2>1. /\ Waits(k) /\ s \in Servers /\ l.status = "ok" /\ l.cn \in Slots /\ Ask(k, cleared)
        /\ ch' = [ch EXCEPT ![s][l.cn] = Freed(s, l.cn, None)]
    BY <1>1, <1>4 DEF AskUnclaimed, Waits, TypeOK, LoginType
  <2>2. cleared \in Seq(Query)
    BY <2>1, SavesAreQueries
  <2>3. ASSUME NEW t \in Servers, NEW n \in Slots, Holds(t, n, c)
        PROVE  Holds(t, n, c)' \/ \E i \in 1 .. Len(cleared) :
                    t = s /\ cleared[i].op = "release" /\ cleared[i].id = c
    <3>1. CASE t = s /\ n = l.cn
      <4>1. ch[s][l.cn].id = c /\ c # None
        BY <2>3, <3>1, NoneAssumption DEF Holds
      <4>2. Len(cleared) = 1 /\ cleared[1].op = "release" /\ cleared[1].id = c
        BY <4>1 DEF release_char
      <4>3. 1 \in 1 .. Len(cleared)
        BY <4>2
      <4> QED
        BY <3>1, <4>2, <4>3
    <3>2. CASE t # s \/ n # l.cn
      BY <2>1, <2>3, <3>2 DEF Holds, TypeOK
    <3> QED
      BY <3>1, <3>2
  <2> HIDE DEF cleared
  <2> QED
    BY <2>1, <2>2, <2>3, AskSight
<1>5. CASE CollectRefusal(k) \/ CollectRedirect(k) \/ CollectChar(k) \/ CollectGone(k)
  <2>1. /\ UNCHANGED <<row, run, queue>> /\ login[conn[k].at].status \in {"failed", "newarea", "ok"}
        /\ login' = [login EXCEPT ![conn[k].at] = NoLogin]
    BY <1>5 DEF CollectRefusal, CollectRedirect, CollectChar, CollectGone, Collects, servers
  <2>2. \A s \in Servers : Creating(s, c) => Creating(s, c)'
    BY <2>1 DEF Creating, TypeOK
  <2>3. \A s \in Servers, n \in Slots : Holds(s, n, c) => Holds(s, n, c)'
    <3>1. CASE ~CollectChar(k)
      BY <1>5, <3>1 DEF CollectRefusal, CollectRedirect, CollectGone, Holds
    <3>2. CASE CollectChar(k)
      <4> DEFINE s == conn[k].at
                 n == login[s].cn
                 x == [ch[s][n] EXCEPT !.player = k, !.lost = FALSE]
      <4>1. s \in Servers /\ n \in Slots /\ ch' = [ch EXCEPT ![s][n] = x]
        BY <1>1, <3>2 DEF CollectChar, Collects, Waits, TypeOK, LoginType
      <4>2. ch[s][n] \in SlotType
        BY <4>1 DEF TypeOK
      <4>3. x.used = ch[s][n].used /\ x.id = ch[s][n].id
        BY <4>2 DEF SlotType
      <4> HIDE DEF x, n, s
      <4> QED
        BY <4>1, <4>3, SlotKeeps
    <3> QED
      BY <3>1, <3>2
  <2> QED
    BY <2>1, <2>2, <2>3, SameQueueSight
<1>6. CASE CollectRescue(k)
  <2> DEFINE q == [Plain("rescue") EXCEPT !.id = conn[k].name]
  <2>1. /\ UNCHANGED <<row, run, ch>> /\ login[conn[k].at].status = "newarea" /\ conn[k].at \in Servers
        /\ login' = [login EXCEPT ![conn[k].at] = NoLogin] /\ Enqueue(conn[k].at, <<q>>)
        /\ conn[k].name \in Chars
    BY <1>1, <1>6 DEF CollectRescue, Collects, servers, Waits, TypeOK, ConnType
  <2>2. <<q>> \in Seq(Query)
    BY <2>1 DEF Plain, Query, About
  <2>3. \A s \in Servers : Creating(s, c) => Creating(s, c)'
    BY <2>1 DEF Creating, TypeOK
  <2>4. \A s \in Servers, n \in Slots : Holds(s, n, c) => Holds(s, n, c)'
    BY <2>1 DEF Holds
  <2> QED
    BY <2>1, <2>2, <2>3, <2>4, EnqueueSight
<1>7. CASE Play(k) \/ kick_player(k)
  <2>1. UNCHANGED <<row, run, queue, login>>
    BY <1>7 DEF Play, kick_player, servers
  <2>2. \A s \in Servers, n \in Slots : Holds(s, n, c) => Holds(s, n, c)'
    <3> DEFINE s == conn[k].at
               n == conn[k].cn
               x == ch[s][n]
    <3>1. s \in Servers /\ n \in Slots /\ x \in SlotType
      BY <1>7 DEF Play, kick_player, Plays, TypeOK, ConnType
    <3>2. \/ ch' = [ch EXCEPT ![s][n] = [x EXCEPT !.data = @ + 1]]
          \/ ch' = [ch EXCEPT ![s][n] = [x EXCEPT !.player = None, !.lost = TRUE]]
      BY <1>7 DEF Play, kick_player
    <3>3. /\ [x EXCEPT !.data = @ + 1].used = x.used /\ [x EXCEPT !.data = @ + 1].id = x.id
          /\ [x EXCEPT !.player = None, !.lost = TRUE].used = x.used
          /\ [x EXCEPT !.player = None, !.lost = TRUE].id = x.id
      BY <3>1 DEF SlotType
    <3> HIDE DEF s, n
    <3> QED
      BY <3>1, <3>2, <3>3, SlotKeeps
  <2> QED
    BY <2>1, <2>2, SameQueueSight DEF Creating
<1>8. CASE GiveUp(k) \/ \E s \in Servers, d \in Chars : Connect(k, s, d)
  BY <1>8, SameQueueSight DEF GiveUp, Connect, servers, Creating, Holds
<1>9. CASE Backup(k)
  <2>1. /\ UNCHANGED <<row, run, login, ch>> /\ conn[k].at \in Servers /\ conn[k].cn \in Slots
        /\ Enqueue(conn[k].at, save_char(conn[k].at, conn[k].cn, 0))
    BY <1>1, <1>9 DEF Backup, Plays, servers, TypeOK, ConnType
  <2>2. save_char(conn[k].at, conn[k].cn, 0) \in Seq(Query)
    BY <2>1, SavesAreQueries
  <2> QED
    BY <2>1, <2>2, EnqueueSight DEF Creating, Holds
<1>10. ASSUME NEW a \in Areas, IdleExit(k, a) PROVE KeepsSight(c)
  <2>1. /\ UNCHANGED <<row, run, login>> /\ conn[k].at \in Servers /\ conn[k].cn \in Slots
        /\ kick_char(conn[k].at, conn[k].cn, a, k) \/ UNCHANGED <<queue, ch>>
    BY <1>1, <1>10 DEF IdleExit, Plays, servers, TypeOK, ConnType
  <2>2. CASE kick_char(conn[k].at, conn[k].cn, a, k)
    BY <1>2, <2>1, <2>2, KickSight
  <2>3. CASE UNCHANGED <<queue, ch>>
    BY <2>1, <2>3, SameQueueSight DEF Creating, Holds
  <2> QED
    BY <2>1, <2>2, <2>3
<1> QED
  BY <1>3, <1>4, <1>5, <1>6, <1>7, <1>8, <1>9, <1>10 DEF Client, Poll

\* Sight is kept by every step of a slot.
LEMMA SlotSight ==
    ASSUME TypeOK, NEW c \in Chars, NEW s \in Servers, NEW n \in Slots, Slot(s, n)
    PROVE  KeepsSight(c)
<1>1. \A a \in Areas : a \in Nat \ {0}
  BY ServersAssumption DEF Areas, Area
<1>2. ASSUME NEW a \in Areas, change_area(s, n, a) \/ exit_char(s, n, a) \/ BareKick(s, n, a)
      PROVE  KeepsSight(c)
  <2>1. UNCHANGED <<row, run, login>> /\ \E gone : kick_char(s, n, a, gone)
    BY <1>2 DEF change_area, exit_char, BareKick, servers
  <2> QED
    BY <1>1, <2>1, KickSight
<1>3. CASE SpawnNpc(s, n) \/ NpcDies(s, n)
  <2>1. UNCHANGED <<row, run, queue, login>> /\ (ch[s][n].used => ch[s][n].id = None)
    BY <1>3 DEF SpawnNpc, NpcDies, servers
  <2>2. \A t \in Servers, m \in Slots : t # s \/ m # n => ch'[t][m] = ch[t][m]
    BY <1>3 DEF SpawnNpc, NpcDies, TypeOK
  <2>3. c # None
    BY NoneAssumption
  <2>4. \A t \in Servers, m \in Slots : Holds(t, m, c) => Holds(t, m, c)'
    BY <2>1, <2>2, <2>3 DEF Holds
  <2> QED
    BY <2>1, <2>4, SameQueueSight DEF Creating
<1> QED
  BY <1>2, <1>3 DEF Slot, LostconExit

\* A character that was to be created is, or its row is released.
LEMMA TickSight ==
    ASSUME NoAllocFail, TypeOK, NEW c \in Chars, NEW s \in Servers, tick_login(s)
    PROVE  KeepsSight(c)
<1>1. \A t \in Servers \ {s} : Creating(t, c) => Creating(t, c)'
  BY DEF tick_login, Usurp, UsurpGone, Create, CreateNoSlot, CreateNoItem, CreateNoRoom,
         Succeeds, Fails, TypeOK, Creating
<1>2. CASE Usurp(s)
  <2>1. UNCHANGED <<row, run, queue>> /\ ~Creating(s, c)
    BY <1>2 DEF Usurp, servers, Creating
  <2>2. \A t \in Servers, n \in Slots : Holds(t, n, c) => Holds(t, n, c)'
    BY <1>2 DEF Usurp, Holds, TypeOK, SlotType
  <2> QED
    BY <1>1, <2>1, <2>2, SameQueueSight
<1>3. CASE UsurpGone(s)
  BY <1>1, <1>3, SameQueueSight DEF UsurpGone, servers, Creating, Holds
<1>4. CASE Create(s)
  <2>1. UNCHANGED <<row, run, queue>>
    BY <1>4 DEF Create, servers
  <2>2. PICK n \in Slots : ~ch[s][n].used /\ ch' = [ch EXCEPT ![s][n] = Copy(s)]
    BY <1>4 DEF Create
  <2>3. /\ ch'[s][n] = Copy(s)
        /\ \A t \in Servers, m \in Slots : t # s \/ m # n => ch'[t][m] = ch[t][m]
    BY <2>2 DEF TypeOK
  <2>4. \A t \in Servers, m \in Slots : Holds(t, m, c) => Holds(t, m, c)'
    BY <2>2, <2>3 DEF Holds
  <2>5. Creating(s, c) => Holds(s, n, c)'
    BY <2>3 DEF Creating, Holds, Copy, FreeSlot
  <2>6. \A t \in Servers : Leaving(t, c) => Leaving(t, c)'
    BY <2>1 DEF Leaving, Frees
  <2> QED
    BY <1>1, <2>1, <2>4, <2>5, <2>6 DEF KeepsSight, Reached
<1>5. CASE CreateNoRoom(s)
  <2> DEFINE q == [op |-> "release", id |-> login[s].name, data |-> 0, area |-> 0]
  <2>1. UNCHANGED <<row, run>> /\ Enqueue(s, <<q>>) /\ login[s].status = "create"
    BY <1>5 DEF CreateNoRoom, servers, Creates
  <2>2. q \in Query
    <3>1. login[s] \in LoginType
      BY DEF TypeOK
    <3>2. login[s].name \in Chars
      BY <2>1, <3>1 DEF LoginType
    <3> QED
      BY <3>2 DEF Query, About
  <2>3. <<q>> \in Seq(Query) /\ Len(<<q>>) = 1 /\ <<q>>[1] = q /\ 1 \in 1 .. 1
    BY <2>2
  <2>4. PICK n \in Slots : ~ch[s][n].used /\ ch' = [ch EXCEPT ![s][n] = FreeSlot]
    BY <1>5 DEF CreateNoRoom
  <2>5. \A t \in Servers, m \in Slots : Holds(t, m, c) => Holds(t, m, c)'
    BY <2>4 DEF Holds, TypeOK
  <2>6. Creating(s, c) => q.op = "release" /\ q.id = c
    BY DEF Creating
  <2> HIDE DEF q
  <2>7. Creating(s, c) => Leaving(s, c)'
    BY <2>1, <2>3, <2>6, Queued
  <2>8. \A t \in Servers : Leaving(t, c) => Leaving(t, c)'
    BY <2>1, <2>3, LeavingStays
  <2> QED
    BY <1>1, <2>1, <2>5, <2>7, <2>8 DEF KeepsSight, Reached
<1> QED
  BY <1>2, <1>3, <1>4, <1>5 DEF tick_login, CreateNoSlot, CreateNoItem, NoAllocFail

\* The thread frees a row and forgets the query in one step.
LEMMA ThreadSight ==
    ASSUME TypeOK, NEW c \in Chars, NEW s \in Servers, db_thread(s), ~LoadHere(s)
    PROVE  KeepsSight(c)
<1>1. UNCHANGED <<run, ch>> /\ \E op : Takes(s, op)
  BY DEF db_thread, DoBackup, DoLogout, DoRelease, LoadRefused, LoadElsewhere, LoadOtherMirror,
         Loads, DoRescue, DoAlive, DoArealist, servers
<1>2. \A t \in Servers : Creating(t, c) => Creating(t, c)'
  <2>1. CASE LoadRefused(s) \/ LoadElsewhere(s) \/ LoadOtherMirror(s)
    BY <2>1 DEF LoadRefused, LoadElsewhere, LoadOtherMirror, Loads, NewArea, Fails, Creating, TypeOK
  <2>2. CASE ~(LoadRefused(s) \/ LoadElsewhere(s) \/ LoadOtherMirror(s))
    BY <2>2 DEF db_thread, DoBackup, DoLogout, DoRelease, DoRescue, DoAlive, DoArealist, Creating
  <2> QED
    BY <2>1, <2>2
<1>3. ASSUME NEW t \in Servers, row'[c].cur = t PROVE row[c].cur = t
  <2>1. c # None /\ t # None
    BY NoneAssumption
  <2>2. row'[c].cur \in {row[c].cur, None}
    <3>1. CASE DoBackup(s) \/ DoLogout(s) \/ DoRelease(s)
      <4>1. \A e \in Chars : row'[e].cur \in {row[e].cur, None}
        <5>1. row \in [Chars -> [cur : Servers \cup {None}, allowed : Nat, data : Nat]]
          BY DEF TypeOK
        <5>2. CASE DoBackup(s)
          BY <5>1, <5>2 DEF DoBackup
        <5>3. CASE DoLogout(s)
          BY <5>1, <5>3 DEF DoLogout
        <5>4. CASE DoRelease(s)
          BY <5>1, <5>4 DEF DoRelease
        <5> QED
          BY <3>1, <5>2, <5>3, <5>4
      <4> QED
        BY <4>1
    <3>2. CASE DoRescue(s)
      <4>1. row' = row \/ \E d, a : row' = [row EXCEPT ![d] = [@ EXCEPT !.cur = None, !.allowed = a]]
        BY <3>2 DEF DoRescue
      <4>2. ASSUME NEW d, NEW a, row' = [row EXCEPT ![d] = [@ EXCEPT !.cur = None, !.allowed = a]]
            PROVE  row'[c].cur \in {row[c].cur, None}
        BY <4>2 DEF TypeOK
      <4> QED
        BY <4>1, <4>2
    <3> QED
      BY <3>1, <3>2 DEF db_thread, LoadRefused, LoadElsewhere, LoadOtherMirror, NewArea, DoAlive, DoArealist
  <2> QED
    BY <1>3, <2>1, <2>2
<1>4. ASSUME NEW t \in Servers, row'[c].cur = t, Leaving(t, c) PROVE Leaving(t, c)'
  <2>1. CASE DoLogout(s) \/ DoRelease(s)
    <3>1. PICK op \in {"logout", "release"} : Takes(s, op)
      BY <2>1 DEF DoLogout, DoRelease
    <3>2. CASE t = s /\ Head(queue[t]).id = c
      <4>1. row'[c].cur = None
        BY <1>3, <1>4, <2>1, <3>2 DEF DoLogout, DoRelease, Mine, TypeOK
      <4> QED
        BY <1>4, <4>1, NoneAssumption
    <3> QED
      BY <1>4, <3>1, <3>2, TakesLeavesRest
  <2>2. CASE ~(DoLogout(s) \/ DoRelease(s))
    <3>1. PICK op \in About \cup {"load", "alive", "dead", "arealist"} :
            Takes(s, op) /\ op \notin {"logout", "release"}
      <4>1. CASE DoBackup(s) \/ DoRescue(s)
        BY <4>1 DEF DoBackup, DoRescue, About
      <4>2. CASE LoadRefused(s) \/ LoadElsewhere(s) \/ LoadOtherMirror(s) \/ LoadHere(s)
        BY <4>2 DEF LoadRefused, LoadElsewhere, LoadOtherMirror, LoadHere, Loads
      <4>3. CASE DoAlive(s) \/ DoArealist(s)
        BY <4>3 DEF DoAlive, DoArealist
      <4> QED
        BY <2>2, <4>1, <4>2, <4>3 DEF db_thread
    <3> QED
      BY <1>4, <3>1, TakesLeavesRest
  <2> QED
    BY <2>1, <2>2
<1> QED
  BY <1>1, <1>2, <1>3, <1>4 DEF KeepsSight, Reached, Holds

\* A load that takes a row for its server is about to create the character, or
\* the row has named the server before.
LEMMA LoadSight ==
    ASSUME TypeOK, NEW c \in Chars, NEW s \in Servers, LoadHere(s), NEW t \in Servers,
           row'[c].cur = t, row[c].cur = t => Reached(t, c)
    PROVE  Reached(t, c)'
<1> DEFINE d == login[s].name
<1>1. /\ UNCHANGED ch /\ Takes(s, "load") /\ login[s].status = "read"
      /\ login'[s].status = "create" /\ login'[s].name = d /\ login'[s].current = (row[d].cur = s)
      /\ \A r \in Servers \ {s} : login'[r] = login[r]
      /\ row' = [row EXCEPT ![d] = [@ EXCEPT !.cur = s, !.allowed = Area(s)]]
  BY DEF LoadHere, Loads, NoLogin, TypeOK
<1>2. d \in Chars
  <2>1. login[s] \in LoginType
    BY DEF TypeOK
  <2> QED
    BY <1>1, <2>1 DEF LoginType
<1>3. ASSUME row[c].cur = t PROVE Reached(t, c)'
  <2>1. ~Creating(s, c)
    BY <1>1 DEF Creating
  <2>2. \A r \in Servers \ {s} : Creating(r, c) => Creating(r, c)'
    BY <1>1 DEF Creating
  <2>3. Leaving(t, c) => Leaving(t, c)'
    BY <1>1, TakesLeavesRest
  <2> QED
    BY <1>1, <1>3, <2>1, <2>2, <2>3 DEF Reached, Holds
<1>4. ASSUME row[c].cur # t PROVE Reached(t, c)'
  <2>1. c = d /\ t = s
    BY <1>1, <1>2, <1>4 DEF TypeOK
  <2> QED
    BY <1>1, <1>4, <2>1 DEF Reached, Creating
<1> QED
  BY <1>3, <1>4

\* Sight is kept by every other step of a server whose tables are not full.
LEMMA ServerSight ==
    ASSUME NoAllocFail, TypeOK, NEW c \in Chars, NEW s \in Servers, Server(s), ~LoadHere(s)
    PROVE  KeepsSight(c)
<1>1. CASE LoginAges(s)
  <2>1. login' = [login EXCEPT ![s].old = TRUE] /\ login[s].status \in Results /\ UNCHANGED <<row, run, queue, ch>>
    BY <1>1 DEF LoginAges, servers
  <2> QED
    BY <2>1, SameQueueSight DEF Creating, Holds, TypeOK, Results
<1>2. ASSUME NEW op \in {"alive", "arealist"}, Periodic(s, op) PROVE KeepsSight(c)
  <2>1. <<Plain(op)>> \in Seq(Query) /\ Enqueue(s, <<Plain(op)>>) /\ UNCHANGED <<row, run, login, ch>>
    BY <1>2, PlainIsQuery DEF Periodic, servers
  <2> QED
    BY <2>1, EnqueueSight DEF Creating, Holds
<1>3. CASE AliveLapses(s)
  BY <1>3, SameQueueSight DEF AliveLapses, Creating, Holds
<1>4. CASE Crash(s) \/ Drained(s)
  <2>1. /\ UNCHANGED row /\ run' = [run EXCEPT ![s] = "down"]
        /\ \A t \in Servers \ {s} : queue'[t] = queue[t] /\ login'[t] = login[t] /\ ch'[t] = ch[t]
    BY <1>4 DEF Crash, Drained, Forget, TypeOK
  <2>2. ASSUME NEW t \in Servers, run'[t] = "up" PROVE t # s /\ run[t] = "up"
    BY <2>1, <2>2 DEF TypeOK
  <2> QED
    BY <2>1, <2>2 DEF KeepsSight, Reached, Holds, Creating, Leaving, Frees
<1>5. CASE Start(s)
  <2>1. ASSUME NEW t \in Servers, row'[c].cur = t PROVE row[c].cur = t /\ t # s
    BY <1>5, <2>1, NoneAssumption DEF Start, TypeOK
  <2>2. \A t \in Servers \ {s} : run'[t] = run[t]
    BY <1>5 DEF Start, TypeOK
  <2>3. UNCHANGED <<queue, ch, login>>
    BY <1>5 DEF Start
  <2> QED
    BY <2>1, <2>2, <2>3 DEF KeepsSight, Reached, Holds, Creating, Leaving, Frees
<1>6. CASE Shutdown(s)
  <2>1. /\ UNCHANGED <<row, queue, ch, login>> /\ run' = [run EXCEPT ![s] = "leaving"]
    BY <1>6 DEF Shutdown
  <2>2. \A t \in Servers : run'[t] = "up" => run[t] = "up"
    BY <2>1 DEF TypeOK
  <2> QED
    BY <2>1, <2>2 DEF KeepsSight, Reached, Holds, Creating, Leaving, Frees
<1>7. CASE LeaveNext(s)
  <2>1. PICK n \in Slots, a \in Areas : kick_char(s, n, a, None)
    BY <1>7 DEF LeaveNext
  <2>2. a \in Nat \ {0} /\ UNCHANGED <<row, run, login>>
    BY <1>7, ServersAssumption DEF LeaveNext, Areas, Area, servers
  <2> QED
    BY <2>1, <2>2, KickSight
<1>8. CASE AllLeft(s)
  <2>1. /\ UNCHANGED <<row, ch, login>> /\ Enqueue(s, <<Plain("dead")>>)
        /\ run' = [run EXCEPT ![s] = "draining"]
    BY <1>8 DEF AllLeft
  <2>2. <<Plain("dead")>> \in Seq(Query)
    BY PlainIsQuery
  <2>3. \A t \in Servers : run'[t] = "up" => run[t] = "up"
    BY <2>1 DEF TypeOK
  <2>4. \A t \in Servers : Leaving(t, c) => Leaving(t, c)'
    BY <2>1, <2>2, LeavingStays
  <2> QED
    BY <2>1, <2>3, <2>4 DEF KeepsSight, Reached, Holds, Creating
<1> QED
  BY <1>1, <1>2, <1>3, <1>4, <1>5, <1>6, <1>7, <1>8, TickSight, ThreadSight DEF Server

(* Nobody is locked out of a character: when a row says it is online on a server *)
(* that runs, it is there, is about to be, or a queued query frees the row; as   *)
(* long as the tables of the servers do not run full.                            *)
THEOREM NobodyLockedOut == ASSUME NoAllocFail PROVE Spec => []NoLockout
<1>1. Init => NoLockout
  BY NoneAssumption DEF Init, NoLockout, Settled
<1>2. TypeOK /\ TypeOK' /\ NoLockout /\ [Next]_vars => NoLockout'
  <2> SUFFICES ASSUME TypeOK, TypeOK', NoLockout, [Next]_vars,
                      NEW c \in Settled', NEW s \in Servers, row'[c].cur = s, run'[s] = "up"
               PROVE  Reached(s, c)'
    BY DEF NoLockout, Reached
  <2>1. c \in Settled /\ c \in Chars
    BY StrayedGrows DEF Settled
  <2>2. row[c].cur = s /\ run[s] = "up" => Reached(s, c)
    BY <2>1 DEF NoLockout, Reached
  <2>3. ASSUME KeepsSight(c) PROVE Reached(s, c)'
    BY <2>2, <2>3 DEF KeepsSight
  <2>4. CASE UNCHANGED vars
    BY <2>2, <2>4 DEF vars, Reached, Holds, Creating, Leaving, Frees
  <2>5. ASSUME NEW t \in Servers, LoadHere(t) PROVE Reached(s, c)'
    <3>1. run[s] = "up"
      BY <2>5 DEF LoadHere, Loads, servers
    <3> QED
      BY <2>1, <2>2, <2>5, <3>1, LoadSight
  <2>6. ASSUME NEW k \in Clients, Client(k) PROVE Reached(s, c)'
    BY <2>1, <2>3, <2>6, ClientSight
  <2>7. ASSUME NEW t \in Servers, NEW n \in Slots, Slot(t, n) PROVE Reached(s, c)'
    BY <2>1, <2>3, <2>7, SlotSight
  <2>8. ASSUME NEW t \in Servers, Server(t) PROVE Reached(s, c)'
    BY <2>1, <2>3, <2>5, <2>8, ServerSight
  <2> QED
    BY <2>4, <2>6, <2>7, <2>8 DEF Next
<1> QED
  BY <1>1, <1>2, TypeCorrect, PTL DEF Spec

-----------------------------------------------------------------------------
(* What a server has made of a character.                                   *)

\* Server s has a logout of c to write.
LoggingOut(s, c) == \E i \in DOMAIN queue[s] : queue[s][i].op = "logout" /\ queue[s][i].id = c

\* What there is of a character that no server has checked out: what is saved.
LEMMA IdleWork == ASSUME NEW c \in Chars, row[c].cur = None PROVE Working(c) = row[c].data
  BY DEF Working

\* The same after the step.
LEMMA IdleWorkNext == ASSUME NEW c \in Chars, row'[c].cur = None PROVE Working(c)' = row'[c].data
  BY DEF Working

\* What there is of a character with a copy in memory: the copy.
LEMMA HeldWork ==
    ASSUME NEW c \in Chars, NEW s \in Servers, row[c].cur = s, NEW n \in Slots, Holds(s, n, c),
           \A m \in Slots : Holds(s, m, c) => m = n
    PROVE Working(c) = ch[s][n].data
<1>1. s # None
  BY NoneAssumption
<1>2. {m \in Slots : Holds(s, m, c)} = {n}
  OBVIOUS
<1> QED
  BY <1>1, <1>2 DEF Working

\* The same after the step.
LEMMA HeldWorkNext ==
    ASSUME NEW c \in Chars, NEW s \in Servers, row'[c].cur = s, NEW n \in Slots, Holds(s, n, c)',
           \A m \in Slots : Holds(s, m, c)' => m = n
    PROVE Working(c)' = ch'[s][n].data
<1>1. s # None
  BY NoneAssumption
<1>2. {m \in Slots : Holds(s, m, c)'} = {n}
  OBVIOUS
<1> QED
  BY <1>1, <1>2 DEF Working, Slots

\* What there is of a character that left and whose logout is queued: the logout.
LEMMA LateWork ==
    ASSUME NEW c \in Chars, NEW s \in Servers, row[c].cur = s, \A n \in Slots : ~Holds(s, n, c),
           NEW i \in DOMAIN queue[s], queue[s][i].op = "logout", queue[s][i].id = c,
           \A j \in DOMAIN queue[s] : queue[s][j].op = "logout" /\ queue[s][j].id = c => j = i
    PROVE Working(c) = queue[s][i].data
<1>1. s # None
  BY NoneAssumption
<1>2. {m \in Slots : Holds(s, m, c)} = {}
  OBVIOUS
<1>3. LastSave(s, c) = {queue[s][i].data}
  BY DEF LastSave
<1> QED
  BY <1>1, <1>2, <1>3 DEF Working

\* The same after the step.
LEMMA LateWorkNext ==
    ASSUME NEW c \in Chars, NEW s \in Servers, row'[c].cur = s, \A n \in Slots : ~Holds(s, n, c)',
           NEW i \in DOMAIN queue'[s], queue'[s][i].op = "logout", queue'[s][i].id = c,
           \A j \in DOMAIN queue'[s] : queue'[s][j].op = "logout" /\ queue'[s][j].id = c => j = i
    PROVE Working(c)' = queue'[s][i].data
<1>1. s # None
  BY NoneAssumption
<1>2. {m \in Slots : Holds(s, m, c)'} = {}
  OBVIOUS
<1>3. LastSave(s, c)' = {queue'[s][i].data}
  BY DEF LastSave
<1> QED
  BY <1>1, <1>2, <1>3 DEF Working

\* What there is of a character with neither a copy nor a logout: what is saved.
LEMMA LostWork ==
    ASSUME NEW c \in Chars, NEW s \in Servers, row[c].cur = s, \A n \in Slots : ~Holds(s, n, c),
           ~LoggingOut(s, c)
    PROVE Working(c) = row[c].data
<1>1. s # None
  BY NoneAssumption
<1>2. {m \in Slots : Holds(s, m, c)} = {}
  OBVIOUS
<1>3. LastSave(s, c) = {}
  BY DEF LastSave, LoggingOut
<1> QED
  BY <1>1, <1>2, <1>3 DEF Working

\* The same after the step.
LEMMA LostWorkNext ==
    ASSUME NEW c \in Chars, NEW s \in Servers, row'[c].cur = s, \A n \in Slots : ~Holds(s, n, c)',
           ~LoggingOut(s, c)'
    PROVE Working(c)' = row'[c].data
<1>1. s # None
  BY NoneAssumption
<1>2. {m \in Slots : Holds(s, m, c)'} = {}
  OBVIOUS
<1>3. LastSave(s, c)' = {}
  BY DEF LastSave, LoggingOut
<1> QED
  BY <1>1, <1>2, <1>3 DEF Working

\* Query i of server s writes what s has made of character c.
Saves(s, i, c) == queue[s][i].op \in {"backup", "logout"} /\ queue[s][i].id = c

\* Server s has created c for a client that has not come for it yet.
Unclaimed(s, c) == login[s].status = "ok" /\ ~login[s].usurped /\ Holds(s, login[s].cn, c)

-----------------------------------------------------------------------------
(* What a step does to a character.                                            *)

\* Row, copies, login slot and queues, as far as c is concerned, stay as they are.
RowRests(c) == row'[c].cur = row[c].cur /\ row'[c].data = row[c].data

\* Query i was there before, after the same queries; d of the first have gone.
Old(s, i, d) ==
    /\ i + d \in DOMAIN queue[s]
    /\ \A j \in DOMAIN queue'[s] : j <= i => queue'[s][j] = queue[s][j + d]

\* The saves of c stay, with what is before them; the first query may have gone.
QueueRests(s, c) == \E d \in {0, 1} :
    /\ \A i \in DOMAIN queue'[s] : Saves(s, i, c)' => Old(s, i, d)
    /\ \A i \in DOMAIN queue[s] : Saves(s, i, c) =>
          i > d /\ i - d \in DOMAIN queue'[s] /\ queue'[s][i - d] = queue[s][i]

CopiesRest(s, c) == \A n \in Slots :
    /\ Holds(s, n, c)' <=> Holds(s, n, c)
    /\ Holds(s, n, c) => ch'[s][n].data = ch[s][n].data

LoginRests(s, c) ==
    /\ Creating(s, c)' => Creating(s, c) /\ login'[s].data = login[s].data
    /\ Unclaimed(s, c)' => Unclaimed(s, c)

Rests(s, c) == QueueRests(s, c) /\ CopiesRest(s, c) /\ LoginRests(s, c)
ElseRests(s, c) == \A t \in Servers \ {s} : Rests(t, c)

Untouched(c) == RowRests(c) /\ \A s \in Servers : Rests(s, c)

\* In memory: it gains something; it leaves; it is saved for a connection; it is
\* made from what was read; it is destroyed unclaimed; its server goes down.
Worked(c) == \E s \in Servers, n \in Slots :
    /\ RowRests(c) /\ ElseRests(s, c) /\ QueueRests(s, c) /\ LoginRests(s, c)
    /\ \A m \in Slots : Holds(s, m, c)' <=> Holds(s, m, c)
    /\ Holds(s, n, c) /\ ch'[s][n].data > ch[s][n].data

\* What save_char queues for the copy of c in slot n.
SaveOf(s, n, c, op, a) == [op |-> op, id |-> c, data |-> ch[s][n].data, area |-> a]

Kicked(c) == \E s \in Servers, n \in Slots, a \in Areas :
    /\ RowRests(c) /\ ElseRests(s, c) /\ LoginRests(s, c)
    /\ Holds(s, n, c) /\ \A m \in Slots : ~Holds(s, m, c)'
    /\ queue'[s] = Append(queue[s], SaveOf(s, n, c, "logout", a))

Backed(c) == \E s \in Servers, n \in Slots, k \in Clients :
    /\ RowRests(c) /\ ElseRests(s, c) /\ UNCHANGED <<ch, login>>
    /\ conn[k].state = "play" /\ conn[k].at = s /\ conn[k].cn = n /\ ch[s][n].id = c
    /\ queue'[s] = Append(queue[s], SaveOf(s, n, c, "backup", 0))

Made(c) == \E s \in Servers, n \in Slots :
    /\ RowRests(c) /\ ElseRests(s, c) /\ QueueRests(s, c) /\ Creating(s, c) /\ ~Creating(s, c)'
    /\ Holds(s, n, c)' /\ \A m \in Slots : Holds(s, m, c)' => m = n
    /\ NoAllocFail => ch'[s][n].data = login[s].data

Dropped(c) == \E s \in Servers :
    /\ RowRests(c) /\ ElseRests(s, c) /\ QueueRests(s, c) /\ Unclaimed(s, c) /\ ~Creating(s, c)'
    /\ \A m \in Slots : ~Holds(s, m, c)'

Lost(c) == \E s \in Servers :
    /\ RowRests(c) /\ ElseRests(s, c)
    /\ queue'[s] = <<>> /\ login'[s].status = "empty" /\ \A m \in Slots : ~Holds(s, m, c)'

\* In the database: it is saved, handed back, released, marked as loaded, swept.
Executed(s, c, op) == queue[s] # <<>> /\ Head(queue[s]).op = op /\ Head(queue[s]).id = c

Stored(c) == \E s \in Servers, op \in {"backup", "logout"} :
    /\ ElseRests(s, c) /\ CopiesRest(s, c) /\ LoginRests(s, c)
    /\ Executed(s, c, op) /\ queue'[s] = Tail(queue[s])
    /\ IF row[c].cur = s
       THEN row'[c].cur = (IF op = "logout" THEN None ELSE s) /\ row'[c].data = Head(queue[s]).data
       ELSE RowRests(c)

Freeing(c) == row'[c].cur = None /\ row'[c].data = row[c].data /\ \A t \in Servers : Rests(t, c)

Released(c) == \E s \in Servers : row[c].cur = s /\ Executed(s, c, "release") /\ Freeing(c)

Swept(c) == \E s \in Servers : row[c].cur = s /\ run[s] = "down" /\ Freeing(c)

Loaded(c) == \E s \in Servers :
    /\ row[c].cur = None /\ row'[c].cur = s /\ row'[c].data = row[c].data
    /\ ElseRests(s, c) /\ QueueRests(s, c) /\ CopiesRest(s, c)
    /\ login'[s].status = "create" /\ login'[s].data = row[c].data

Handled(c) == \/ Untouched(c) \/ Worked(c) \/ Kicked(c) \/ Backed(c) \/ Made(c) \/ Dropped(c)
              \/ Lost(c) \/ Stored(c) \/ Released(c) \/ Swept(c) \/ Loaded(c)

-----------------------------------------------------------------------------
(* What leaves a character at rest.                                            *)

\* A queue that nothing is done to.
LEMMA QueueSameRests ==
    ASSUME TypeOK, NEW s \in Servers, queue'[s] = queue[s], NEW c
    PROVE  QueueRests(s, c)
<1>1. \A i \in DOMAIN queue[s] : i \in Nat /\ i > 0 /\ i + 0 = i /\ i - 0 = i
  <2>1. queue[s] \in Seq(Query)
    BY DEF TypeOK
  <2> QED
    BY <2>1
<1>2. \A i \in DOMAIN queue'[s] : queue'[s][i] = queue[s][i + 0] /\ i + 0 \in DOMAIN queue[s]
  BY <1>1
<1>3. \A i \in DOMAIN queue[s] : i > 0 /\ i - 0 \in DOMAIN queue'[s] /\ queue'[s][i - 0] = queue[s][i]
  BY <1>1
<1> QED
  BY <1>2, <1>3 DEF QueueRests, Old

\* The database thread takes a query that is no save of c.
LEMMA TailRests ==
    ASSUME TypeOK, NEW s \in Servers, queue[s] # <<>>, queue'[s] = Tail(queue[s]), NEW c,
           ~(Head(queue[s]).op \in {"backup", "logout"} /\ Head(queue[s]).id = c)
    PROVE  QueueRests(s, c)
<1>1. queue[s] \in Seq(Query) /\ Len(queue[s]) \in Nat \ {0}
  BY DEF TypeOK
<1>2. /\ DOMAIN queue'[s] = 1 .. Len(queue[s]) - 1 /\ DOMAIN queue[s] = 1 .. Len(queue[s])
      /\ \A i \in DOMAIN queue'[s] : queue'[s][i] = queue[s][i + 1]
  BY <1>1
<1>3. \A i \in DOMAIN queue[s] : Saves(s, i, c) => i # 1
  BY <1>1 DEF Saves
<1>4. \A i \in DOMAIN queue[s] : i # 1 =>
         i > 1 /\ i - 1 \in DOMAIN queue'[s] /\ queue'[s][i - 1] = queue[s][i]
  BY <1>1, <1>2
<1>5. \A i \in DOMAIN queue'[s] : i + 1 \in DOMAIN queue[s]
  BY <1>1, <1>2
<1> QED
  BY <1>2, <1>3, <1>4, <1>5 DEF QueueRests, Old

\* The same for all queues.
LEMMA TakesRests ==
    ASSUME TypeOK, NEW s \in Servers, NEW op, Takes(s, op), NEW c,
           op \notin {"backup", "logout"} \/ Head(queue[s]).id # c
    PROVE  \A t \in Servers : QueueRests(t, c)
<1>1. queue[s] # <<>> /\ queue'[s] = Tail(queue[s]) /\ Head(queue[s]).op = op
  BY DEF Takes, TypeOK
<1>2. QueueRests(s, c)
  BY <1>1, TailRests
<1>3. ASSUME NEW t \in Servers \ {s} PROVE QueueRests(t, c)
  BY <1>3, QueueSameRests DEF Takes, TypeOK
<1> QED
  BY <1>2, <1>3

\* Queries that are no saves of c are queued.
LEMMA EnqueueRests ==
    ASSUME TypeOK, NEW s \in Servers, NEW qs \in Seq(Query), Enqueue(s, qs), NEW c,
           \A i \in 1 .. Len(qs) : ~(qs[i].op \in {"backup", "logout"} /\ qs[i].id = c)
    PROVE  \A t \in Servers : QueueRests(t, c)
<1>1. /\ queue[s] \in Seq(Query) /\ queue'[s] = queue[s] \o qs
      /\ \A t \in Servers \ {s} : queue'[t] = queue[t]
  BY DEF Enqueue, TypeOK
<1>2. ASSUME NEW t \in Servers \ {s} PROVE QueueRests(t, c)
  BY <1>1, QueueSameRests
<1>3. QueueRests(s, c)
  <2>1. /\ DOMAIN queue[s] = 1 .. Len(queue[s]) /\ Len(queue[s]) \in Nat
        /\ DOMAIN queue'[s] = 1 .. Len(queue[s]) + Len(qs) /\ Len(qs) \in Nat
        /\ \A i \in DOMAIN queue[s] : queue'[s][i] = queue[s][i]
        /\ \A i \in 1 .. Len(qs) : queue'[s][Len(queue[s]) + i] = qs[i]
    BY <1>1
  <2>2. ASSUME NEW i \in DOMAIN queue'[s], Saves(s, i, c)' PROVE i \in DOMAIN queue[s]
    <3> SUFFICES ASSUME i > Len(queue[s]) PROVE FALSE
      BY <2>1
    <3>1. i - Len(queue[s]) \in 1 .. Len(qs) /\ Len(queue[s]) + (i - Len(queue[s])) = i
      BY <2>1
    <3>2. queue'[s][i] = qs[i - Len(queue[s])]
      BY <2>1, <3>1
    <3> QED
      BY <2>2, <3>1, <3>2 DEF Saves
  <2>3. \A i \in DOMAIN queue'[s] : i + 0 = i
    BY <2>1
  <2>4. \A i \in DOMAIN queue[s] : i > 0 /\ i - 0 = i /\ i \in DOMAIN queue'[s]
    BY <2>1
  <2>5. ASSUME NEW i \in DOMAIN queue'[s], Saves(s, i, c)', NEW j \in DOMAIN queue'[s], j <= i
        PROVE  queue'[s][j] = queue[s][j]
    <3>1. i \in DOMAIN queue[s]
      BY <2>2, <2>5
    <3>2. j \in DOMAIN queue[s]
      BY <2>1, <2>5, <3>1
    <3> QED
      BY <2>1, <3>2
  <2> QED
    BY <2>1, <2>2, <2>3, <2>4, <2>5 DEF QueueRests, Old
<1> QED
  BY <1>2, <1>3

\* A step on one slot that neither makes nor destroys a copy of c, nor gains it anything.
LEMMA SlotRests ==
    ASSUME TypeOK, NEW s \in Servers, NEW n \in Slots, NEW x, ch' = [ch EXCEPT ![s][n] = x], NEW c,
           (x.used /\ x.id = c) <=> Holds(s, n, c), Holds(s, n, c) => x.data = ch[s][n].data
    PROVE  \A t \in Servers : CopiesRest(t, c)
<1>1. ch'[s][n] = x /\ \A t \in Servers, m \in Slots : t # s \/ m # n => ch'[t][m] = ch[t][m]
  BY DEF TypeOK
<1> QED
  BY <1>1 DEF CopiesRest, Holds

\* A step that changes who plays a copy, or whether he is lost, and nothing else of it.
LEMMA SlotStays ==
    ASSUME TypeOK, NEW s \in Servers, NEW n \in Slots, NEW x, ch' = [ch EXCEPT ![s][n] = x], NEW c,
           x.used = ch[s][n].used, x.id = ch[s][n].id, x.data = ch[s][n].data
    PROVE  \A t \in Servers : CopiesRest(t, c)
<1>1. (x.used /\ x.id = c) <=> Holds(s, n, c)
  BY DEF Holds
<1> QED
  BY <1>1, SlotRests

\* A server whose slots nothing is done to.
LEMMA CopiesSame ==
    ASSUME TypeOK, NEW s \in Servers, ch'[s] = ch[s], NEW c
    PROVE  CopiesRest(s, c)
  BY DEF CopiesRest, Holds

\* A login slot that nothing is done to, where no copy of c is made.
LEMMA LoginSame ==
    ASSUME TypeOK, NEW s \in Servers, login'[s] = login[s], NEW c,
           \A n \in Slots : Holds(s, n, c)' => Holds(s, n, c)
    PROVE  LoginRests(s, c)
<1>1. login[s].status = "ok" => login[s].cn \in Slots
  BY DEF TypeOK, LoginType
<1>2. Unclaimed(s, c)' => Unclaimed(s, c)
  <2> SUFFICES ASSUME Unclaimed(s, c)' PROVE Unclaimed(s, c)
    OBVIOUS
  <2>1. /\ login[s].status = "ok" /\ ~login[s].usurped /\ login[s].cn \in Slots
        /\ ch'[s][login[s].cn].used /\ ch'[s][login[s].cn].id = c
    BY <1>1 DEF Unclaimed, Holds
  <2>2. Holds(s, login[s].cn, c)
    BY <2>1 DEF Holds
  <2> QED
    BY <2>1, <2>2 DEF Unclaimed
<1> QED
  BY <1>2 DEF LoginRests, Creating

\* A request that is over, or not answered yet.
LEMMA LoginOver ==
    ASSUME NEW s \in Servers, login'[s].status \notin {"create", "ok"}, NEW c
    PROVE  LoginRests(s, c)
  BY DEF LoginRests, Creating, Unclaimed

\* A step of one server's memory and queue, as far as the others go.
LEMMA OthersRest ==
    ASSUME TypeOK, NEW s \in Servers, NEW c,
           \A t \in Servers \ {s} : queue'[t] = queue[t] /\ ch'[t] = ch[t] /\ login'[t] = login[t]
    PROVE  ElseRests(s, c)
<1> SUFFICES ASSUME NEW t \in Servers \ {s} PROVE Rests(t, c)
  BY DEF ElseRests
<1>1. CopiesRest(t, c) /\ \A n \in Slots : Holds(t, n, c)' => Holds(t, n, c)
  BY CopiesSame DEF CopiesRest
<1> QED
  BY <1>1, QueueSameRests, LoginSame DEF Rests

\* A save reaches the row: its server owns it, and nothing queued before it takes it away.
Ordered(s, i, c) == row[c].cur = s /\ \A j \in DOMAIN queue[s] : j < i => ~Frees(s, j, c)

\* Every logout will find the row.
LogoutSafe(c) == \A s \in Servers : \A i \in DOMAIN queue[s] :
    Saves(s, i, c) /\ queue[s][i].op = "logout" => Ordered(s, i, c)

-----------------------------------------------------------------------------

\* What is queued, and where.
LEMMA QueueTypes ==
    ASSUME TypeOK, NEW s \in Servers
    PROVE  /\ queue[s] \in Seq(Query) /\ Len(queue[s]) \in Nat /\ DOMAIN queue[s] = 1 .. Len(queue[s])
           /\ \A i \in DOMAIN queue[s] : i \in Nat /\ i > 0 /\ queue[s][i] \in Query /\ queue[s][i].data \in Nat
<1>1. queue[s] \in Seq(Query)
  BY DEF TypeOK
<1>2. \A q \in Query : q.data \in Nat
  BY DEF Query
<1> QED
  BY <1>1, <1>2

\* The same after the step.
LEMMA QueueTypesNext ==
    ASSUME TypeOK', NEW s \in Servers
    PROVE  /\ queue'[s] \in Seq(Query) /\ Len(queue'[s]) \in Nat /\ DOMAIN queue'[s] = 1 .. Len(queue'[s])
           /\ \A i \in DOMAIN queue'[s] : i \in Nat /\ i > 0 /\ queue'[s][i] \in Query /\ queue'[s][i].data \in Nat
<1>1. queue'[s] \in Seq(Query)
  BY DEF TypeOK
<1>2. \A q \in Query : q.data \in Nat
  BY DEF Query
<1> QED
  BY <1>1, <1>2

\* What was before an old query is before it still.
LEMMA OldOrder ==
    ASSUME TypeOK, TypeOK', NEW s \in Servers, NEW d \in {0, 1}, NEW i \in DOMAIN queue'[s], Old(s, i, d)
    PROVE  /\ i + d \in DOMAIN queue[s] /\ queue'[s][i] = queue[s][i + d]
           /\ \A j \in DOMAIN queue'[s] : j < i =>
                 j + d \in DOMAIN queue[s] /\ j + d < i + d /\ queue'[s][j] = queue[s][j + d]
<1>1. /\ DOMAIN queue[s] = 1 .. Len(queue[s]) /\ DOMAIN queue'[s] = 1 .. Len(queue'[s])
      /\ Len(queue[s]) \in Nat /\ Len(queue'[s]) \in Nat
  BY QueueTypes, QueueTypesNext
<1>2. i + d \in DOMAIN queue[s] /\ queue'[s][i] = queue[s][i + d]
  BY <1>1 DEF Old
<1>3. ASSUME NEW j \in DOMAIN queue'[s], j < i
      PROVE  j + d \in DOMAIN queue[s] /\ j + d < i + d /\ queue'[s][j] = queue[s][j + d]
  BY <1>1, <1>2, <1>3 DEF Old
<1> QED
  BY <1>2, <1>3

\* So an old query that nothing before it took the row from keeps it.
LEMMA OrderKept ==
    ASSUME TypeOK, TypeOK', NEW s \in Servers, NEW d \in {0, 1}, NEW i \in DOMAIN queue'[s], Old(s, i, d),
           NEW c, Ordered(s, i + d, c), row'[c].cur = row[c].cur
    PROVE  Ordered(s, i, c)'
<1>1. \A j \in DOMAIN queue'[s] : j < i => ~Frees(s, j, c)'
  BY OldOrder DEF Ordered, Frees
<1> QED
  BY <1>1 DEF Ordered

\* Each query of a longer queue is the last, or was there.
LEMMA AppendOld ==
    ASSUME TypeOK, NEW s \in Servers, NEW q \in Query, queue'[s] = Append(queue[s], q)
    PROVE  /\ Len(queue[s]) + 1 \in DOMAIN queue'[s] /\ queue'[s][Len(queue[s]) + 1] = q
           /\ \A i \in DOMAIN queue[s] : i \in DOMAIN queue'[s] /\ queue'[s][i] = queue[s][i]
           /\ \A i \in DOMAIN queue'[s] : i = Len(queue[s]) + 1 \/ Old(s, i, 0)
<1>1. /\ queue[s] \in Seq(Query) /\ Len(queue[s]) \in Nat /\ DOMAIN queue[s] = 1 .. Len(queue[s])
  BY QueueTypes
<1>2. /\ DOMAIN queue'[s] = 1 .. Len(queue[s]) + 1 /\ queue'[s][Len(queue[s]) + 1] = q
      /\ \A i \in 1 .. Len(queue[s]) : queue'[s][i] = queue[s][i]
  BY <1>1
<1>3. ASSUME NEW i \in DOMAIN queue'[s], i # Len(queue[s]) + 1 PROVE Old(s, i, 0)
  <2>1. i \in 1 .. Len(queue[s]) /\ i + 0 = i
    BY <1>1, <1>2, <1>3
  <2>2. \A j \in DOMAIN queue'[s] : j <= i => j \in 1 .. Len(queue[s]) /\ j + 0 = j
    BY <1>1, <1>2, <2>1
  <2> QED
    BY <1>1, <1>2, <2>1, <2>2 DEF Old
<1> QED
  BY <1>1, <1>2, <1>3

\* What is behind the first query moves up.
LEMMA TailOld ==
    ASSUME TypeOK, NEW s \in Servers, queue[s] # <<>>, queue'[s] = Tail(queue[s])
    PROVE  /\ \A i \in DOMAIN queue'[s] : Old(s, i, 1)
           /\ \A i \in DOMAIN queue[s] : i # 1 => i - 1 \in DOMAIN queue'[s] /\ queue'[s][i - 1] = queue[s][i]
           /\ 1 \in DOMAIN queue[s] /\ Head(queue[s]) = queue[s][1]
<1>1. /\ queue[s] \in Seq(Query) /\ Len(queue[s]) \in Nat \ {0} /\ DOMAIN queue[s] = 1 .. Len(queue[s])
  BY QueueTypes
<1>2. /\ DOMAIN queue'[s] = 1 .. Len(queue[s]) - 1
      /\ \A i \in DOMAIN queue'[s] : queue'[s][i] = queue[s][i + 1]
  BY <1>1
<1>3. \A i \in DOMAIN queue'[s] : i + 1 \in DOMAIN queue[s]
  BY <1>1, <1>2
<1>4. \A i \in DOMAIN queue[s] : i # 1 => i - 1 \in DOMAIN queue'[s] /\ queue'[s][i - 1] = queue[s][i]
  BY <1>1, <1>2
<1> QED
  BY <1>1, <1>2, <1>3, <1>4 DEF Old

\* What save_char queues.
LEMMA SaveIsQuery ==
    ASSUME TypeOK, NEW c \in Chars, NEW s \in Servers, NEW n \in Slots, NEW op \in {"backup", "logout"}, NEW a \in Nat
    PROVE  SaveOf(s, n, c, op, a) \in Query
<1>1. ch[s][n].data \in Nat
  BY DEF TypeOK, SlotType
<1> QED
  BY <1>1 DEF SaveOf, Query, About

-----------------------------------------------------------------------------
(* A logout that is queued reaches the row.                                    *)

\* A logout where the saves rest.
LEMMA RestsOrder ==
    ASSUME TypeOK, TypeOK', NEW c, NEW s \in Servers, QueueRests(s, c), LogoutSafe(c), row'[c].cur = row[c].cur,
           NEW i \in DOMAIN queue'[s], Saves(s, i, c)', queue'[s][i].op = "logout"
    PROVE  Ordered(s, i, c)'
<1>1. PICK d \in {0, 1} : Old(s, i, d)
  BY DEF QueueRests
<1>2. i + d \in DOMAIN queue[s] /\ queue'[s][i] = queue[s][i + d]
  BY <1>1, OldOrder
<1>3. Ordered(s, i + d, c)
  BY <1>2 DEF LogoutSafe, Saves
<1> QED
  BY <1>1, <1>3, OrderKept

\* Whatever is done to c, its logouts still find the row.
LEMMA LogoutStep ==
    ASSUME TypeOK, TypeOK', NEW c \in Chars, DownSafe, CopySafe(c), LogoutSafe(c), Handled(c)
    PROVE  LogoutSafe(c)'
<1> SUFFICES ASSUME NEW t \in Servers, NEW i \in DOMAIN queue'[t], Saves(t, i, c)', queue'[t][i].op = "logout"
             PROVE  Ordered(t, i, c)'
  BY DEF LogoutSafe
<1>1. ASSUME QueueRests(t, c), row'[c].cur = row[c].cur PROVE Ordered(t, i, c)'
  BY <1>1, RestsOrder
<1>2. ASSUME QueueRests(t, c), \A j \in DOMAIN queue[t] : ~(Saves(t, j, c) /\ queue[t][j].op = "logout") PROVE FALSE
  <2>1. PICK d \in {0, 1} : Old(t, i, d)
    BY <1>2 DEF QueueRests
  <2>2. i + d \in DOMAIN queue[t] /\ queue'[t][i] = queue[t][i + d]
    BY <2>1, OldOrder
  <2> QED
    BY <1>2, <2>2 DEF Saves
<1>3. CASE Untouched(c) \/ Worked(c) \/ Made(c) \/ Dropped(c)
  <2>1. QueueRests(t, c) /\ row'[c].cur = row[c].cur
    BY <1>3 DEF Untouched, Worked, Made, Dropped, RowRests, ElseRests, Rests
  <2> QED
    BY <1>1, <2>1
<1>4. CASE Kicked(c) \/ Backed(c)
  <2>1. PICK s \in Servers, n \in Slots, op \in {"backup", "logout"}, a \in Nat :
           /\ RowRests(c) /\ ElseRests(s, c) /\ queue'[s] = Append(queue[s], SaveOf(s, n, c, op, a))
           /\ op = "logout" => Holds(s, n, c)
    BY <1>4, AreasAreNumbers DEF Kicked, Backed
  <2>2. CASE t # s
    BY <1>1, <2>1, <2>2 DEF ElseRests, Rests, RowRests
  <2>3. CASE t = s
    <3> DEFINE q == SaveOf(s, n, c, op, a)
    <3>1. q \in Query /\ q.op = op
      BY SaveIsQuery DEF SaveOf
    <3> HIDE DEF q
    <3>2. /\ queue'[s][Len(queue[s]) + 1] = q /\ (i = Len(queue[s]) + 1 \/ Old(s, i, 0))
          /\ \A j \in DOMAIN queue[s] : queue'[s][j] = queue[s][j]
      BY <2>1, <2>3, <3>1, AppendOld DEF q
    <3>3. CASE Old(s, i, 0)
      <4>1. i + 0 \in DOMAIN queue[s] /\ queue'[s][i] = queue[s][i + 0]
        BY <2>3, <3>3, OldOrder
      <4>2. Ordered(s, i + 0, c)
        BY <2>3, <4>1 DEF LogoutSafe, Saves
      <4> QED
        BY <2>1, <2>3, <3>3, <4>2, OrderKept DEF RowRests
    <3>4. CASE i = Len(queue[s]) + 1
      <4>1. Holds(s, n, c)
        BY <2>1, <2>3, <3>1, <3>2, <3>4
      <4>2. row[c].cur = s /\ ~Leaving(s, c)
        BY <4>1 DEF CopySafe
      <4>3. \A j \in DOMAIN queue'[s] : j < i => j \in DOMAIN queue[s]
        BY <3>4, QueueTypes, QueueTypesNext
      <4> QED
        BY <2>1, <2>3, <3>2, <4>2, <4>3 DEF Ordered, RowRests, Leaving, Frees
    <3> QED
      BY <3>2, <3>3, <3>4
  <2> QED
    BY <2>2, <2>3
<1>5. CASE Lost(c)
  <2>1. PICK s \in Servers : RowRests(c) /\ ElseRests(s, c) /\ queue'[s] = <<>>
    BY <1>5 DEF Lost
  <2>2. t # s
    BY <2>1
  <2> QED
    BY <1>1, <2>1, <2>2 DEF ElseRests, Rests, RowRests
<1>6. CASE Stored(c)
  <2>1. PICK s \in Servers, op \in {"backup", "logout"} :
          /\ ElseRests(s, c) /\ Executed(s, c, op) /\ queue'[s] = Tail(queue[s])
          /\ row'[c].cur = row[c].cur \/ (row[c].cur = s /\ op = "logout")
    BY <1>6 DEF Stored, RowRests
  <2>2. CASE t # s
    <3>1. QueueRests(t, c)
      BY <2>1, <2>2 DEF ElseRests, Rests
    <3>2. row[c].cur = s => \A j \in DOMAIN queue[t] : ~(Saves(t, j, c) /\ queue[t][j].op = "logout")
      BY <2>2 DEF LogoutSafe, Ordered
    <3> QED
      BY <1>1, <1>2, <2>1, <3>1, <3>2
  <2>3. CASE t = s
    <3>1. /\ Old(s, i, 1) /\ 1 \in DOMAIN queue[s] /\ Head(queue[s]) = queue[s][1]
      BY <2>1, <2>3, TailOld DEF Executed
    <3>2. i + 1 \in DOMAIN queue[s] /\ queue'[s][i] = queue[s][i + 1] /\ 1 < i + 1
      BY <2>3, <3>1, OldOrder, QueueTypesNext
    <3>3. Ordered(s, i + 1, c)
      BY <2>3, <3>2 DEF LogoutSafe, Saves
    <3>4. op # "logout"
      BY <2>1, <3>1, <3>2, <3>3 DEF Ordered, Frees, Executed
    <3> QED
      BY <2>1, <2>3, <3>1, <3>3, <3>4, OrderKept
  <2> QED
    BY <2>2, <2>3
<1>7. CASE Released(c)
  <2>1. PICK s \in Servers : row[c].cur = s /\ Executed(s, c, "release") /\ Freeing(c)
    BY <1>7 DEF Released
  <2>2. QueueRests(t, c)
    BY <2>1 DEF Freeing, Rests
  <2>3. ASSUME NEW j \in DOMAIN queue[t], Saves(t, j, c), queue[t][j].op = "logout" PROVE FALSE
    <3>1. Ordered(t, j, c) /\ t = s
      BY <2>1, <2>3 DEF LogoutSafe, Ordered
    <3>2. 1 \in DOMAIN queue[s] /\ Head(queue[s]) = queue[s][1] /\ j \in Nat /\ j > 0
      BY <2>1, <3>1, QueueTypes DEF Executed
    <3>3. j # 1
      BY <2>1, <2>3, <3>1, <3>2 DEF Executed
    <3>4. 1 < j
      BY <3>2, <3>3
    <3> QED
      BY <2>1, <3>1, <3>2, <3>4 DEF Ordered, Frees, Executed
  <2> QED
    BY <1>2, <2>2, <2>3
<1>8. CASE Swept(c)
  <2>1. PICK s \in Servers : row[c].cur = s /\ run[s] = "down" /\ Freeing(c)
    BY <1>8 DEF Swept
  <2>2. QueueRests(t, c)
    BY <2>1 DEF Freeing, Rests
  <2>3. ASSUME NEW j \in DOMAIN queue[t], Saves(t, j, c), queue[t][j].op = "logout" PROVE FALSE
    BY <2>1, <2>3 DEF LogoutSafe, Ordered, DownSafe
  <2> QED
    BY <1>2, <2>2, <2>3
<1>9. CASE Loaded(c)
  <2>1. row[c].cur = None /\ QueueRests(t, c)
    BY <1>9 DEF Loaded, ElseRests, Rests
  <2>2. t # None
    BY NoneAssumption
  <2>3. \A j \in DOMAIN queue[t] : ~(Saves(t, j, c) /\ queue[t][j].op = "logout")
    BY <2>1, <2>2 DEF LogoutSafe, Ordered
  <2> QED
    BY <1>2, <2>1, <2>3
<1> QED
  BY <1>3, <1>4, <1>5, <1>6, <1>7, <1>8, <1>9 DEF Handled

\* A step that leaves the row of c, its saves, its copies and who creates it alone.
LEMMA Quiet ==
    ASSUME TypeOK, NEW c, RowRests(c), \A t \in Servers : QueueRests(t, c), \A t \in Servers : CopiesRest(t, c),
           \A t \in Servers : login'[t] = login[t] \/ login'[t].status \notin {"create", "ok"} \/ LoginRests(t, c)
    PROVE  Handled(c)
<1>1. ASSUME NEW t \in Servers PROVE LoginRests(t, c)
  <2>1. \A n \in Slots : Holds(t, n, c)' => Holds(t, n, c)
    BY DEF CopiesRest
  <2> QED
    BY <2>1, LoginSame, LoginOver
<1> QED
  BY <1>1 DEF Handled, Untouched, Rests

\* kick_char saves a copy of c and frees its slot, or concerns another one.
LEMMA KickHandled ==
    ASSUME TypeOK, NEW c \in Chars, CopySafe(c), NEW s \in Servers, NEW n \in Slots, NEW a \in Areas, NEW gone,
           kick_char(s, n, a, gone), ch[s][n].used \/ ch[s][n].id = None, UNCHANGED <<row, login>>
    PROVE  Handled(c)
<1> DEFINE x == Freed(s, n, gone)
           qs == save_char(s, n, a)
<1>1. a \in Nat \ {0} /\ c # None
  BY ServersAssumption, NoneAssumption DEF Areas, Area
<1>2. qs \in Seq(Query) /\ Enqueue(s, qs) /\ x.used = FALSE /\ ch' = [ch EXCEPT ![s][n] = x]
  BY <1>1, SavesAreQueries, FreedForgets DEF kick_char
<1>3. /\ ch'[s][n] = x /\ \A t \in Servers, m \in Slots : t # s \/ m # n => ch'[t][m] = ch[t][m]
  BY <1>2 DEF TypeOK
<1>4. CASE ch[s][n].id # c
  <2>1. \A i \in 1 .. Len(qs) : ~(qs[i].op \in {"backup", "logout"} /\ qs[i].id = c)
    BY <1>4 DEF save_char
  <2>2. ~Holds(s, n, c)
    BY <1>4 DEF Holds
  <2> HIDE DEF x, qs
  <2>3. \A t \in Servers : QueueRests(t, c)
    BY <1>2, <2>1, EnqueueRests
  <2>4. \A t \in Servers : CopiesRest(t, c)
    BY <1>2, <2>2, SlotRests
  <2> QED
    BY <2>3, <2>4, Quiet DEF RowRests
<1>5. CASE ch[s][n].id = c
  <2>1. Holds(s, n, c)
    BY <1>1, <1>5 DEF Holds
  <2>2. qs = <<SaveOf(s, n, c, "logout", a)>>
    BY <1>1, <1>5 DEF save_char, SaveOf
  <2>3. /\ queue'[s] = Append(queue[s], SaveOf(s, n, c, "logout", a))
        /\ \A t \in Servers \ {s} : queue'[t] = queue[t]
    <3>1. queue[s] \in Seq(Query) /\ queue'[s] = queue[s] \o qs
      BY <1>2 DEF Enqueue, TypeOK
    <3> HIDE DEF qs
    <3>2. queue'[s] = Append(queue[s], SaveOf(s, n, c, "logout", a))
      BY <2>2, <3>1
    <3>3. \A t \in Servers \ {s} : queue'[t] = queue[t]
      BY <1>2, EnqueueAppends
    <3> QED
      BY <3>2, <3>3
  <2> HIDE DEF x, qs
  <2>4. \A m \in Slots : ~Holds(s, m, c)'
    <3>1. \A m \in Slots : Holds(s, m, c) => m = n
      BY <2>1 DEF CopySafe
    <3> QED
      BY <1>2, <1>3, <3>1 DEF Holds
  <2>5. LoginRests(s, c)
    BY <2>4, LoginSame
  <2>6. ElseRests(s, c)
    <3>1. \A t \in Servers \ {s} : ch'[t] = ch[t]
      BY <1>2 DEF TypeOK
    <3> QED
      BY <2>3, <3>1, OthersRest
  <2>7. Kicked(c)
    BY <2>1, <2>3, <2>4, <2>5, <2>6 DEF Kicked, RowRests
  <2> QED
    BY <2>7 DEF Handled
<1> QED
  BY <1>4, <1>5

\* What the game loop does for a client.
LEMMA ClientHandles ==
    ASSUME TypeOK, TypeOK', LinkSafe, NEW c \in Chars, CopySafe(c), NEW k \in Clients, Client(k)
    PROVE  Handled(c)
<1> USE DEF RowRests
<1>0. PICK s : s = conn[k].at
  OBVIOUS
<1>1. /\ conn[k].state # "off" => s \in Servers /\ conn[k].name \in Chars
      /\ conn[k].state = "play" => conn[k].cn \in Slots
  BY <1>0 DEF TypeOK, ConnType
<1>2. c # None
  BY NoneAssumption
<1>3. ASSUME UNCHANGED queue PROVE \A t \in Servers : QueueRests(t, c)
  BY <1>3, QueueSameRests
<1>4. ASSUME UNCHANGED ch PROVE \A t \in Servers : CopiesRest(t, c)
  BY <1>4, CopiesSame
<1>5. ASSUME NEW cleared \in Seq(Query), Waits(k), Ask(k, cleared),
             \A i \in 1 .. Len(cleared) : cleared[i].op \notin {"backup", "logout"}
      PROVE  /\ \A t \in Servers : QueueRests(t, c)
             /\ s \in Servers /\ UNCHANGED row /\ login'[s].status = "read"
             /\ \A t \in Servers \ {s} : login'[t] = login[t] /\ queue'[t] = queue[t]
             /\ \A t \in Servers : login'[t] = login[t] \/ login'[t].status \notin {"create", "ok"}
  <2> DEFINE qs == Append(cleared, Plain("load"))
  <2>1. s \in Servers /\ UNCHANGED row /\ Enqueue(s, qs)
        /\ login' = [login EXCEPT ![s] = [NoLogin EXCEPT !.status = "read", !.name = conn[k].name]]
    BY <1>0, <1>1, <1>5 DEF Ask, Waits
  <2>2. login'[s].status = "read" /\ \A t \in Servers \ {s} : login'[t] = login[t]
    BY <2>1 DEF NoLogin, TypeOK
  <2>3. Plain("load") \in Query /\ Plain("load").op = "load"
    BY PlainIsQuery DEF Plain
  <2>4. qs \in Seq(Query) /\ \A i \in 1 .. Len(qs) : qs[i].op \notin {"backup", "logout"}
    BY <1>5, <2>3
  <2> HIDE DEF qs
  <2> QED
    BY <2>1, <2>2, <2>4, EnqueueRests, EnqueueAppends
<1>50. <<>> \in Seq(Query) /\ 1 .. Len(<<>>) = {}
  OBVIOUS
<1>6. CASE AskEmpty(k)
  <2>1. Waits(k) /\ Ask(k, <<>>) /\ UNCHANGED ch
    BY <1>6 DEF AskEmpty
  <2> QED
    BY <1>4, <1>5, <1>50, <2>1, Quiet
<1>7. CASE AskUsurped(k)
  <2> DEFINE n == login[s].cn
             x == [ch[s][n] EXCEPT !.lost = TRUE]
  <2>1. Waits(k) /\ Ask(k, <<>>) /\ s \in Servers
        /\ n \in Slots /\ ch' = [ch EXCEPT ![s][n] = x]
    BY <1>0, <1>1, <1>7 DEF AskUsurped, Waits, TypeOK, LoginType
  <2>2. ch[s][n] \in SlotType
    BY <2>1 DEF TypeOK
  <2>3. x.used = ch[s][n].used /\ x.id = ch[s][n].id /\ x.data = ch[s][n].data
    BY <2>2 DEF SlotType
  <2> HIDE DEF x, n
  <2>4. \A t \in Servers : CopiesRest(t, c)
    BY <2>1, <2>3, SlotStays
  <2> QED
    BY <1>5, <1>50, <2>1, <2>4, Quiet
<1>8. CASE AskUnclaimed(k)
  <2>0. PICK n : n = login[s].cn
    OBVIOUS
  <2> DEFINE l == login[s]
             cleared == release_char(s, n)
             x == Freed(s, n, None)
  <2>1. /\ Waits(k) /\ s \in Servers /\ l.status = "ok" /\ ~l.usurped /\ n \in Slots /\ Ask(k, cleared)
        /\ ch' = [ch EXCEPT ![s][n] = x]
    BY <1>0, <1>1, <1>8, <2>0 DEF AskUnclaimed, Waits, TypeOK, LoginType
  <2>2. cleared \in Seq(Query) /\ \A i \in 1 .. Len(cleared) : cleared[i].op \notin {"backup", "logout"}
    <3>1. cleared \in Seq(Query)
      BY <2>1, SavesAreQueries, 0 \in Nat
    <3>2. \A i \in 1 .. Len(cleared) : cleared[i].op \notin {"backup", "logout"}
      BY DEF release_char
    <3> QED
      BY <3>1, <3>2
  <2>3. x.used = FALSE
    BY <2>1, FreedForgets
  <2>4. /\ ch'[s][n] = x /\ \A t \in Servers, m \in Slots : t # s \/ m # n => ch'[t][m] = ch[t][m]
        /\ \A t \in Servers \ {s} : ch'[t] = ch[t]
    BY <2>1 DEF TypeOK
  <2> HIDE DEF x, cleared
  <2>5. CASE Holds(s, n, c)
    <3>1. \A m \in Slots : ~Holds(s, m, c)'
      <4>1. \A m \in Slots : Holds(s, m, c) => m = n
        BY <2>1, <2>5 DEF CopySafe
      <4> QED
        BY <2>1, <2>3, <2>4, <4>1 DEF Holds
    <3>2. ElseRests(s, c)
      BY <1>5, <2>1, <2>2, <2>4, OthersRest
    <3>3. Unclaimed(s, c)
      BY <2>0, <2>1, <2>5 DEF Unclaimed
    <3>4. QueueRests(s, c) /\ ~Creating(s, c)' /\ UNCHANGED row
      BY <1>5, <2>1, <2>2 DEF Creating
    <3>5. Dropped(c)
      BY <2>1, <3>1, <3>2, <3>3, <3>4 DEF Dropped
    <3> QED
      BY <3>5 DEF Handled
  <2>6. CASE ~Holds(s, n, c)
    <3>1. \A t \in Servers : CopiesRest(t, c)
      BY <2>1, <2>3, <2>6, SlotRests
    <3> QED
      BY <1>5, <2>1, <2>2, <3>1, Quiet
  <2> QED
    BY <2>5, <2>6
<1>9. ASSUME NEW status, Collects(k, status)
      PROVE  s \in Servers /\ UNCHANGED row /\ \A t \in Servers : login'[t] = login[t] \/ login'[t].status \notin {"create", "ok"}
  <2>1. s \in Servers /\ UNCHANGED row /\ login' = [login EXCEPT ![s] = NoLogin]
    BY <1>0, <1>1, <1>9 DEF Collects, Waits
  <2> QED
    BY <2>1 DEF TypeOK, NoLogin
<1>10. CASE CollectRefusal(k) \/ CollectRedirect(k) \/ CollectGone(k)
  <2>1. UNCHANGED <<queue, ch>> /\ \E status : Collects(k, status)
    BY <1>10 DEF CollectRefusal, CollectRedirect, CollectGone
  <2> QED
    BY <1>3, <1>4, <1>9, <2>1, Quiet
<1>11. CASE CollectRescue(k)
  <2> DEFINE q == [Plain("rescue") EXCEPT !.id = conn[k].name]
  <2>1. Collects(k, "newarea") /\ UNCHANGED ch /\ Enqueue(s, <<q>>)
    BY <1>0, <1>11 DEF CollectRescue
  <2>2. q \in Query /\ q.op = "rescue"
    BY <1>1, <2>1 DEF Plain, Query, About, Collects, Waits
  <2> HIDE DEF q
  <2>3. <<q>> \in Seq(Query) /\ \A i \in 1 .. Len(<<q>>) : <<q>>[i].op \notin {"backup", "logout"}
    BY <2>2
  <2>4. s \in Servers
    BY <1>9, <2>1
  <2>5. \A t \in Servers : QueueRests(t, c)
    BY <2>1, <2>3, <2>4, EnqueueRests
  <2> QED
    BY <1>4, <1>9, <2>1, <2>5, Quiet
<1>12. CASE CollectChar(k)
  <2> DEFINE n == login[s].cn
             x == [ch[s][n] EXCEPT !.player = k, !.lost = FALSE]
  <2>1. Collects(k, "ok") /\ UNCHANGED queue /\ s \in Servers /\ n \in Slots /\ ch' = [ch EXCEPT ![s][n] = x]
    BY <1>0, <1>1, <1>12 DEF CollectChar, Collects, Waits, TypeOK, LoginType
  <2>2. ch[s][n] \in SlotType
    BY <2>1 DEF TypeOK
  <2>3. x.used = ch[s][n].used /\ x.id = ch[s][n].id /\ x.data = ch[s][n].data
    BY <2>2 DEF SlotType
  <2> HIDE DEF x, n
  <2>4. \A t \in Servers : CopiesRest(t, c)
    BY <2>1, <2>3, SlotStays
  <2> QED
    BY <1>3, <1>9, <2>1, <2>4, Quiet
<1>13. CASE Play(k)
  <2>0. PICK n : n = conn[k].cn
    OBVIOUS
  <2> DEFINE y == ch[s][n]
             x == [y EXCEPT !.data = @ + 1]
  <2>1. /\ s \in Servers /\ n \in Slots /\ ch' = [ch EXCEPT ![s][n] = x] /\ UNCHANGED <<row, queue, login>>
    BY <1>0, <1>1, <1>13, <2>0 DEF Play, Plays
  <2>2. y \in SlotType
    BY <2>1 DEF TypeOK
  <2>3. x.used = y.used /\ x.id = y.id /\ x.data = y.data + 1 /\ y.data \in Nat
    BY <2>2 DEF SlotType
  <2>4. x.data > y.data
    BY <2>3
  <2>5. /\ ch'[s][n] = x
        /\ \A t \in Servers, m \in Slots : t # s \/ m # n => ch'[t][m] = ch[t][m]
        /\ \A t \in Servers \ {s} : ch'[t] = ch[t]
    BY <2>1 DEF TypeOK
  <2> HIDE DEF x
  <2>6. CASE Holds(s, n, c)
    <3>1. \A m \in Slots : Holds(s, m, c)' <=> Holds(s, m, c)
      BY <2>1, <2>3, <2>5 DEF Holds
    <3>2. LoginRests(s, c)
      BY <2>1, <3>1, LoginSame
    <3>3. ElseRests(s, c)
      BY <2>1, <2>5, OthersRest
    <3>4. ch'[s][n].data > ch[s][n].data
      BY <2>4, <2>5
    <3>5. Worked(c)
      BY <1>3, <2>1, <2>6, <3>1, <3>2, <3>3, <3>4 DEF Worked
    <3> QED
      BY <3>5 DEF Handled
  <2>7. CASE ~Holds(s, n, c)
    <3>1. \A t \in Servers : CopiesRest(t, c)
      BY <2>1, <2>3, <2>7, SlotRests DEF Holds
    <3> QED
      BY <1>3, <2>1, <3>1, Quiet
  <2> QED
    BY <2>6, <2>7
<1>14. CASE kick_player(k)
  <2> DEFINE n == conn[k].cn
             x == [ch[s][n] EXCEPT !.player = None, !.lost = TRUE]
  <2>1. s \in Servers /\ n \in Slots /\ ch' = [ch EXCEPT ![s][n] = x] /\ UNCHANGED <<row, queue, login>>
    BY <1>0, <1>1, <1>14 DEF kick_player, Plays
  <2>2. ch[s][n] \in SlotType
    BY <2>1 DEF TypeOK
  <2>3. x.used = ch[s][n].used /\ x.id = ch[s][n].id /\ x.data = ch[s][n].data
    BY <2>2 DEF SlotType
  <2> HIDE DEF x, n
  <2>4. \A t \in Servers : CopiesRest(t, c)
    BY <2>1, <2>3, SlotStays
  <2> QED
    BY <1>3, <2>1, <2>4, Quiet
<1>15. CASE GiveUp(k) \/ \E t \in Servers, d \in Chars : Connect(k, t, d)
  <2>1. UNCHANGED <<row, queue, ch, login>>
    BY <1>15 DEF GiveUp, Connect
  <2> QED
    BY <1>3, <1>4, <2>1, Quiet
<1>16. CASE Backup(k)
  <2>0. PICK n : n = conn[k].cn
    OBVIOUS
  <2> DEFINE qs == save_char(s, n, 0)
  <2>1. /\ UNCHANGED <<row, login, ch>> /\ s \in Servers /\ n \in Slots /\ conn[k].state = "play" /\ Enqueue(s, qs)
    BY <1>0, <1>1, <1>16, <2>0 DEF Backup, Plays
  <2>2. qs \in Seq(Query)
    BY <2>1, SavesAreQueries
  <2>3. CASE ch[s][n].id = c
    <3>1. qs = <<SaveOf(s, n, c, "backup", 0)>>
      BY <1>2, <2>3 DEF save_char, SaveOf
    <3>2. queue[s] \in Seq(Query) /\ queue'[s] = queue[s] \o qs /\ \A t \in Servers \ {s} : queue'[t] = queue[t]
      BY <2>1, <2>2, EnqueueAppends DEF Enqueue, TypeOK
    <3> HIDE DEF qs
    <3>3. queue'[s] = Append(queue[s], SaveOf(s, n, c, "backup", 0))
      BY <3>1, <3>2
    <3>4. ElseRests(s, c)
      BY <2>1, <3>2, OthersRest
    <3>5. Backed(c)
      BY <1>0, <2>0, <2>1, <2>3, <3>3, <3>4 DEF Backed
    <3> QED
      BY <3>5 DEF Handled
  <2>4. CASE ch[s][n].id # c
    <3>1. \A i \in 1 .. Len(qs) : ~(qs[i].op \in {"backup", "logout"} /\ qs[i].id = c)
      BY <2>4 DEF save_char
    <3> HIDE DEF qs
    <3>2. \A t \in Servers : QueueRests(t, c)
      BY <2>1, <2>2, <3>1, EnqueueRests
    <3> QED
      BY <1>4, <2>1, <3>2, Quiet
  <2> QED
    BY <2>3, <2>4
<1>17. ASSUME NEW a \in Areas, IdleExit(k, a) PROVE Handled(c)
  <2> DEFINE n == conn[k].cn
  <2>1. /\ UNCHANGED <<row, login>> /\ s \in Servers /\ n \in Slots /\ conn[k].state = "play"
        /\ IF ch[s][n].player = k THEN kick_char(s, n, a, k) ELSE UNCHANGED <<queue, ch>>
    BY <1>0, <1>1, <1>17 DEF IdleExit, Plays
  <2>2. CASE ch[s][n].player = k
    <3>1. ch[s][n].used \/ ch[s][n].id = None
      BY <1>0, <2>1, <2>2 DEF LinkSafe
    <3> HIDE DEF n
    <3> QED
      BY <2>1, <2>2, <3>1, KickHandled
  <2>3. CASE ch[s][n].player # k
    BY <1>3, <1>4, <2>1, <2>3, Quiet
  <2> QED
    BY <2>2, <2>3
<1> QED
  BY <1>6, <1>7, <1>8, <1>10, <1>11, <1>12, <1>13, <1>14, <1>15, <1>16, <1>17 DEF Client, Poll

\* What the game loop does with a slot.
LEMMA SlotHandles ==
    ASSUME NoBareKick, TypeOK, NEW c \in Chars, CopySafe(c), NEW s \in Servers, NEW n \in Slots, Slot(s, n)
    PROVE  Handled(c)
<1>1. ASSUME NEW a \in Areas, change_area(s, n, a) \/ exit_char(s, n, a) PROVE Handled(c)
  <2>1. UNCHANGED <<row, login>> /\ ch[s][n].used /\ kick_char(s, n, a, ch[s][n].player)
    BY <1>1 DEF change_area, exit_char, PlayerCopy
  <2> QED
    BY <2>1, KickHandled
<1>2. CASE SpawnNpc(s, n) \/ NpcDies(s, n)
  <2>1. PICK x : /\ UNCHANGED <<row, queue, login>> /\ ch' = [ch EXCEPT ![s][n] = x]
                 /\ ch[s][n].used => ch[s][n].id = None
                 /\ x.used => x.id = None
    <3>1. CASE SpawnNpc(s, n)
      <4>1. [FreeSlot EXCEPT !.used = TRUE].id = None
        BY DEF FreeSlot
      <4> QED
        BY <3>1, <4>1 DEF SpawnNpc
    <3>2. CASE NpcDies(s, n)
      <4>1. Freed(s, n, None).used = FALSE
        BY FreedForgets
      <4> QED
        BY <3>2, <4>1 DEF NpcDies
    <3> QED
      BY <1>2, <3>1, <3>2
  <2>2. c # None
    BY NoneAssumption
  <2>3. \A t \in Servers : CopiesRest(t, c)
    <3>1. ~(x.used /\ x.id = c) /\ ~Holds(s, n, c)
      BY <2>1, <2>2 DEF Holds
    <3> QED
      BY <2>1, <3>1, SlotRests
  <2>4. \A t \in Servers : QueueRests(t, c)
    BY <2>1, QueueSameRests
  <2> QED
    BY <2>1, <2>3, <2>4, Quiet DEF RowRests
<1> QED
  BY <1>1, <1>2 DEF Slot, LostconExit, BareKick, NoBareKick

\* What tick_login does.
LEMMA TickHandles ==
    ASSUME TypeOK, NEW c \in Chars, CopySafe(c), CreationSafe(c), NEW s \in Servers, tick_login(s)
    PROVE  Handled(c)
<1> USE DEF RowRests
<1>1. login[s] \in LoginType /\ c # None
  BY NoneAssumption DEF TypeOK
<1>2. ASSUME UNCHANGED queue PROVE \A t \in Servers : QueueRests(t, c)
  BY <1>2, QueueSameRests
<1>3. ASSUME UNCHANGED ch PROVE \A t \in Servers : CopiesRest(t, c)
  BY <1>3, CopiesSame
<1>4. ASSUME Fails(s) PROVE \A t \in Servers : login'[t] = login[t] \/ login'[t].status \notin {"create", "ok"}
  BY <1>4 DEF Fails, NoLogin, TypeOK
<1>5. ASSUME NEW n, NEW u, Succeeds(s, n, u)
      PROVE  /\ login'[s].status = "ok" /\ login'[s].cn = n /\ login'[s].usurped = u
             /\ \A t \in Servers \ {s} : login'[t] = login[t]
  BY <1>5 DEF Succeeds, NoLogin, TypeOK
<1>6. CASE Usurp(s)
  <2>1. PICK n \in Slots : /\ UNCHANGED <<row, queue>> /\ Succeeds(s, n, TRUE)
                           /\ ch' = [ch EXCEPT ![s][n] = [@ EXCEPT !.player = None, !.lost = FALSE]]
    BY <1>6 DEF Usurp
  <2> DEFINE x == [ch[s][n] EXCEPT !.player = None, !.lost = FALSE]
  <2>2. ch[s][n] \in SlotType
    BY DEF TypeOK
  <2>3. x.used = ch[s][n].used /\ x.id = ch[s][n].id /\ x.data = ch[s][n].data
    BY <2>2 DEF SlotType
  <2>4. ch' = [ch EXCEPT ![s][n] = x]
    BY <2>1
  <2> HIDE DEF x
  <2>5. \A t \in Servers : CopiesRest(t, c)
    BY <2>3, <2>4, SlotStays
  <2>6. LoginRests(s, c)
    BY <1>5, <2>1 DEF LoginRests, Creating, Unclaimed
  <2> QED
    BY <1>2, <1>5, <2>1, <2>5, <2>6, Quiet
<1>7. CASE UsurpGone(s) \/ CreateNoSlot(s)
  <2>1. UNCHANGED <<row, queue, ch>> /\ Fails(s)
    BY <1>7 DEF UsurpGone, CreateNoSlot
  <2> QED
    BY <1>2, <1>3, <1>4, <2>1, Quiet
<1>8. ASSUME NEW n \in Slots, NEW x, ~ch[s][n].used, ch' = [ch EXCEPT ![s][n] = x], login[s].name # c, x.id = login[s].name
      PROVE  (\A t \in Servers : CopiesRest(t, c)) /\ ~Holds(s, n, c)'
  <2>1. ~(x.used /\ x.id = c) /\ ~Holds(s, n, c)
    BY <1>8 DEF Holds
  <2>2. ch'[s][n] = x
    BY <1>8 DEF TypeOK
  <2>3. \A t \in Servers : CopiesRest(t, c)
    BY <1>8, <2>1, SlotRests
  <2> QED
    BY <1>8, <2>2, <2>3 DEF Holds
<1>9. ASSUME NEW n \in Slots, NEW x, Creates(s), ~login[s].current, ~ch[s][n].used, ch' = [ch EXCEPT ![s][n] = x],
             login[s].name = c, x.used, x.id = c, NoAllocFail => x.data = login[s].data,
             UNCHANGED <<row, queue>>, login'[s].status # "create", \A t \in Servers \ {s} : login'[t] = login[t]
      PROVE  Handled(c)
  <2>1. Creating(s, c) /\ ~Creating(s, c)'
    BY <1>9 DEF Creating, Creates
  <2>2. ch'[s][n] = x /\ (\A t \in Servers, m \in Slots : t # s \/ m # n => ch'[t][m] = ch[t][m])
        /\ \A t \in Servers \ {s} : ch'[t] = ch[t]
    BY <1>9 DEF TypeOK
  <2>3. Holds(s, n, c)'
    BY <1>9, <2>2 DEF Holds
  <2>4. \A m \in Slots : Holds(s, m, c)' => m = n
    <3>1. \A m \in Slots : ~Holds(s, m, c)
      BY <2>1 DEF CreationSafe
    <3> QED
      BY <2>2, <3>1 DEF Holds
  <2>5. ElseRests(s, c)
    BY <1>9, <2>2, OthersRest
  <2>6. Made(c)
    BY <1>2, <1>9, <2>1, <2>2, <2>3, <2>4, <2>5 DEF Made
  <2> QED
    BY <2>6 DEF Handled
<1>10. CASE Create(s)
  <2>1. PICK n \in Slots : /\ UNCHANGED <<row, queue>> /\ Succeeds(s, n, FALSE) /\ ~ch[s][n].used
                           /\ ch' = [ch EXCEPT ![s][n] = Copy(s)] /\ Creates(s) /\ ~login[s].current
    BY <1>10 DEF Create
  <2>2. Copy(s).used /\ Copy(s).id = login[s].name /\ Copy(s).data = login[s].data
    BY DEF Copy, FreeSlot
  <2>3. CASE login[s].name = c
    BY <1>5, <1>9, <2>1, <2>2, <2>3
  <2>4. CASE login[s].name # c
    <3>1. (\A t \in Servers : CopiesRest(t, c)) /\ ~Holds(s, n, c)'
      BY <1>8, <2>1, <2>2, <2>4
    <3>2. ~Unclaimed(s, c)'
      BY <1>5, <2>1, <3>1 DEF Unclaimed, Holds
    <3>3. LoginRests(s, c)
      BY <1>5, <2>1, <3>2 DEF LoginRests, Creating
    <3> QED
      BY <1>2, <1>5, <2>1, <3>1, <3>3, Quiet
  <2> QED
    BY <2>3, <2>4
<1>11. CASE CreateNoItem(s)
  <2>1. PICK n \in Slots : /\ UNCHANGED <<row, queue>> /\ Fails(s) /\ ~ch[s][n].used
                           /\ ch' = [ch EXCEPT ![s][n] = [Copy(s) EXCEPT !.data = 0]]
                           /\ Creates(s) /\ ~login[s].current /\ ~NoAllocFail
    BY <1>11 DEF CreateNoItem, NoAllocFail
  <2> DEFINE x == [Copy(s) EXCEPT !.data = 0]
  <2>2. x.used /\ x.id = login[s].name
    BY DEF Copy, FreeSlot
  <2>3. ch' = [ch EXCEPT ![s][n] = x]
    BY <2>1
  <2> HIDE DEF x
  <2>4. CASE login[s].name = c
    <3>1. login'[s].status # "create" /\ \A t \in Servers \ {s} : login'[t] = login[t]
      BY <2>1 DEF Fails, NoLogin, TypeOK
    <3> QED
      BY <1>9, <2>1, <2>2, <2>3, <2>4, <3>1
  <2>5. CASE login[s].name # c
    BY <1>2, <1>4, <1>8, <2>1, <2>2, <2>3, <2>5, Quiet
  <2> QED
    BY <2>4, <2>5
<1>12. CASE CreateNoRoom(s)
  <2> DEFINE q == [op |-> "release", id |-> login[s].name, data |-> 0, area |-> 0]
  <2>1. PICK n \in Slots : /\ UNCHANGED row /\ Enqueue(s, <<q>>) /\ login[s].status = "create" /\ Fails(s)
                           /\ ~ch[s][n].used /\ ch' = [ch EXCEPT ![s][n] = FreeSlot]
    BY <1>12 DEF CreateNoRoom, Creates
  <2>2. q \in Query /\ q.op = "release"
    <3>1. login[s].name \in Chars
      BY <1>1, <2>1 DEF LoginType
    <3> QED
      BY <3>1 DEF Query, About
  <2> HIDE DEF q
  <2>3. <<q>> \in Seq(Query) /\ \A i \in 1 .. Len(<<q>>) : <<q>>[i].op \notin {"backup", "logout"}
    BY <2>2
  <2>4. \A t \in Servers : QueueRests(t, c)
    BY <2>1, <2>3, EnqueueRests
  <2>5. \A t \in Servers : CopiesRest(t, c)
    <3>1. ~(FreeSlot.used /\ FreeSlot.id = c) /\ ~Holds(s, n, c)
      BY <2>1 DEF Holds, FreeSlot
    <3> QED
      BY <2>1, <3>1, SlotRests
  <2> QED
    BY <1>4, <2>1, <2>4, <2>5, Quiet
<1> QED
  BY <1>6, <1>7, <1>10, <1>11, <1>12 DEF tick_login

\* What the database thread does.
LEMMA ThreadHandles ==
    ASSUME TypeOK, NEW c \in Chars, c \notin strayed', NEW s \in Servers, db_thread(s)
    PROVE  Handled(c)
<1>1. /\ login[s] \in LoginType /\ c # None /\ s # None
      /\ row \in [Chars -> [cur : Servers \cup {None}, allowed : Nat, data : Nat]]
  BY NoneAssumption DEF TypeOK
<1>2. UNCHANGED ch /\ \A t \in Servers : CopiesRest(t, c)
  <2>1. UNCHANGED ch
    BY DEF db_thread, DoBackup, DoLogout, DoRelease, LoadRefused, LoadElsewhere, LoadOtherMirror, LoadHere,
         Loads, DoRescue, DoAlive, DoArealist
  <2> QED
    BY <2>1, CopiesSame
<1>3. ASSUME NEW op \in {"release", "load", "rescue", "alive", "dead", "arealist"}, Takes(s, op)
      PROVE  \A t \in Servers : QueueRests(t, c)
  BY <1>3, TakesRests
<1>4. ASSUME UNCHANGED login PROVE \A t \in Servers : LoginRests(t, c)
  <2>1. ASSUME NEW t \in Servers PROVE LoginRests(t, c)
    <3>1. \A n \in Slots : Holds(t, n, c)' => Holds(t, n, c)
      BY <1>2 DEF CopiesRest
    <3> QED
      BY <1>4, <3>1, LoginSame
  <2> QED
    BY <2>1
<1>5. ASSUME NEW op, Takes(s, op)
      PROVE  /\ queue[s] # <<>> /\ Head(queue[s]).op = op /\ queue'[s] = Tail(queue[s])
             /\ \A t \in Servers \ {s} : queue'[t] = queue[t]
  BY <1>5, TakesShifts DEF Takes, TypeOK
<1>6. CASE DoBackup(s) \/ DoLogout(s)
  <2>1. PICK op \in {"backup", "logout"} : (op = "backup" /\ DoBackup(s)) \/ (op = "logout" /\ DoLogout(s))
    BY <1>6
  <2>2. Takes(s, op) /\ UNCHANGED login
    BY <2>1 DEF DoBackup, DoLogout
  <2> DEFINE q == Head(queue[s])
  <2>3. CASE q.id = c
    <3>1. Executed(s, c, op)
      BY <1>5, <2>2, <2>3 DEF Executed
    <3>2. ElseRests(s, c)
      BY <1>2, <1>5, <2>2, OthersRest
    <3>3. IF row[c].cur = s
          THEN row'[c].cur = (IF op = "logout" THEN None ELSE s) /\ row'[c].data = q.data
          ELSE row'[c] = row[c]
      <4> HIDE DEF q
      <4>1. CASE op = "backup"
        <5>1. row' = IF row[c].cur = s THEN [row EXCEPT ![c].data = q.data] ELSE row
          BY <2>1, <2>3, <4>1 DEF DoBackup, Mine, q
        <5> QED
          BY <1>1, <4>1, <5>1
      <4>2. CASE op = "logout"
        <5>1. row' = IF row[c].cur = s THEN [row EXCEPT ![c] = [cur |-> None, allowed |-> q.area, data |-> q.data]] ELSE row
          BY <2>1, <2>3, <4>2 DEF DoLogout, Mine, q
        <5> QED
          BY <1>1, <4>2, <5>1
      <4> QED
        BY <4>1, <4>2
    <3>4. Stored(c)
      BY <1>2, <1>4, <1>5, <2>2, <3>1, <3>2, <3>3 DEF Stored, RowRests
    <3> QED
      BY <3>4 DEF Handled
  <2>4. CASE q.id # c
    <3>1. RowRests(c)
      <4>1. row' = row \/ \E x : row' = [row EXCEPT ![q.id] = x]
        <5>1. CASE DoBackup(s)
          <6>1. [row EXCEPT ![q.id].data = q.data] = [row EXCEPT ![q.id] = [row[q.id] EXCEPT !.data = q.data]]
            BY <1>1
          <6> QED
            BY <5>1, <6>1 DEF DoBackup
        <5>2. CASE DoLogout(s)
          BY <5>2 DEF DoLogout
        <5> QED
          BY <1>6, <5>1, <5>2
      <4> QED
        BY <1>1, <2>4, <4>1 DEF RowRests
    <3>2. \A t \in Servers : QueueRests(t, c)
      BY <2>2, <2>4, TakesRests
    <3> QED
      BY <1>2, <2>2, <3>1, <3>2, Quiet
  <2> QED
    BY <2>3, <2>4
<1>7. CASE DoRelease(s)
  <2>1. Takes(s, "release") /\ UNCHANGED login
        /\ row' = IF Mine(s) THEN [row EXCEPT ![Head(queue[s]).id].cur = None] ELSE row
    BY <1>7 DEF DoRelease
  <2>2. \A t \in Servers : QueueRests(t, c)
    BY <1>3, <2>1
  <2>3. CASE Mine(s) /\ Head(queue[s]).id = c
    <3>1. row[c].cur = s /\ row' = [row EXCEPT ![c].cur = None]
      BY <2>1, <2>3 DEF Mine
    <3>2. row'[c].cur = None /\ row'[c].data = row[c].data
      BY <1>1, <3>1
    <3>3. Executed(s, c, "release")
      BY <1>5, <2>1, <2>3 DEF Executed
    <3>4. Released(c)
      BY <1>2, <1>4, <2>1, <2>2, <3>1, <3>2, <3>3 DEF Released, Freeing, Rests
    <3> QED
      BY <3>4 DEF Handled
  <2>4. CASE ~(Mine(s) /\ Head(queue[s]).id = c)
    <3>1. RowRests(c)
      <4>1. CASE Mine(s)
        <5> DEFINE d == Head(queue[s]).id
        <5>1. row' = [row EXCEPT ![d].cur = None] /\ d # c
          BY <2>1, <2>4, <4>1
        <5> HIDE DEF d
        <5> QED
          BY <1>1, <5>1 DEF RowRests
      <4>2. CASE ~Mine(s)
        BY <2>1, <4>2 DEF RowRests
      <4> QED
        BY <4>1, <4>2
    <3> QED
      BY <1>2, <2>1, <2>2, <3>1, Quiet
  <2> QED
    BY <2>3, <2>4
<1>8. CASE LoadRefused(s) \/ LoadElsewhere(s) \/ LoadOtherMirror(s)
  <2>1. Takes(s, "load") /\ UNCHANGED row
    BY <1>8 DEF LoadRefused, LoadElsewhere, LoadOtherMirror, Loads, NewArea
  <2>2. \A t \in Servers : login'[t] = login[t] \/ login'[t].status \notin {"create", "ok"}
    <3>1. \E l : login' = [login EXCEPT ![s] = l] /\ l.status \in {"failed", "newarea"}
      <4>1. CASE LoadRefused(s)
        <5> DEFINE l == [NoLogin EXCEPT !.status = "failed", !.name = login[s].name]
        <5>1. login' = [login EXCEPT ![s] = l] /\ l.status = "failed"
          BY <4>1 DEF LoadRefused, Fails, NoLogin
        <5> QED
          BY <5>1
      <4>2. ASSUME NEW to, NewArea(s, to)
            PROVE  \E l : login' = [login EXCEPT ![s] = l] /\ l.status \in {"failed", "newarea"}
        <5> DEFINE l == [NoLogin EXCEPT !.status = "newarea", !.name = login[s].name, !.to = to]
        <5>1. login' = [login EXCEPT ![s] = l] /\ l.status = "newarea"
          BY <4>2 DEF NewArea, NoLogin
        <5> QED
          BY <5>1
      <4>3. CASE LoadElsewhere(s) \/ LoadOtherMirror(s)
        <5>1. \E to : NewArea(s, to)
          BY <4>3 DEF LoadElsewhere, LoadOtherMirror
        <5> QED
          BY <4>2, <5>1
      <4> QED
        BY <1>8, <4>1, <4>3
    <3> QED
      BY <3>1 DEF TypeOK
  <2> QED
    BY <1>2, <1>3, <2>1, <2>2, Quiet DEF RowRests
<1>9. CASE LoadHere(s)
  <2>0. PICK d : d = login[s].name
    OBVIOUS
  <2>1. /\ Takes(s, "load") /\ login[s].status = "read"
        /\ login'[s].status = "create" /\ login'[s].name = d /\ login'[s].current = (row[d].cur = s)
        /\ login'[s].data = row[d].data
        /\ \A t \in Servers \ {s} : login'[t] = login[t]
        /\ row' = [row EXCEPT ![d] = [@ EXCEPT !.cur = s, !.allowed = Area(s)]]
        /\ row[d].cur \in {None, s}
    BY <1>9, <2>0 DEF LoadHere, Loads, NoLogin, TypeOK, Elsewhere
  <2>2. \A t \in Servers : QueueRests(t, c)
    BY <1>3, <2>1
  <2>3. CASE d # c
    <3>1. RowRests(c)
      BY <1>1, <2>1, <2>3 DEF RowRests
    <3>2. LoginRests(s, c)
      BY <2>1, <2>3 DEF LoginRests, Creating, Unclaimed
    <3> QED
      BY <1>2, <2>1, <2>2, <3>1, <3>2, Quiet
  <2>4. CASE d = c /\ row[c].cur = s
    <3>1. RowRests(c)
      BY <1>1, <2>1, <2>4 DEF RowRests
    <3>2. LoginRests(s, c)
      BY <2>1, <2>4 DEF LoginRests, Creating, Unclaimed
    <3> QED
      BY <1>2, <2>1, <2>2, <3>1, <3>2, Quiet
  <2>5. CASE d = c /\ row[c].cur = None
    <3>1. row'[c].cur = s /\ row'[c].data = row[c].data
      BY <1>1, <2>1, <2>5
    <3>2. ElseRests(s, c)
      BY <1>2, <1>5, <2>1, OthersRest
    <3>3. Loaded(c)
      BY <1>2, <2>1, <2>2, <2>5, <3>1, <3>2 DEF Loaded
    <3> QED
      BY <3>3 DEF Handled
  <2> QED
    BY <2>1, <2>3, <2>4, <2>5
<1>10. CASE DoRescue(s)
  <2>0. PICK d : d = Head(queue[s]).id
    OBVIOUS
  <2>1. /\ Takes(s, "rescue") /\ UNCHANGED login
        /\ \/ UNCHANGED row
           \/ /\ \E a : row' = [row EXCEPT ![d] = [@ EXCEPT !.cur = None, !.allowed = a]]
              /\ row[d].cur # None /\ run[row[d].cur] # "down" => d \in strayed'
    BY <1>10, <2>0 DEF DoRescue
  <2>2. \A t \in Servers : QueueRests(t, c)
    BY <1>3, <2>1
  <2>3. CASE RowRests(c)
    BY <1>2, <2>1, <2>2, <2>3, Quiet
  <2>4. CASE ~RowRests(c)
    <3>1. PICK a : row' = [row EXCEPT ![d] = [@ EXCEPT !.cur = None, !.allowed = a]]
      BY <2>1, <2>4 DEF RowRests
    <3>2. d = c /\ row'[c].cur = None /\ row'[c].data = row[c].data /\ row[c].cur # None
      BY <1>1, <2>4, <3>1 DEF RowRests
    <3>3. row[c].cur \in Servers /\ run[row[c].cur] = "down"
      BY <1>1, <2>1, <2>4, <3>2 DEF RowRests
    <3>4. Swept(c)
      BY <1>2, <1>4, <2>1, <2>2, <3>2, <3>3 DEF Swept, Freeing, Rests
    <3> QED
      BY <3>4 DEF Handled
  <2> QED
    BY <2>3, <2>4
<1>11. CASE DoAlive(s) \/ DoArealist(s)
  <2>1. UNCHANGED <<row, login>> /\ \E op \in {"alive", "dead", "arealist"} : Takes(s, op)
    BY <1>11 DEF DoAlive, DoArealist
  <2>2. \A t \in Servers : QueueRests(t, c)
    BY <1>3, <2>1
  <2> QED
    BY <1>2, <2>1, <2>2, Quiet DEF RowRests
<1> QED
  BY <1>6, <1>7, <1>8, <1>9, <1>10, <1>11 DEF db_thread

\* What happens to a server.
LEMMA ServerHandles ==
    ASSUME TypeOK, NEW c \in Chars, c \notin strayed', CopySafe(c), CreationSafe(c), NEW s \in Servers, Server(s)
    PROVE  Handled(c)
<1> USE DEF RowRests
<1>1. ASSUME UNCHANGED queue PROVE \A t \in Servers : QueueRests(t, c)
  BY <1>1, QueueSameRests
<1>2. ASSUME UNCHANGED ch PROVE \A t \in Servers : CopiesRest(t, c)
  BY <1>2, CopiesSame
<1>3. CASE LoginAges(s)
  <2>1. UNCHANGED <<row, queue, ch>> /\ login' = [login EXCEPT ![s].old = TRUE] /\ login[s].status \in Results
    BY <1>3 DEF LoginAges
  <2>2. /\ login'[s].status = login[s].status /\ login'[s].cn = login[s].cn /\ login'[s].usurped = login[s].usurped
        /\ \A t \in Servers \ {s} : login'[t] = login[t]
    BY <2>1 DEF TypeOK, LoginType
  <2>3. LoginRests(s, c)
    <3>1. ~Creating(s, c)'
      BY <2>1, <2>2 DEF Creating, Results
    <3>2. Unclaimed(s, c)' => Unclaimed(s, c)
      BY <2>1, <2>2 DEF Unclaimed, Holds
    <3> QED
      BY <3>1, <3>2 DEF LoginRests
  <2> QED
    BY <1>1, <1>2, <2>1, <2>2, <2>3, Quiet
<1>4. ASSUME NEW op \in {"alive", "arealist", "dead"}, Enqueue(s, <<Plain(op)>>), UNCHANGED <<row, login, ch>>
      PROVE  Handled(c)
  <2>1. Plain(op) \in Query /\ Plain(op).op = op
    BY PlainIsQuery DEF Plain
  <2>2. <<Plain(op)>> \in Seq(Query) /\ \A i \in 1 .. Len(<<Plain(op)>>) : <<Plain(op)>>[i].op \notin {"backup", "logout"}
    BY <2>1
  <2>3. \A t \in Servers : QueueRests(t, c)
    BY <1>4, <2>2, EnqueueRests
  <2> QED
    BY <1>2, <1>4, <2>3, Quiet
<1>5. ASSUME NEW op \in {"alive", "arealist"}, Periodic(s, op) PROVE Handled(c)
  BY <1>4, <1>5 DEF Periodic
<1>6. CASE AliveLapses(s) \/ Shutdown(s)
  <2>1. UNCHANGED <<row, queue, ch, login>>
    BY <1>6 DEF AliveLapses, Shutdown
  <2> QED
    BY <1>1, <1>2, <2>1, Quiet
<1>7. CASE Crash(s) \/ Drained(s)
  <2>1. /\ UNCHANGED row /\ queue'[s] = <<>> /\ login'[s] = NoLogin /\ ch'[s] = [n \in Slots |-> FreeSlot]
        /\ \A t \in Servers \ {s} : queue'[t] = queue[t] /\ login'[t] = login[t] /\ ch'[t] = ch[t]
    BY <1>7 DEF Crash, Drained, Forget, TypeOK
  <2>2. \A m \in Slots : ~Holds(s, m, c)'
    BY <2>1 DEF Holds, FreeSlot
  <2>3. ElseRests(s, c)
    BY <2>1, OthersRest
  <2>4. login'[s].status = "empty"
    BY <2>1 DEF NoLogin
  <2>5. Lost(c)
    BY <2>1, <2>2, <2>3, <2>4 DEF Lost
  <2> QED
    BY <2>5 DEF Handled
<1>8. CASE Start(s)
  <2>1. /\ run[s] = "down" /\ UNCHANGED <<queue, ch, login>>
        /\ row' = [d \in Chars |-> IF row[d].cur = s THEN [row[d] EXCEPT !.cur = None] ELSE row[d]]
    BY <1>8 DEF Start
  <2>2. CASE row[c].cur = s
    <3>1. row[c] \in [cur : Servers \cup {None}, allowed : Nat, data : Nat] /\ row'[c] = [row[c] EXCEPT !.cur = None]
      BY <2>1, <2>2 DEF TypeOK
    <3>2. row'[c].cur = None /\ row'[c].data = row[c].data
      BY <3>1
    <3>3. ASSUME NEW t \in Servers PROVE LoginRests(t, c)
      <4>1. \A n \in Slots : Holds(t, n, c)' => Holds(t, n, c)
        BY <1>2, <2>1 DEF CopiesRest
      <4> QED
        BY <2>1, <4>1, LoginSame
    <3>4. Swept(c)
      BY <1>1, <1>2, <2>1, <2>2, <3>2, <3>3 DEF Swept, Freeing, Rests
    <3> QED
      BY <3>4 DEF Handled
  <2>3. CASE row[c].cur # s
    <3>1. row'[c] = row[c]
      BY <2>1, <2>3
    <3> QED
      BY <1>1, <1>2, <2>1, <3>1, Quiet
  <2> QED
    BY <2>2, <2>3
<1>9. CASE LeaveNext(s)
  <2>1. PICK n \in Slots, a \in Areas : ch[s][n].used /\ kick_char(s, n, a, None)
    BY <1>9 DEF LeaveNext
  <2>2. UNCHANGED <<row, login>>
    BY <1>9 DEF LeaveNext
  <2> QED
    BY <2>1, <2>2, KickHandled
<1>10. CASE AllLeft(s)
  BY <1>4, <1>10 DEF AllLeft
<1> QED
  BY <1>3, <1>5, <1>6, <1>7, <1>8, <1>9, <1>10, TickHandles, ThreadHandles DEF Server

\* What a step can do to a character that stays settled.
LEMMA StepHandles ==
    ASSUME NoBareKick, TypeOK, TypeOK', OwnershipSafe, [Next]_vars, NEW c \in Settled'
    PROVE  Handled(c) /\ c \in Settled /\ c \in Chars
<1>1. c \in Chars /\ c \notin strayed' /\ c \in Settled
  BY StrayedGrows DEF Settled
<1>2. LinkSafe /\ CopySafe(c) /\ CreationSafe(c)
  BY <1>1 DEF OwnershipSafe
<1>3. CASE UNCHANGED vars
  <2>1. UNCHANGED <<row, queue, ch, login>>
    BY <1>3 DEF vars
  <2> QED
    BY <1>1, <2>1, QueueSameRests, CopiesSame, Quiet DEF RowRests
<1>4. CASE Next
  BY <1>1, <1>2, <1>4, ClientHandles, SlotHandles, ServerHandles DEF Next
<1> QED
  BY <1>1, <1>3, <1>4

LogoutsSafe == \A c \in Settled : LogoutSafe(c)

(* A logout is never dropped for having come too late. *)
THEOREM LogoutsLand == ASSUME NoBareKick PROVE Spec => LogoutLands
<1>1. Init => LogoutsSafe
  BY DEF Init, LogoutsSafe, LogoutSafe
<1>2. TypeOK /\ TypeOK' /\ OwnershipSafe /\ LogoutsSafe /\ [Next]_vars => LogoutsSafe'
  <2> SUFFICES ASSUME TypeOK, TypeOK', OwnershipSafe, LogoutsSafe, [Next]_vars, NEW c \in Settled'
               PROVE  LogoutSafe(c)'
    BY DEF LogoutsSafe
  <2>1. Handled(c) /\ c \in Settled /\ c \in Chars
    BY StepHandles
  <2>2. LogoutSafe(c) /\ CopySafe(c) /\ DownSafe
    BY <2>1 DEF LogoutsSafe, OwnershipSafe
  <2> QED
    BY <2>1, <2>2, LogoutStep
<1>3. TypeOK /\ LogoutsSafe => \A s \in Servers : DoLogout(s) /\ Head(queue[s]).id \in Settled => Mine(s)
  <2> SUFFICES ASSUME TypeOK, LogoutsSafe, NEW s \in Servers, DoLogout(s), Head(queue[s]).id \in Settled
               PROVE  Mine(s)
    OBVIOUS
  <2> DEFINE c == Head(queue[s]).id
  <2>1. Takes(s, "logout")
    BY DEF DoLogout
  <2>2. 1 \in DOMAIN queue[s] /\ queue[s][1] = Head(queue[s]) /\ queue[s][1].op = "logout"
    BY <2>1, TakesShifts
  <2>3. LogoutSafe(c)
    BY DEF LogoutsSafe
  <2>4. row[c].cur = s
    BY <2>2, <2>3 DEF LogoutSafe, Saves, Ordered
  <2> QED
    BY <2>4 DEF Mine
<1> QED
  BY <1>1, <1>2, <1>3, TypeCorrect, OwnershipKept, PTL DEF Spec, LogoutLands

-----------------------------------------------------------------------------
(* A save writes what its server has made of the character.                    *)

\* Server s has c in memory.
Held(s, c) == \E n \in Slots : Holds(s, n, c)

NoSaves(s, c) == \A i \in DOMAIN queue[s] : ~Saves(s, i, c)

\* A queued save is of the server that owns the row, and nothing before it takes the
\* row away; it writes no less than is saved and than the saves before it write, and
\* no more than the copy has; and the copy or its logout comes after it.
SaveSafe(s, i, c) ==
    /\ Ordered(s, i, c) /\ row[c].data <= queue[s][i].data
    /\ \A j \in DOMAIN queue[s] : j < i /\ Saves(s, j, c) => queue[s][j].data <= queue[s][i].data
    /\ \A n \in Slots : Holds(s, n, c) => queue[s][i].data <= ch[s][n].data
    /\ Held(s, c) \/ LoggingOut(s, c)

SavesSafe(c) == \A s \in Servers : \A i \in DOMAIN queue[s] : Saves(s, i, c) => SaveSafe(s, i, c)

\* A copy is no older than what is saved.
ProgressSafe(c) == \A s \in Servers, n \in Slots : Holds(s, n, c) => row[c].data <= ch[s][n].data

\* A copy that nobody plays yet is what was read, and nothing of it is queued.
FreshSafe(c) == \A s \in Servers : /\ Creating(s, c) => login[s].data = row[c].data
                                   /\ Creating(s, c) \/ Unclaimed(s, c) => NoSaves(s, c)

\* Who plays has a character that is his.
PlayersSafe == \A k \in Clients : conn[k].state = "play" =>
    LET x == ch[conn[k].at][conn[k].cn] IN x.used /\ x.id # None /\ x.player = k

DataSafe(c) == SavesSafe(c) /\ ProgressSafe(c) /\ FreshSafe(c)

\* Where the saves rest and there was none, none appears.
LEMMA NoSavesRest ==
    ASSUME TypeOK, TypeOK', NEW c, NEW s \in Servers, QueueRests(s, c), NoSaves(s, c)
    PROVE  NoSaves(s, c)'
<1> SUFFICES ASSUME NEW i \in DOMAIN queue'[s], Saves(s, i, c)' PROVE FALSE
  BY DEF NoSaves
<1>1. PICK d \in {0, 1} : Old(s, i, d)
  BY DEF QueueRests
<1>2. i + d \in DOMAIN queue[s] /\ queue'[s][i] = queue[s][i + d]
  BY <1>1, OldOrder
<1> QED
  BY <1>2 DEF NoSaves, Saves

\* Only the owner of the row has saves to write.
LEMMA OwnerSaves ==
    ASSUME NEW c, SavesSafe(c), NEW s \in Servers, row[c].cur # s
    PROVE  NoSaves(s, c)
  BY DEF SavesSafe, SaveSafe, Ordered, NoSaves

\* A logout that stays queued.
LEMMA LoggingOutRests ==
    ASSUME NEW c, NEW s \in Servers, QueueRests(s, c), LoggingOut(s, c)
    PROVE  LoggingOut(s, c)'
<1>1. PICK i \in DOMAIN queue[s] : queue[s][i].op = "logout" /\ queue[s][i].id = c
  BY DEF LoggingOut
<1>2. Saves(s, i, c)
  BY <1>1 DEF Saves
<1>3. PICK d \in {0, 1} : i - d \in DOMAIN queue'[s] /\ queue'[s][i - d] = queue[s][i]
  BY <1>2 DEF QueueRests
<1> QED
  BY <1>1, <1>3 DEF LoggingOut

\* A step that lets the saves of c stay, and what they are compared with.
LEMMA SavesRest ==
    ASSUME TypeOK, TypeOK', NEW c, NEW s \in Servers, SavesSafe(c), RowRests(c), QueueRests(s, c),
           \A n \in Slots : Holds(s, n, c)' => Holds(s, n, c) /\ ch[s][n].data <= ch'[s][n].data,
           Held(s, c) => Held(s, c)',
           NEW i \in DOMAIN queue'[s], Saves(s, i, c)'
    PROVE  SaveSafe(s, i, c)'
<1>1. PICK d \in {0, 1} : Old(s, i, d)
  BY DEF QueueRests
<1>2. /\ i + d \in DOMAIN queue[s] /\ queue'[s][i] = queue[s][i + d]
      /\ \A j \in DOMAIN queue'[s] : j < i =>
            j + d \in DOMAIN queue[s] /\ j + d < i + d /\ queue'[s][j] = queue[s][j + d]
  BY <1>1, OldOrder
<1>3. SaveSafe(s, i + d, c)
  BY <1>2 DEF SavesSafe, Saves
<1>4. Ordered(s, i, c)'
  BY <1>1, <1>3, OrderKept DEF SaveSafe, RowRests
<1>5. row'[c].data <= queue'[s][i].data
  BY <1>2, <1>3 DEF SaveSafe, RowRests
<1>6. ASSUME NEW j \in DOMAIN queue'[s], j < i, Saves(s, j, c)' PROVE queue'[s][j].data <= queue'[s][i].data
  <2>1. j + d \in DOMAIN queue[s] /\ j + d < i + d /\ queue'[s][j] = queue[s][j + d]
    BY <1>2, <1>6
  <2> QED
    BY <1>2, <1>3, <1>6, <2>1 DEF SaveSafe, Saves
<1>7. ASSUME NEW n \in Slots, Holds(s, n, c)' PROVE queue'[s][i].data <= ch'[s][n].data
  <2>1. queue[s][i + d].data <= ch[s][n].data /\ ch[s][n].data <= ch'[s][n].data
    BY <1>3, <1>7 DEF SaveSafe
  <2>2. queue[s][i + d].data \in Nat /\ ch[s][n].data \in Nat /\ ch'[s][n].data \in Nat
    <3>1. ch[s][n] \in SlotType /\ ch'[s][n] \in SlotType
      <4>1. ch \in [Servers -> [Slots -> SlotType]] /\ ch' \in [Servers -> [Slots -> SlotType]]
        BY DEF TypeOK
      <4> QED
        BY <4>1
    <3> QED
      BY <1>2, <3>1, QueueTypes DEF SlotType
  <2> QED
    BY <1>2, <2>1, <2>2
<1>8. Held(s, c)' \/ LoggingOut(s, c)'
  BY <1>3, LoggingOutRests DEF SaveSafe
<1> QED
  BY <1>4, <1>5, <1>6, <1>7, <1>8 DEF SaveSafe

\* Progress is a number.
LEMMA DataNumbers ==
    ASSUME TypeOK, TypeOK', NEW c \in Chars, NEW s \in Servers, NEW n \in Slots
    PROVE  row[c].data \in Nat /\ row'[c].data \in Nat /\ ch[s][n].data \in Nat /\ ch'[s][n].data \in Nat
<1>1. /\ ch \in [Servers -> [Slots -> SlotType]] /\ ch' \in [Servers -> [Slots -> SlotType]]
      /\ row \in [Chars -> [cur : Servers \cup {None}, allowed : Nat, data : Nat]]
      /\ row' \in [Chars -> [cur : Servers \cup {None}, allowed : Nat, data : Nat]]
  BY DEF TypeOK
<1>2. ch[s][n] \in SlotType /\ ch'[s][n] \in SlotType
  BY <1>1
<1> QED
  BY <1>1, <1>2 DEF SlotType

\* A step that lets everything of c rest, but may have gained a copy something.
LEMMA RestingSaves ==
    ASSUME TypeOK, TypeOK', NEW c \in Chars, SavesSafe(c), RowRests(c), NEW t \in Servers, QueueRests(t, c), CopiesRest(t, c)
    PROVE  \A i \in DOMAIN queue'[t] : Saves(t, i, c)' => SaveSafe(t, i, c)'
<1>1. ASSUME NEW n \in Slots, Holds(t, n, c)' PROVE Holds(t, n, c) /\ ch[t][n].data <= ch'[t][n].data
  BY <1>1, DataNumbers DEF CopiesRest
<1>2. Held(t, c) => Held(t, c)'
  BY DEF Held, CopiesRest
<1> QED
  BY <1>1, <1>2, SavesRest

\* A copy is saved behind what is queued: because it leaves, or for a connection.
LEMMA AppendSaves ==
    ASSUME TypeOK, TypeOK', NEW c \in Chars, CopySafe(c), SavesSafe(c), ProgressSafe(c), RowRests(c),
           NEW s \in Servers, NEW n \in Slots, NEW op \in {"backup", "logout"}, NEW a \in Nat, Holds(s, n, c),
           queue'[s] = Append(queue[s], SaveOf(s, n, c, op, a)),
           \A m \in Slots : Holds(s, m, c)' => Holds(s, m, c) /\ ch'[s][m].data = ch[s][m].data,
           op = "logout" \/ Held(s, c)'
    PROVE  \A i \in DOMAIN queue'[s] : Saves(s, i, c)' => SaveSafe(s, i, c)'
<1> DEFINE q == SaveOf(s, n, c, op, a)
           last == Len(queue[s]) + 1
<1>1. q \in Query /\ q.op = op /\ q.id = c /\ q.data = ch[s][n].data
  BY SaveIsQuery DEF SaveOf
<1>2. row[c].cur = s /\ ~Leaving(s, c) /\ \A m \in Slots : Holds(s, m, c) => m = n
  BY DEF CopySafe
<1>3. queue'[s] = Append(queue[s], q)
  OBVIOUS
<1> HIDE DEF q
<1>4. /\ last \in DOMAIN queue'[s] /\ queue'[s][last] = q
      /\ \A i \in DOMAIN queue[s] : i \in DOMAIN queue'[s] /\ queue'[s][i] = queue[s][i]
      /\ \A i \in DOMAIN queue'[s] : i = last \/ Old(s, i, 0)
  BY <1>1, <1>3, AppendOld
<1>5. Held(s, c)' \/ LoggingOut(s, c)'
  BY <1>1, <1>4 DEF LoggingOut
<1>6. ASSUME NEW i \in DOMAIN queue'[s], Saves(s, i, c)', Old(s, i, 0) PROVE SaveSafe(s, i, c)'
  <2>1. /\ i \in DOMAIN queue[s] /\ queue'[s][i] = queue[s][i]
        /\ \A j \in DOMAIN queue'[s] : j < i => j \in DOMAIN queue[s] /\ queue'[s][j] = queue[s][j]
    <3>1. /\ i + 0 \in DOMAIN queue[s] /\ queue'[s][i] = queue[s][i + 0]
          /\ \A j \in DOMAIN queue'[s] : j < i =>
                j + 0 \in DOMAIN queue[s] /\ queue'[s][j] = queue[s][j + 0]
      BY <1>6, OldOrder
    <3>2. \A j \in DOMAIN queue'[s] : j + 0 = j
      BY QueueTypesNext
    <3> QED
      BY <3>1, <3>2
  <2>2. SaveSafe(s, i, c)
    BY <1>6, <2>1 DEF SavesSafe, Saves
  <2>3. Ordered(s, i, c)'
    BY <2>1, <2>2 DEF SaveSafe, Ordered, Frees, RowRests
  <2>4. \A j \in DOMAIN queue'[s] : j < i /\ Saves(s, j, c)' => queue'[s][j].data <= queue'[s][i].data
    BY <2>1, <2>2 DEF SaveSafe, Saves
  <2>5. \A m \in Slots : Holds(s, m, c)' => queue'[s][i].data <= ch'[s][m].data
    BY <2>1, <2>2 DEF SaveSafe
  <2> QED
    BY <1>5, <2>1, <2>2, <2>3, <2>4, <2>5 DEF SaveSafe, RowRests
<1>7. ASSUME NEW i \in DOMAIN queue'[s], i = last PROVE SaveSafe(s, i, c)'
  <2>1. \A j \in DOMAIN queue'[s] : j < i => j \in DOMAIN queue[s] /\ queue'[s][j] = queue[s][j]
    BY <1>4, <1>7, QueueTypes, QueueTypesNext
  <2>2. Ordered(s, i, c)'
    BY <1>2, <2>1 DEF Ordered, Leaving, Frees, RowRests
  <2>3. \A j \in DOMAIN queue'[s] : j < i /\ Saves(s, j, c)' => queue'[s][j].data <= queue'[s][i].data
    BY <1>1, <1>4, <1>7, <2>1 DEF SavesSafe, SaveSafe, Saves
  <2>4. row'[c].data <= queue'[s][i].data
    BY <1>1, <1>4, <1>7 DEF ProgressSafe, RowRests
  <2>5. \A m \in Slots : Holds(s, m, c)' => queue'[s][i].data <= ch'[s][m].data
    <3>1. ch[s][n].data \in Nat
      BY DataNumbers
    <3>2. \A m \in Slots : Holds(s, m, c)' => m = n /\ ch'[s][m].data = ch[s][n].data
      BY <1>2
    <3> QED
      BY <1>1, <1>4, <1>7, <3>1, <3>2
  <2> QED
    BY <1>5, <2>2, <2>3, <2>4, <2>5 DEF SaveSafe
<1> QED
  BY <1>4, <1>6, <1>7

\* The first query of s is a save of c: s owns the row.
LEMMA StoresOwn ==
    ASSUME TypeOK, NEW c \in Chars, SavesSafe(c), NEW s \in Servers, NEW op \in {"backup", "logout"}, Executed(s, c, op)
    PROVE  /\ row[c].cur = s /\ 1 \in DOMAIN queue[s] /\ Head(queue[s]) = queue[s][1] /\ Saves(s, 1, c)
           /\ queue[s][1].op = op /\ SaveSafe(s, 1, c)
<1>1. 1 \in DOMAIN queue[s] /\ Head(queue[s]) = queue[s][1]
  BY QueueTypes DEF Executed
<1>2. Saves(s, 1, c) /\ queue[s][1].op = op
  BY <1>1 DEF Executed, Saves
<1>3. SaveSafe(s, 1, c)
  BY <1>1, <1>2 DEF SavesSafe
<1> QED
  BY <1>1, <1>2, <1>3 DEF SaveSafe, Ordered

\* A save of c is written: those behind it stay in order.
LEMMA StoredSaves ==
    ASSUME TypeOK, TypeOK', NEW c \in Chars, SavesSafe(c), NEW s \in Servers, NEW op \in {"backup", "logout"},
           CopiesRest(s, c), Executed(s, c, op), queue'[s] = Tail(queue[s]),
           op = "backup" => row'[c].cur = s, row'[c].data = Head(queue[s]).data
    PROVE  \A i \in DOMAIN queue'[s] : Saves(s, i, c)' => SaveSafe(s, i, c)'
<1> SUFFICES ASSUME NEW i \in DOMAIN queue'[s], Saves(s, i, c)' PROVE SaveSafe(s, i, c)'
  OBVIOUS
<1>1. /\ row[c].cur = s /\ 1 \in DOMAIN queue[s] /\ Head(queue[s]) = queue[s][1] /\ Saves(s, 1, c) /\ queue[s][1].op = op
  BY StoresOwn
<1>2. Old(s, i, 1) /\ \A p \in DOMAIN queue[s] : p # 1 => p - 1 \in DOMAIN queue'[s] /\ queue'[s][p - 1] = queue[s][p]
  BY TailOld DEF Executed
<1>3. /\ i + 1 \in DOMAIN queue[s] /\ queue'[s][i] = queue[s][i + 1] /\ 1 < i + 1
      /\ \A j \in DOMAIN queue'[s] : j < i =>
            j + 1 \in DOMAIN queue[s] /\ j + 1 < i + 1 /\ queue'[s][j] = queue[s][j + 1]
  <2>1. i \in Nat /\ i > 0 /\ 1 \in {0, 1}
    BY QueueTypesNext
  <2>2. 1 < i + 1
    BY <2>1
  <2> QED
    BY <1>2, <2>1, <2>2, OldOrder
<1>4. SaveSafe(s, i + 1, c)
  BY <1>3 DEF SavesSafe, Saves
<1>5. op = "backup"
  BY <1>1, <1>3, <1>4 DEF SaveSafe, Ordered, Frees, Saves
<1>6. Ordered(s, i, c)'
  BY <1>1, <1>2, <1>4, <1>5, OrderKept DEF SaveSafe
<1>7. row'[c].data <= queue'[s][i].data
  BY <1>1, <1>3, <1>4 DEF SaveSafe
<1>8. \A j \in DOMAIN queue'[s] : j < i /\ Saves(s, j, c)' => queue'[s][j].data <= queue'[s][i].data
  BY <1>3, <1>4 DEF SaveSafe, Saves
<1>9. \A n \in Slots : Holds(s, n, c)' => queue'[s][i].data <= ch'[s][n].data
  BY <1>3, <1>4 DEF SaveSafe, CopiesRest
<1>10. Held(s, c) => Held(s, c)'
  BY DEF Held, CopiesRest
<1>11. LoggingOut(s, c) => LoggingOut(s, c)'
  <2> SUFFICES ASSUME NEW p \in DOMAIN queue[s], queue[s][p].op = "logout", queue[s][p].id = c PROVE LoggingOut(s, c)'
    BY DEF LoggingOut
  <2>1. p # 1
    BY <1>1, <1>5
  <2>2. p - 1 \in DOMAIN queue'[s] /\ queue'[s][p - 1] = queue[s][p]
    BY <1>2, <2>1
  <2> QED
    BY <2>2 DEF LoggingOut
<1> QED
  BY <1>4, <1>6, <1>7, <1>8, <1>9, <1>10, <1>11 DEF SaveSafe

\* Freeing a row that nothing is queued for.
LEMMA FreedHasNoSaves ==
    ASSUME TypeOK, NEW c \in Chars, DownSafe, SavesSafe(c), Released(c) \/ Swept(c)
    PROVE  Freeing(c) /\ \A t \in Servers : NoSaves(t, c)
<1>1. PICK s \in Servers : row[c].cur = s /\ (Executed(s, c, "release") \/ run[s] = "down") /\ Freeing(c)
  BY DEF Released, Swept
<1>2. NoSaves(s, c)
  <2> SUFFICES ASSUME NEW i \in DOMAIN queue[s], Saves(s, i, c) PROVE FALSE
    BY DEF NoSaves
  <2>1. CASE run[s] = "down"
    BY <2>1 DEF DownSafe
  <2>2. CASE Executed(s, c, "release")
    <3>1. 1 \in DOMAIN queue[s] /\ Head(queue[s]) = queue[s][1] /\ i \in Nat /\ i > 0
      BY <2>2, QueueTypes DEF Executed
    <3>2. Frees(s, 1, c) /\ i # 1
      BY <2>2, <3>1 DEF Frees, Executed, Saves
    <3>3. 1 < i
      BY <3>1, <3>2
    <3>4. Ordered(s, i, c)
      BY DEF SavesSafe, SaveSafe
    <3> QED
      BY <3>1, <3>2, <3>3, <3>4 DEF Ordered
  <2> QED
    BY <1>1, <2>1, <2>2
<1>3. \A t \in Servers \ {s} : NoSaves(t, c)
  BY <1>1, OwnerSaves
<1> QED
  BY <1>1, <1>2, <1>3

\* A connection saves a copy that is there.
LEMMA BackedHolds ==
    ASSUME TypeOK, NEW c \in Chars, PlayersSafe, NEW k \in Clients, NEW s \in Servers, NEW n \in Slots,
           conn[k].state = "play", conn[k].at = s, conn[k].cn = n, ch[s][n].id = c
    PROVE  Holds(s, n, c) /\ ch[s][n].player = k
  BY DEF PlayersSafe, Holds

\* Whatever is done to c, its saves are those of its owner and in order.
LEMMA SavesStep ==
    ASSUME TypeOK, TypeOK', NEW c \in Chars, DownSafe, PlayersSafe, CopySafe(c), DataSafe(c), Handled(c)
    PROVE  SavesSafe(c)'
<1> SUFFICES ASSUME NEW t \in Servers PROVE \A i \in DOMAIN queue'[t] : Saves(t, i, c)' => SaveSafe(t, i, c)'
  BY DEF SavesSafe
<1>1. SavesSafe(c) /\ ProgressSafe(c) /\ FreshSafe(c)
  BY DEF DataSafe
<1>2. ASSUME NEW s \in Servers, t # s, RowRests(c), ElseRests(s, c)
      PROVE  \A i \in DOMAIN queue'[t] : Saves(t, i, c)' => SaveSafe(t, i, c)'
  BY <1>1, <1>2, RestingSaves DEF ElseRests, Rests
<1>3. ASSUME QueueRests(t, c), NoSaves(t, c)
      PROVE  \A i \in DOMAIN queue'[t] : Saves(t, i, c)' => SaveSafe(t, i, c)'
  BY <1>3, NoSavesRest DEF NoSaves
<1>4. CASE Untouched(c)
  BY <1>1, <1>4, RestingSaves DEF Untouched, Rests
<1>5. CASE Worked(c)
  <2>1. PICK s \in Servers, n \in Slots :
           /\ RowRests(c) /\ ElseRests(s, c) /\ QueueRests(s, c) /\ \A m \in Slots : Holds(s, m, c)' <=> Holds(s, m, c)
           /\ Holds(s, n, c) /\ ch'[s][n].data > ch[s][n].data
    BY <1>5 DEF Worked
  <2>2. CASE t = s
    <3>1. ASSUME NEW m \in Slots, Holds(s, m, c)' PROVE Holds(s, m, c) /\ ch[s][m].data <= ch'[s][m].data
      <4>1. m = n
        BY <2>1, <3>1 DEF CopySafe
      <4> QED
        BY <2>1, <4>1, DataNumbers
    <3>2. Held(s, c) => Held(s, c)'
      BY <2>1 DEF Held
    <3> QED
      BY <1>1, <2>1, <2>2, <3>1, <3>2, SavesRest
  <2> QED
    BY <1>2, <2>1, <2>2
<1>6. CASE Kicked(c)
  <2>1. PICK s \in Servers, n \in Slots, a \in Nat :
           /\ RowRests(c) /\ ElseRests(s, c) /\ Holds(s, n, c) /\ \A m \in Slots : ~Holds(s, m, c)'
           /\ queue'[s] = Append(queue[s], SaveOf(s, n, c, "logout", a))
    BY <1>6, AreasAreNumbers DEF Kicked
  <2>2. CASE t = s
    BY <1>1, <2>1, <2>2, AppendSaves
  <2> QED
    BY <1>2, <2>1, <2>2
<1>7. CASE Backed(c)
  <2>1. PICK s \in Servers, n \in Slots, k \in Clients :
           /\ RowRests(c) /\ ElseRests(s, c) /\ UNCHANGED ch
           /\ conn[k].state = "play" /\ conn[k].at = s /\ conn[k].cn = n /\ ch[s][n].id = c
           /\ queue'[s] = Append(queue[s], SaveOf(s, n, c, "backup", 0))
    BY <1>7 DEF Backed
  <2>2. CASE t = s
    <3>1. Holds(s, n, c)
      BY <2>1, BackedHolds
    <3>2. Held(s, c)' /\ \A m \in Slots : Holds(s, m, c)' => Holds(s, m, c) /\ ch'[s][m].data = ch[s][m].data
      BY <2>1, <3>1 DEF Held, Holds
    <3> QED
      BY <1>1, <2>1, <2>2, <3>1, <3>2, AppendSaves
  <2> QED
    BY <1>2, <2>1, <2>2
<1>8. CASE Made(c) \/ Dropped(c)
  <2>1. PICK s \in Servers : /\ RowRests(c) /\ ElseRests(s, c) /\ QueueRests(s, c)
                             /\ Creating(s, c) \/ Unclaimed(s, c)
    BY <1>8 DEF Made, Dropped
  <2>2. NoSaves(s, c)
    BY <1>1, <2>1 DEF FreshSafe
  <2> QED
    BY <1>2, <1>3, <2>1, <2>2
<1>9. CASE Lost(c)
  <2>1. PICK s \in Servers : RowRests(c) /\ ElseRests(s, c) /\ queue'[s] = <<>>
    BY <1>9 DEF Lost
  <2> QED
    BY <1>2, <2>1
<1>10. CASE Stored(c)
  <2>1. PICK s \in Servers, op \in {"backup", "logout"} :
          /\ ElseRests(s, c) /\ CopiesRest(s, c) /\ Executed(s, c, op) /\ queue'[s] = Tail(queue[s])
          /\ row[c].cur = s => row'[c].cur = (IF op = "logout" THEN None ELSE s) /\ row'[c].data = Head(queue[s]).data
    BY <1>10 DEF Stored
  <2>2. row[c].cur = s
    BY <1>1, <2>1, StoresOwn
  <2>3. CASE t = s
    BY <1>1, <2>1, <2>2, <2>3, StoredSaves
  <2>4. CASE t # s
    <3>1. NoSaves(t, c)
      BY <1>1, <2>2, <2>4, OwnerSaves
    <3> QED
      BY <1>3, <2>1, <2>4, <3>1 DEF ElseRests, Rests
  <2> QED
    BY <2>3, <2>4
<1>11. CASE Released(c) \/ Swept(c)
  <2>1. Freeing(c) /\ NoSaves(t, c)
    BY <1>1, <1>11, FreedHasNoSaves
  <2> QED
    BY <1>3, <2>1 DEF Freeing, Rests
<1>12. CASE Loaded(c)
  <2>1. QueueRests(t, c) /\ row[c].cur = None
    BY <1>12 DEF Loaded, ElseRests, Rests
  <2>2. NoSaves(t, c)
    BY <1>1, <2>1, NoneAssumption, OwnerSaves
  <2> QED
    BY <1>3, <2>1, <2>2
<1> QED
  BY <1>4, <1>5, <1>6, <1>7, <1>8, <1>9, <1>10, <1>11, <1>12 DEF Handled

\* A step after which the row holds no more and no copy holds less.
LEMMA ProgressRests ==
    ASSUME TypeOK, TypeOK', NEW c \in Chars, ProgressSafe(c), NEW t \in Servers, row'[c].data = row[c].data,
           \A n \in Slots : Holds(t, n, c)' => Holds(t, n, c) /\ ch[t][n].data <= ch'[t][n].data
    PROVE  \A n \in Slots : Holds(t, n, c)' => row'[c].data <= ch'[t][n].data
<1> SUFFICES ASSUME NEW n \in Slots, Holds(t, n, c)' PROVE row'[c].data <= ch'[t][n].data
  OBVIOUS
<1>1. row[c].data <= ch[t][n].data /\ ch[t][n].data <= ch'[t][n].data
  BY DEF ProgressSafe
<1> QED
  BY <1>1, DataNumbers

\* Whatever is done to c, its copies are not behind what is saved.
LEMMA ProgressStep ==
    ASSUME NoAllocFail, TypeOK, TypeOK', NEW c \in Chars, PlayersSafe, CopySafe(c), CreationSafe(c), DataSafe(c), Handled(c)
    PROVE  ProgressSafe(c)'
<1> SUFFICES ASSUME NEW t \in Servers PROVE \A n \in Slots : Holds(t, n, c)' => row'[c].data <= ch'[t][n].data
  BY DEF ProgressSafe
<1>1. SavesSafe(c) /\ ProgressSafe(c) /\ FreshSafe(c)
  BY DEF DataSafe
<1>2. ASSUME CopiesRest(t, c), row'[c].data = row[c].data
      PROVE  \A n \in Slots : Holds(t, n, c)' => row'[c].data <= ch'[t][n].data
  <2>1. \A n \in Slots : Holds(t, n, c)' => Holds(t, n, c) /\ ch[t][n].data <= ch'[t][n].data
    BY <1>2, DataNumbers DEF CopiesRest
  <2> QED
    BY <1>1, <1>2, <2>1, ProgressRests
<1>3. CASE Untouched(c) \/ Released(c) \/ Swept(c) \/ Loaded(c)
  <2>1. CopiesRest(t, c) /\ row'[c].data = row[c].data
    BY <1>3 DEF Untouched, Released, Swept, Loaded, Freeing, RowRests, ElseRests, Rests
  <2> QED
    BY <1>2, <2>1
<1>4. CASE Worked(c)
  <2>1. PICK s \in Servers, n \in Slots :
           /\ RowRests(c) /\ ElseRests(s, c) /\ \A m \in Slots : Holds(s, m, c)' <=> Holds(s, m, c)
           /\ Holds(s, n, c) /\ ch'[s][n].data > ch[s][n].data
    BY <1>4 DEF Worked
  <2>2. CASE t = s
    <3>1. ASSUME NEW m \in Slots, Holds(s, m, c)' PROVE Holds(s, m, c) /\ ch[s][m].data <= ch'[s][m].data
      <4>1. m = n
        BY <2>1, <3>1 DEF CopySafe
      <4> QED
        BY <2>1, <4>1, DataNumbers
    <3> QED
      BY <1>1, <2>1, <2>2, <3>1, ProgressRests DEF RowRests
  <2>3. CASE t # s
    BY <1>2, <2>1, <2>3 DEF ElseRests, Rests, RowRests
  <2> QED
    BY <2>2, <2>3
<1>5. CASE Kicked(c) \/ Dropped(c) \/ Lost(c)
  <2>1. PICK s \in Servers : RowRests(c) /\ ElseRests(s, c) /\ \A m \in Slots : ~Holds(s, m, c)'
    BY <1>5 DEF Kicked, Dropped, Lost
  <2>2. CASE t = s
    BY <2>1, <2>2
  <2>3. CASE t # s
    BY <1>2, <2>1, <2>3 DEF ElseRests, Rests, RowRests
  <2> QED
    BY <2>2, <2>3
<1>6. CASE Backed(c)
  <2>1. UNCHANGED ch /\ RowRests(c)
    BY <1>6 DEF Backed
  <2>2. CopiesRest(t, c)
    BY <2>1, CopiesSame
  <2> QED
    BY <1>2, <2>1, <2>2 DEF RowRests
<1>7. CASE Made(c)
  <2>1. PICK s \in Servers, n \in Slots :
          /\ RowRests(c) /\ ElseRests(s, c) /\ Creating(s, c)
          /\ \A m \in Slots : Holds(s, m, c)' => m = n
          /\ ch'[s][n].data = login[s].data
    BY <1>7 DEF Made
  <2>2. CASE t = s
    <3>1. row'[c].data = ch'[s][n].data
      BY <1>1, <2>1 DEF FreshSafe, RowRests
    <3> QED
      BY <2>1, <2>2, <3>1, DataNumbers
  <2>3. CASE t # s
    BY <1>2, <2>1, <2>3 DEF ElseRests, Rests, RowRests
  <2> QED
    BY <2>2, <2>3
<1>8. CASE Stored(c)
  <2>1. PICK s \in Servers, op \in {"backup", "logout"} :
          /\ ElseRests(s, c) /\ CopiesRest(s, c) /\ Executed(s, c, op)
          /\ row[c].cur = s => row'[c].data = Head(queue[s]).data
    BY <1>8 DEF Stored
  <2>2. /\ row[c].cur = s /\ SaveSafe(s, 1, c) /\ Head(queue[s]) = queue[s][1]
    BY <1>1, <2>1, StoresOwn
  <2>3. CopiesRest(t, c)
    BY <2>1 DEF ElseRests, Rests
  <2> SUFFICES ASSUME NEW n \in Slots, Holds(t, n, c)' PROVE row'[c].data <= ch'[t][n].data
    OBVIOUS
  <2>4. Holds(t, n, c) /\ ch'[t][n].data = ch[t][n].data
    BY <2>3 DEF CopiesRest
  <2>5. t = s
    BY <2>2, <2>4 DEF CopySafe
  <2> QED
    BY <2>1, <2>2, <2>4, <2>5 DEF SaveSafe
<1> QED
  BY <1>3, <1>4, <1>5, <1>6, <1>7, <1>8 DEF Handled

\* Whatever is done to c, what nobody plays yet is what was read.
LEMMA FreshStep ==
    ASSUME TypeOK, TypeOK', NEW c \in Chars, LinkSafe, PlayersSafe, CopySafe(c), CreationSafe(c), DataSafe(c), Handled(c)
    PROVE  FreshSafe(c)'
<1> SUFFICES ASSUME NEW t \in Servers
             PROVE  /\ Creating(t, c)' => login'[t].data = row'[c].data
                    /\ Creating(t, c)' \/ Unclaimed(t, c)' => NoSaves(t, c)'
  BY DEF FreshSafe
<1>1. SavesSafe(c) /\ ProgressSafe(c) /\ FreshSafe(c)
  BY DEF DataSafe
<1>2. ASSUME LoginRests(t, c), QueueRests(t, c), row'[c].data = row[c].data
      PROVE  /\ Creating(t, c)' => login'[t].data = row'[c].data
             /\ Creating(t, c)' \/ Unclaimed(t, c)' => NoSaves(t, c)'
  BY <1>1, <1>2, NoSavesRest DEF FreshSafe, LoginRests
<1>3. ASSUME NEW s \in Servers, t # s, ElseRests(s, c), row'[c].data = row[c].data
      PROVE  /\ Creating(t, c)' => login'[t].data = row'[c].data
             /\ Creating(t, c)' \/ Unclaimed(t, c)' => NoSaves(t, c)'
  BY <1>2, <1>3 DEF ElseRests, Rests
<1>4. CASE Untouched(c) \/ Released(c) \/ Swept(c)
  <2>1. LoginRests(t, c) /\ QueueRests(t, c) /\ row'[c].data = row[c].data
    BY <1>4 DEF Untouched, Released, Swept, Freeing, RowRests, Rests
  <2> QED
    BY <1>2, <2>1
<1>5. CASE Worked(c)
  <2>1. LoginRests(t, c) /\ QueueRests(t, c) /\ row'[c].data = row[c].data
    BY <1>5 DEF Worked, RowRests, ElseRests, Rests
  <2> QED
    BY <1>2, <2>1
<1>6. CASE Kicked(c)
  <2>1. PICK s \in Servers, n \in Slots :
           /\ row'[c].data = row[c].data /\ ElseRests(s, c) /\ LoginRests(s, c)
           /\ Holds(s, n, c) /\ \A m \in Slots : ~Holds(s, m, c)'
    BY <1>6 DEF Kicked, RowRests
  <2>2. ~Creating(s, c)'
    BY <2>1 DEF LoginRests, CreationSafe
  <2>3. ~Unclaimed(s, c)'
    <3>1. login'[s].status = "ok" => login'[s].cn \in Slots
      BY DEF TypeOK, LoginType
    <3> QED
      BY <2>1, <3>1 DEF Unclaimed, Holds
  <2> QED
    BY <1>3, <2>1, <2>2, <2>3
<1>7. CASE Backed(c)
  <2>1. PICK s \in Servers, n \in Slots, k \in Clients :
           /\ row'[c].data = row[c].data /\ ElseRests(s, c) /\ UNCHANGED <<ch, login>>
           /\ conn[k].state = "play" /\ conn[k].at = s /\ conn[k].cn = n /\ ch[s][n].id = c
    BY <1>7 DEF Backed, RowRests
  <2>2. Holds(s, n, c) /\ ch[s][n].player = k
    BY <2>1, BackedHolds
  <2>3. ~Creating(s, c)'
    BY <2>1, <2>2 DEF CreationSafe, Creating
  <2>4. ~Unclaimed(s, c)
    <3> SUFFICES ASSUME Unclaimed(s, c) PROVE FALSE
      OBVIOUS
    <3>1. login[s].status = "ok" /\ Holds(s, login[s].cn, c)
      BY DEF Unclaimed
    <3>2. login[s].cn \in Slots
      BY <3>1 DEF TypeOK, LoginType
    <3>3. login[s].cn = n
      BY <2>2, <3>1, <3>2 DEF CopySafe
    <3>4. ch[s][n].player = None
      BY <3>1, <3>3 DEF LinkSafe
    <3> QED
      BY <2>2, <3>4, NoneAssumption
  <2>5. ~Unclaimed(s, c)'
    BY <2>1, <2>4 DEF Unclaimed, Holds
  <2> QED
    BY <1>3, <2>1, <2>3, <2>5
<1>8. CASE Made(c)
  <2>1. PICK s \in Servers : /\ row'[c].data = row[c].data /\ ElseRests(s, c) /\ QueueRests(s, c)
                             /\ Creating(s, c) /\ ~Creating(s, c)'
    BY <1>8 DEF Made, RowRests
  <2>2. NoSaves(s, c)'
    BY <1>1, <2>1, NoSavesRest DEF FreshSafe
  <2> QED
    BY <1>3, <2>1, <2>2
<1>9. CASE Dropped(c)
  <2>1. PICK s \in Servers : /\ row'[c].data = row[c].data /\ ElseRests(s, c) /\ QueueRests(s, c)
                             /\ Unclaimed(s, c) /\ ~Creating(s, c)'
    BY <1>9 DEF Dropped, RowRests
  <2>2. NoSaves(s, c)'
    BY <1>1, <2>1, NoSavesRest DEF FreshSafe
  <2> QED
    BY <1>3, <2>1, <2>2
<1>10. CASE Lost(c)
  <2>1. PICK s \in Servers : row'[c].data = row[c].data /\ ElseRests(s, c) /\ login'[s].status = "empty"
    BY <1>10 DEF Lost, RowRests
  <2>2. ~Creating(s, c)' /\ ~Unclaimed(s, c)'
    BY <2>1 DEF Creating, Unclaimed
  <2> QED
    BY <1>3, <2>1, <2>2
<1>11. CASE Stored(c)
  <2>1. PICK s \in Servers, op \in {"backup", "logout"} :
          /\ ElseRests(s, c) /\ LoginRests(s, c) /\ Executed(s, c, op)
    BY <1>11 DEF Stored
  <2>2. row[c].cur = s /\ 1 \in DOMAIN queue[s] /\ Saves(s, 1, c)
    BY <1>1, <2>1, StoresOwn
  <2>3. ~Creating(s, c) /\ ~Unclaimed(s, c)
    BY <1>1, <2>2 DEF FreshSafe, NoSaves
  <2>4. CASE t = s
    BY <2>1, <2>3, <2>4 DEF LoginRests
  <2>5. CASE t # s
    <3>1. LoginRests(t, c) /\ QueueRests(t, c)
      BY <2>1, <2>5 DEF ElseRests, Rests
    <3>2. ~Creating(t, c)'
      BY <2>2, <2>5, <3>1 DEF LoginRests, CreationSafe
    <3>3. NoSaves(t, c)'
      <4>1. NoSaves(t, c)
        BY <1>1, <2>2, <2>5, OwnerSaves
      <4> QED
        BY <3>1, <4>1, NoSavesRest
    <3> QED
      BY <3>2, <3>3
  <2> QED
    BY <2>4, <2>5
<1>12. CASE Loaded(c)
  <2>1. PICK s \in Servers :
          /\ row[c].cur = None /\ row'[c].data = row[c].data /\ ElseRests(s, c) /\ QueueRests(s, c)
          /\ login'[s].data = row[c].data
    BY <1>12 DEF Loaded
  <2>2. NoSaves(s, c)
    BY <1>1, <2>1, NoneAssumption, OwnerSaves
  <2>3. NoSaves(s, c)'
    BY <2>1, <2>2, NoSavesRest
  <2> QED
    BY <1>3, <2>1, <2>3
<1> QED
  BY <1>4, <1>5, <1>6, <1>7, <1>8, <1>9, <1>10, <1>11, <1>12 DEF Handled

-----------------------------------------------------------------------------
(* Who plays has a character.                                               *)

\* A character that waits to be claimed is a player's.
OkSafe == \A s \in Servers :
    LET x == ch[s][login[s].cn] IN login[s].status = "ok" /\ x.used => x.id # None

\* No monster is spawned in the slot of a character that left before its player came for
\* it.  The code does not see to that: read_login looks only at ch[cn].flags and hands the
\* monster out.
NoMonsterTakesOver == \A s \in Servers, n \in Slots :
    SpawnNpc(s, n) => ~(login[s].status = "ok" /\ login[s].cn = n)

\* Nobody plays what is in slot n of s.
Nobody(s, n) == \A k \in Clients : conn[k].state = "play" => ~(conn[k].at = s /\ conn[k].cn = n)

\* Nobody plays what is in a slot that is free, or a monster's, or has no player.
LEMMA NobodyThere ==
    ASSUME PlayersSafe, NEW s \in Servers, NEW n \in Slots,
           ~ch[s][n].used \/ ch[s][n].id = None \/ ch[s][n].player = None
    PROVE  Nobody(s, n)
  BY NoneAssumption DEF PlayersSafe, Nobody

\* A step that leaves the slots alone and puts nobody into the game.
LEMMA PlayersSame ==
    ASSUME TypeOK, PlayersSafe, OkSafe, UNCHANGED ch,
           \A k \in Clients : conn'[k].state = "play" => conn'[k] = conn[k],
           \A t \in Servers : login'[t].status = "ok" => login[t].status = "ok" /\ login'[t].cn = login[t].cn
    PROVE  PlayersSafe' /\ OkSafe'
<1>1. PlayersSafe'
  BY DEF PlayersSafe
<1>2. OkSafe'
  BY DEF OkSafe
<1> QED
  BY <1>1, <1>2

\* What a slot may hold that k plays, or that waits to be claimed.
PlayedBy(x, k) == x.used /\ x.id # None /\ x.player = k
Claimable(x) == x.used => x.id # None

\* Who is in the game stays, and who has slot n may play x.
StillPlayed(s, n, x) == \A k \in Clients : conn'[k].state = "play" =>
    conn'[k] = conn[k] /\ (conn[k].at = s /\ conn[k].cn = n => PlayedBy(x, k))
StillClaimable(s, n, x) == \A t \in Servers : login'[t].status = "ok" =>
    /\ login[t].status = "ok" /\ login'[t].cn = login[t].cn
    /\ t = s /\ login[t].cn = n => Claimable(x)

\* A step on one slot.
LEMMA PlayersSlot ==
    ASSUME TypeOK, PlayersSafe, OkSafe, NEW s \in Servers, NEW n \in Slots, NEW x, ch' = [ch EXCEPT ![s][n] = x],
           StillPlayed(s, n, x), StillClaimable(s, n, x)
    PROVE  PlayersSafe' /\ OkSafe'
<1>1. ch'[s][n] = x /\ \A t \in Servers, m \in Slots : t # s \/ m # n => ch'[t][m] = ch[t][m]
  BY DEF TypeOK
<1>2. ASSUME NEW k \in Clients, conn'[k].state = "play"
      PROVE  LET y == ch'[conn'[k].at][conn'[k].cn] IN y.used /\ y.id # None /\ y.player = k
  <2>1. conn'[k] = conn[k] /\ conn[k].at \in Servers /\ conn[k].cn \in Slots
    BY <1>2 DEF TypeOK, ConnType, StillPlayed
  <2>2. CASE conn[k].at = s /\ conn[k].cn = n
    BY <1>1, <1>2, <2>1, <2>2 DEF PlayedBy, StillPlayed
  <2>3. CASE ~(conn[k].at = s /\ conn[k].cn = n)
    BY <1>1, <1>2, <2>1, <2>3 DEF PlayersSafe
  <2> QED
    BY <2>2, <2>3
<1>3. ASSUME NEW t \in Servers, login'[t].status = "ok", ch'[t][login'[t].cn].used
      PROVE  ch'[t][login'[t].cn].id # None
  <2>1. login[t].status = "ok" /\ login'[t].cn = login[t].cn /\ login[t].cn \in Slots
    BY <1>3 DEF TypeOK, LoginType, StillClaimable
  <2>2. CASE t = s /\ login[t].cn = n
    BY <1>1, <1>3, <2>1, <2>2 DEF Claimable, StillClaimable
  <2>3. CASE ~(t = s /\ login[t].cn = n)
    BY <1>1, <1>3, <2>1, <2>3 DEF OkSafe
  <2> QED
    BY <2>2, <2>3
<1> QED
  BY <1>2, <1>3 DEF PlayersSafe, OkSafe

\* A slot is freed for whoever it had.
LEMMA PlayersKick ==
    ASSUME TypeOK, PlayersSafe, OkSafe, NEW s \in Servers, NEW n \in Slots, NEW a \in Nat, NEW gone,
           kick_char(s, n, a, gone), UNCHANGED login,
           \A k \in Clients : conn'[k].state = "play" => conn'[k] = conn[k] /\ ~(conn[k].at = s /\ conn[k].cn = n)
    PROVE  PlayersSafe' /\ OkSafe'
<1> DEFINE x == Freed(s, n, gone)
<1>1. ch' = [ch EXCEPT ![s][n] = x] /\ x.used = FALSE
  BY FreedForgets DEF kick_char
<1>2. Claimable(x)
  BY <1>1 DEF Claimable
<1> HIDE DEF x
<1>3. StillPlayed(s, n, x) /\ StillClaimable(s, n, x)
  BY <1>2 DEF StillPlayed, StillClaimable
<1> QED
  BY <1>1, <1>3, PlayersSlot

\* Each action of a client: who plays has a character that is his.
LEMMA ClientPlayers ==
    ASSUME TypeOK, LinkSafe, PlayersSafe, OkSafe, NEW k \in Clients, Client(k)
    PROVE  PlayersSafe' /\ OkSafe'
<1>0. PICK s : s = conn[k].at
  OBVIOUS
<1>1. /\ conn[k].state # "off" => s \in Servers
      /\ conn[k].state = "play" => conn[k].cn \in Slots
  BY <1>0 DEF TypeOK, ConnType
<1>2. \A j \in Clients : j # None
  BY NoneAssumption
<1>3. ASSUME NEW cleared, Waits(k), Ask(k, cleared)
      PROVE  /\ s \in Servers /\ UNCHANGED conn
             /\ \A t \in Servers : login'[t].status = "ok" => t # s /\ login'[t] = login[t]
  BY <1>0, <1>1, <1>3 DEF Ask, Waits, NoLogin, TypeOK
<1>4. CASE AskEmpty(k)
  <2>1. Waits(k) /\ Ask(k, <<>>) /\ UNCHANGED ch
    BY <1>4 DEF AskEmpty
  <2> QED
    BY <1>3, <2>1, PlayersSame
<1>5. CASE AskUnclaimed(k) \/ AskUsurped(k)
  <2>0. PICK n : n = login[s].cn
    OBVIOUS
  <2>1. PICK x, cleared : /\ Waits(k) /\ Ask(k, cleared) /\ login[s].status = "ok"
                          /\ ch' = [ch EXCEPT ![s][n] = x]
    BY <1>0, <1>5, <2>0 DEF AskUnclaimed, AskUsurped
  <2>2. s \in Servers /\ n \in Slots
    BY <1>0, <1>1, <2>0, <2>1 DEF Waits, TypeOK, LoginType
  <2>3. Nobody(s, n)
    BY <2>0, <2>1, <2>2, NobodyThere DEF LinkSafe
  <2>4. StillPlayed(s, n, x) /\ StillClaimable(s, n, x)
    BY <1>3, <2>1, <2>3 DEF Nobody, StillPlayed, StillClaimable
  <2> QED
    BY <2>1, <2>2, <2>4, PlayersSlot
<1>6. ASSUME NEW status, Collects(k, status)
      PROVE  s \in Servers /\ login[s].status = status
             /\ \A t \in Servers : login'[t].status = "ok" => t # s /\ login'[t] = login[t]
  BY <1>0, <1>1, <1>6 DEF Collects, Waits, NoLogin, TypeOK
<1>7. CASE CollectRefusal(k) \/ CollectRedirect(k) \/ CollectRescue(k) \/ CollectGone(k)
  <2>1. UNCHANGED ch /\ \E status : Collects(k, status)
    BY <1>7 DEF CollectRefusal, CollectRedirect, CollectRescue, CollectGone
  <2>2. conn' = conn \/ \E x : conn' = [conn EXCEPT ![k] = x] /\ x.state # "play"
    <3>1. Offline.state # "play" /\ \A t : Hop(k, t).state # "play"
      BY DEF Hop, Waiting, Offline
    <3> QED
      BY <1>7, <3>1 DEF CollectRefusal, CollectRedirect, CollectRescue, CollectGone
  <2>3. \A j \in Clients : conn'[j].state = "play" => conn'[j] = conn[j]
    BY <2>2 DEF TypeOK
  <2> QED
    BY <1>6, <2>1, <2>3, PlayersSame
<1>8. CASE CollectChar(k)
  <2>0. PICK n : n = login[s].cn
    OBVIOUS
  <2>1. /\ Collects(k, "ok") /\ ch[s][n].used /\ s \in Servers /\ login[s].status = "ok" /\ n \in Slots
        /\ ch' = [ch EXCEPT ![s][n] = [ch[s][n] EXCEPT !.player = k, !.lost = FALSE]]
        /\ conn' = [j \in Clients |-> IF j = k THEN InGame(s, conn[k].name, n)
                                      ELSE IF j = ch[s][n].player THEN Offline ELSE conn[j]]
    BY <1>0, <1>1, <1>8, <2>0 DEF CollectChar, Collects, Waits, TypeOK, LoginType
  <2>2. ch[s][n].id # None /\ Nobody(s, n)
    BY <2>0, <2>1, NobodyThere DEF OkSafe, LinkSafe
  <2>3. /\ conn'[k].at = s /\ conn'[k].cn = n
        /\ \A j \in Clients \ {k} : conn'[j].state = "play" => conn'[j] = conn[j]
    BY <2>1 DEF InGame, Offline
  <2>4. ch[s][n] \in SlotType
    BY <2>1 DEF TypeOK
  <2>5. /\ ch'[s][n].used /\ ch'[s][n].id # None /\ ch'[s][n].player = k
        /\ \A t \in Servers, m \in Slots : t # s \/ m # n => ch'[t][m] = ch[t][m]
    BY <2>1, <2>2, <2>4 DEF TypeOK, SlotType
  <2>6. ASSUME NEW j \in Clients, conn'[j].state = "play"
        PROVE  LET y == ch'[conn'[j].at][conn'[j].cn] IN y.used /\ y.id # None /\ y.player = j
    <3>1. CASE j = k
      BY <2>3, <2>5, <3>1
    <3>2. CASE j # k
      <4>1. conn'[j] = conn[j] /\ conn[j].state = "play" /\ conn[j].at \in Servers /\ conn[j].cn \in Slots
        BY <2>3, <2>6, <3>2 DEF TypeOK, ConnType
      <4>2. ~(conn[j].at = s /\ conn[j].cn = n)
        BY <2>2, <4>1 DEF Nobody
      <4>3. ch'[conn[j].at][conn[j].cn] = ch[conn[j].at][conn[j].cn]
        BY <2>5, <4>1, <4>2
      <4> QED
        BY <4>1, <4>3 DEF PlayersSafe
    <3> QED
      BY <3>1, <3>2
  <2>7. ASSUME NEW t \in Servers, login'[t].status = "ok", ch'[t][login'[t].cn].used
        PROVE  ch'[t][login'[t].cn].id # None
    <3>1. t # s /\ login'[t] = login[t]
      BY <1>6, <2>1, <2>7
    <3>2. ch'[t] = ch[t]
      BY <2>1, <3>1 DEF TypeOK
    <3> QED
      BY <2>7, <3>1, <3>2 DEF OkSafe
  <2> QED
    BY <2>6, <2>7 DEF PlayersSafe, OkSafe
<1>9. CASE Play(k)
  <2>0. PICK n : n = conn[k].cn
    OBVIOUS
  <2> DEFINE x == [ch[s][n] EXCEPT !.data = @ + 1]
  <2>1. s \in Servers /\ n \in Slots /\ ch' = [ch EXCEPT ![s][n] = x] /\ UNCHANGED <<login, conn>>
    BY <1>0, <1>1, <1>9, <2>0 DEF Play, Plays
  <2>2. ch[s][n] \in SlotType
    BY <2>1 DEF TypeOK
  <2>3. x.used = ch[s][n].used /\ x.id = ch[s][n].id /\ x.player = ch[s][n].player
    BY <2>2 DEF SlotType
  <2> HIDE DEF x
  <2>4. \A j \in Clients : conn[j].state = "play" /\ conn[j].at = s /\ conn[j].cn = n =>
            PlayedBy(x, j)
    BY <2>3 DEF PlayersSafe, PlayedBy
  <2>5. login[s].status = "ok" /\ login[s].cn = n => Claimable(x)
    BY <2>1, <2>3 DEF OkSafe, Claimable
  <2>6. StillPlayed(s, n, x) /\ StillClaimable(s, n, x)
    BY <2>1, <2>4, <2>5 DEF StillPlayed, StillClaimable
  <2> QED
    BY <2>1, <2>6, PlayersSlot
<1>10. CASE kick_player(k)
  <2>0. PICK n : n = conn[k].cn
    OBVIOUS
  <2> DEFINE x == [ch[s][n] EXCEPT !.player = None, !.lost = TRUE]
  <2>1. /\ s \in Servers /\ n \in Slots /\ ch' = [ch EXCEPT ![s][n] = x] /\ UNCHANGED login
        /\ conn[k].state = "play" /\ conn' = [conn EXCEPT ![k] = Offline]
    BY <1>0, <1>1, <1>10, <2>0 DEF kick_player, Plays
  <2>2. ch[s][n] \in SlotType
    BY <2>1 DEF TypeOK
  <2>3. x.used = ch[s][n].used /\ x.id = ch[s][n].id
    BY <2>2 DEF SlotType
  <2> HIDE DEF x
  <2>4. \A j \in Clients : conn'[j].state = "play" => j # k /\ conn'[j] = conn[j]
    BY <2>1 DEF TypeOK, Offline
  <2>5. ch[s][n].player = k
    BY <1>0, <2>0, <2>1 DEF PlayersSafe
  <2>6. \A j \in Clients : conn'[j].state = "play" => ~(conn[j].at = s /\ conn[j].cn = n)
    BY <2>4, <2>5 DEF PlayersSafe
  <2>7. login[s].status = "ok" /\ login[s].cn = n => Claimable(x)
    BY <2>1, <2>3 DEF OkSafe, Claimable
  <2>8. StillPlayed(s, n, x) /\ StillClaimable(s, n, x)
    BY <2>1, <2>4, <2>6, <2>7 DEF StillPlayed, StillClaimable
  <2> QED
    BY <2>1, <2>8, PlayersSlot
<1>11. CASE GiveUp(k) \/ \E t \in Servers, d \in Chars : Connect(k, t, d)
  <2>1. UNCHANGED <<ch, login>> /\ \E x : conn' = [conn EXCEPT ![k] = x] /\ x.state # "play"
    <3>1. Offline.state # "play" /\ \A t, d : Waiting(t, d).state # "play"
      BY DEF Waiting, Offline
    <3> QED
      BY <1>11, <3>1 DEF GiveUp, Connect
  <2>2. \A j \in Clients : conn'[j].state = "play" => conn'[j] = conn[j]
    BY <2>1 DEF TypeOK
  <2> QED
    BY <2>1, <2>2, PlayersSame
<1>12. CASE Backup(k)
  BY <1>12, PlayersSame DEF Backup
<1>13. ASSUME NEW a \in Areas, IdleExit(k, a) PROVE PlayersSafe' /\ OkSafe'
  <2>0. PICK n : n = conn[k].cn
    OBVIOUS
  <2>1. /\ s \in Servers /\ n \in Slots /\ conn[k].state = "play" /\ UNCHANGED login
        /\ conn' = [conn EXCEPT ![k] = Offline]
        /\ IF ch[s][n].player = k THEN kick_char(s, n, a, k) ELSE UNCHANGED <<queue, ch>>
    BY <1>0, <1>1, <1>13, <2>0 DEF IdleExit, Plays
  <2>2. ch[s][n].player = k
    BY <1>0, <2>0, <2>1 DEF PlayersSafe
  <2>3. \A j \in Clients : conn'[j].state = "play" => j # k /\ conn'[j] = conn[j]
    BY <2>1 DEF TypeOK, Offline
  <2>4. \A j \in Clients : conn'[j].state = "play" => ~(conn[j].at = s /\ conn[j].cn = n)
    BY <2>2, <2>3 DEF PlayersSafe
  <2>5. a \in Nat
    BY AreasAreNumbers
  <2> QED
    BY <2>1, <2>2, <2>3, <2>4, <2>5, PlayersKick
<1> QED
  BY <1>4, <1>5, <1>7, <1>8, <1>9, <1>10, <1>11, <1>12, <1>13 DEF Client, Poll

\* Each action on a slot.
LEMMA SlotPlayers ==
    ASSUME NoBareKick, TypeOK, PlayersSafe, OkSafe, NoMonsterTakesOver, NEW s \in Servers, NEW n \in Slots, Slot(s, n)
    PROVE  PlayersSafe' /\ OkSafe'
<1>1. \A k \in Clients : conn[k].state = "play" /\ conn[k].at = s /\ conn[k].cn = n => ch[s][n].player = k
  BY DEF PlayersSafe
<1>2. ASSUME NEW a \in Areas, change_area(s, n, a) \/ exit_char(s, n, a) PROVE PlayersSafe' /\ OkSafe'
  <2>1. a \in Nat
    BY AreasAreNumbers
  <2>2. UNCHANGED login /\ kick_char(s, n, a, ch[s][n].player)
    BY <1>2 DEF change_area, exit_char
  <2>3. \A k \in Clients : conn'[k].state = "play" => conn'[k] = conn[k] /\ k # ch[s][n].player
    <3>1. Offline.state # "play" /\ \A k, t : Hop(k, t).state # "play"
      BY DEF Hop, Waiting, Offline
    <3>2. CASE change_area(s, n, a)
      BY <3>1, <3>2 DEF change_area
    <3>3. CASE exit_char(s, n, a)
      BY <3>1, <3>3 DEF exit_char
    <3> QED
      BY <1>2, <3>2, <3>3
  <2>4. \A k \in Clients : conn'[k].state = "play" => conn'[k] = conn[k] /\ ~(conn[k].at = s /\ conn[k].cn = n)
    BY <1>1, <2>3
  <2> QED
    BY <2>1, <2>2, <2>4, PlayersKick
<1>3. CASE SpawnNpc(s, n)
  <2> DEFINE x == [FreeSlot EXCEPT !.used = TRUE]
  <2>1. /\ ~ch[s][n].used /\ ch' = [ch EXCEPT ![s][n] = x] /\ UNCHANGED <<login, conn>>
    BY <1>3 DEF SpawnNpc
  <2> HIDE DEF x
  <2>2. Nobody(s, n) /\ ~(login[s].status = "ok" /\ login[s].cn = n)
    BY <1>3, <2>1, NobodyThere DEF NoMonsterTakesOver
  <2>3. StillPlayed(s, n, x) /\ StillClaimable(s, n, x)
    BY <2>1, <2>2 DEF Nobody, StillPlayed, StillClaimable
  <2> QED
    BY <2>1, <2>3, PlayersSlot
<1>4. CASE NpcDies(s, n)
  <2> DEFINE x == Freed(s, n, None)
  <2>1. /\ ch[s][n].id = None /\ ch' = [ch EXCEPT ![s][n] = x] /\ UNCHANGED <<login, conn>> /\ x.used = FALSE
    BY <1>4, FreedForgets DEF NpcDies
  <2>2. Claimable(x)
    BY <2>1 DEF Claimable
  <2> HIDE DEF x
  <2>3. Nobody(s, n)
    BY <2>1, NobodyThere
  <2>4. StillPlayed(s, n, x) /\ StillClaimable(s, n, x)
    BY <2>1, <2>2, <2>3 DEF Nobody, StillPlayed, StillClaimable
  <2> QED
    BY <2>1, <2>4, PlayersSlot
<1> QED
  BY <1>2, <1>3, <1>4 DEF Slot, LostconExit, BareKick, NoBareKick

\* Each action of a server.
LEMMA ServerPlayers ==
    ASSUME TypeOK, LinkSafe, PlayersSafe, OkSafe, NEW s \in Servers, Server(s)
    PROVE  PlayersSafe' /\ OkSafe'
<1>1. login[s] \in LoginType
  BY DEF TypeOK
<1>2. CASE LoginAges(s)
  <2>1. UNCHANGED <<ch, conn>> /\ login' = [login EXCEPT ![s].old = TRUE]
    BY <1>2 DEF LoginAges
  <2>2. \A t \in Servers : login'[t].status = login[t].status /\ login'[t].cn = login[t].cn
    BY <2>1 DEF TypeOK, LoginType
  <2> QED
    BY <2>1, <2>2, PlayersSame
<1>3. ASSUME Fails(s) PROVE \A t \in Servers : login'[t].status = "ok" => login'[t] = login[t] /\ t # s
  BY <1>3 DEF Fails, NoLogin, TypeOK
<1>4. CASE UsurpGone(s) \/ CreateNoSlot(s)
  BY <1>3, <1>4, PlayersSame DEF UsurpGone, CreateNoSlot
<1>5. CASE CreateNoItem(s) \/ CreateNoRoom(s)
  <2>0. PICK n \in Slots : ~ch[s][n].used /\ (\E x : ch' = [ch EXCEPT ![s][n] = x]) /\ UNCHANGED conn /\ Fails(s)
    BY <1>5 DEF CreateNoItem, CreateNoRoom
  <2>1. PICK x : ~ch[s][n].used /\ ch' = [ch EXCEPT ![s][n] = x] /\ UNCHANGED conn /\ Fails(s)
    BY <2>0
  <2>2. Nobody(s, n)
    BY <2>1, NobodyThere
  <2>3. StillPlayed(s, n, x) /\ StillClaimable(s, n, x)
    BY <1>3, <2>1, <2>2 DEF Nobody, StillPlayed, StillClaimable
  <2> QED
    BY <2>1, <2>3, PlayersSlot
<1>6. ASSUME NEW n \in Slots, NEW x, NEW u, Creates(s), Succeeds(s, n, u), ch' = [ch EXCEPT ![s][n] = x], x.id = login[s].name,
             \A k \in Clients : conn'[k].state = "play" => conn'[k] = conn[k] /\ ~(conn[k].at = s /\ conn[k].cn = n)
      PROVE  PlayersSafe' /\ OkSafe'
  <2>1. /\ ch'[s][n] = x /\ (\A t \in Servers, m \in Slots : t # s \/ m # n => ch'[t][m] = ch[t][m])
        /\ \A t \in Servers \ {s} : ch'[t] = ch[t]
    BY <1>6 DEF TypeOK
  <2>2. /\ login'[s].cn = n /\ \A t \in Servers \ {s} : login'[t] = login[t]
    BY <1>6 DEF Succeeds, NoLogin, TypeOK
  <2>3. login[s].name # None
    <3>1. login[s].name \in Chars
      BY <1>1, <1>6 DEF Creates, LoginType
    <3> QED
      BY <3>1, NoneAssumption
  <2>4. OkSafe'
    BY <1>6, <2>1, <2>2, <2>3 DEF OkSafe
  <2>5. ASSUME NEW k \in Clients, conn'[k].state = "play"
        PROVE  LET y == ch'[conn'[k].at][conn'[k].cn] IN y.used /\ y.id # None /\ y.player = k
    <3>1. conn'[k] = conn[k] /\ conn[k].at \in Servers /\ conn[k].cn \in Slots /\ ~(conn[k].at = s /\ conn[k].cn = n)
      BY <1>6, <2>5 DEF TypeOK, ConnType
    <3> QED
      BY <2>1, <2>5, <3>1 DEF PlayersSafe
  <2> QED
    BY <2>4, <2>5 DEF PlayersSafe
<1>7. CASE Create(s)
  <2>1. PICK n \in Slots : /\ ~ch[s][n].used /\ Creates(s) /\ ch' = [ch EXCEPT ![s][n] = Copy(s)]
                           /\ Succeeds(s, n, FALSE) /\ UNCHANGED conn
    BY <1>7 DEF Create
  <2>2. Nobody(s, n) /\ Copy(s).id = login[s].name
    BY <2>1, NobodyThere DEF Copy, FreeSlot
  <2> QED
    BY <1>6, <2>1, <2>2 DEF Nobody
<1>8. CASE Usurp(s)
  <2>1. PICK n \in Slots :
          /\ Creates(s) /\ Holds(s, n, login[s].name) /\ Succeeds(s, n, TRUE)
          /\ ch' = [ch EXCEPT ![s][n] = [@ EXCEPT !.player = None, !.lost = FALSE]]
          /\ conn' = [k \in Clients |-> IF k = ch[s][n].player THEN Offline ELSE conn[k]]
    BY <1>8 DEF Usurp
  <2> DEFINE x == [ch[s][n] EXCEPT !.player = None, !.lost = FALSE]
  <2>2. ch' = [ch EXCEPT ![s][n] = x] /\ ch[s][n] \in SlotType
    BY <2>1 DEF TypeOK
  <2>3. x.id = login[s].name
    BY <2>1, <2>2 DEF SlotType, Holds
  <2>4. \A k \in Clients : conn'[k].state = "play" => conn'[k] = conn[k] /\ k # ch[s][n].player
    BY <2>1 DEF Offline
  <2>5. \A k \in Clients : conn'[k].state = "play" => conn'[k] = conn[k] /\ ~(conn[k].at = s /\ conn[k].cn = n)
    BY <2>4 DEF PlayersSafe
  <2> HIDE DEF x
  <2> QED
    BY <1>6, <2>1, <2>2, <2>3, <2>5
<1>9. CASE LoadRefused(s) \/ LoadElsewhere(s) \/ LoadOtherMirror(s) \/ LoadHere(s)
  <2>1. UNCHANGED <<ch, conn>>
    BY <1>9 DEF LoadRefused, LoadElsewhere, LoadOtherMirror, LoadHere, Loads
  <2>2. \A t \in Servers : login'[t].status = "ok" => login'[t] = login[t]
    <3>1. CASE LoadHere(s)
      BY <3>1 DEF LoadHere, NoLogin, TypeOK
    <3>2. ASSUME NEW to, NewArea(s, to) PROVE \A t \in Servers : login'[t].status = "ok" => login'[t] = login[t]
      BY <3>2 DEF NewArea, NoLogin, TypeOK
    <3>3. CASE LoadElsewhere(s) \/ LoadOtherMirror(s)
      <4>1. \E to : NewArea(s, to)
        BY <3>3 DEF LoadElsewhere, LoadOtherMirror
      <4> QED
        BY <3>2, <4>1
    <3>4. CASE LoadRefused(s)
      BY <1>3, <3>4 DEF LoadRefused
    <3> QED
      BY <1>9, <3>1, <3>3, <3>4
  <2> QED
    BY <2>1, <2>2, PlayersSame
<1>10. CASE DoBackup(s) \/ DoLogout(s) \/ DoRelease(s) \/ DoRescue(s) \/ DoAlive(s) \/ DoArealist(s)
  <2>1. UNCHANGED <<ch, conn, login>>
    BY <1>10 DEF DoBackup, DoLogout, DoRelease, DoRescue, DoAlive, DoArealist
  <2> QED
    BY <2>1, PlayersSame
<1>11. CASE (\E op \in {"alive", "arealist"} : Periodic(s, op)) \/ AliveLapses(s) \/ Start(s) \/ AllLeft(s)
  <2>1. UNCHANGED <<ch, conn, login>>
    BY <1>11 DEF Periodic, AliveLapses, Start, AllLeft
  <2> QED
    BY <2>1, PlayersSame
<1>12. CASE Crash(s) \/ Drained(s)
  <2>1. /\ login' = [login EXCEPT ![s] = NoLogin] /\ ch' = [ch EXCEPT ![s] = [n \in Slots |-> FreeSlot]]
        /\ conn' = [k \in Clients |-> IF conn[k].at = s THEN Offline ELSE conn[k]]
    BY <1>12 DEF Crash, Drained, Forget
  <2>2. \A t \in Servers : ch'[t] = ch[t] \/ t = s
    BY <2>1 DEF TypeOK
  <2>3. ASSUME NEW k \in Clients, conn'[k].state = "play" PROVE conn'[k] = conn[k] /\ ch'[conn[k].at] = ch[conn[k].at]
    <3>1. conn'[k] = conn[k] /\ conn[k].at # s
      BY <2>1, <2>3 DEF Offline
    <3>2. conn[k].at \in Servers
      BY <2>3, <3>1 DEF TypeOK, ConnType
    <3> QED
      BY <2>2, <3>1, <3>2
  <2>4. PlayersSafe'
    BY <2>3 DEF PlayersSafe
  <2>5. \A t \in Servers : login'[t].status = "ok" => login'[t] = login[t] /\ ch'[t] = ch[t]
    BY <2>1, <2>2 DEF TypeOK, NoLogin
  <2>6. OkSafe'
    BY <2>5 DEF OkSafe
  <2> QED
    BY <2>4, <2>6
<1>13. CASE Shutdown(s)
  <2>1. /\ UNCHANGED <<ch, login>> /\ conn' = [k \in Clients |-> IF conn[k].at = s THEN Offline ELSE conn[k]]
    BY <1>13 DEF Shutdown
  <2>2. \A k \in Clients : conn'[k].state = "play" => conn'[k] = conn[k]
    BY <2>1 DEF Offline
  <2> QED
    BY <2>1, <2>2, PlayersSame
<1>14. CASE LeaveNext(s)
  <2>1. PICK n \in Slots, a \in Areas : kick_char(s, n, a, None)
    BY <1>14 DEF LeaveNext
  <2>2. a \in Nat /\ UNCHANGED <<conn, login>> /\ run[s] = "leaving"
    BY <1>14, AreasAreNumbers DEF LeaveNext
  <2>3. \A k \in Clients : conn[k].state = "play" => conn[k].at # s
    BY <2>2 DEF LinkSafe, Up
  <2> QED
    BY <2>1, <2>2, <2>3, PlayersKick
<1> QED
  BY <1>2, <1>4, <1>5, <1>7, <1>8, <1>9, <1>10, <1>11, <1>12, <1>13, <1>14 DEF Server, tick_login, db_thread

\* Each step.
LEMMA PlayersStep ==
    ASSUME NoBareKick, TypeOK, LinkSafe, PlayersSafe, OkSafe, NoMonsterTakesOver, [Next]_vars
    PROVE  PlayersSafe' /\ OkSafe'
<1>1. CASE UNCHANGED vars
  <2>1. UNCHANGED <<ch, conn, login>>
    BY <1>1 DEF vars
  <2> QED
    BY <2>1, PlayersSame
<1>2. CASE Next
  BY <1>2, ClientPlayers, SlotPlayers, ServerPlayers DEF Next
<1> QED
  BY <1>1, <1>2

-----------------------------------------------------------------------------
(* Each kind of step is a step of the check-out (CheckOut).                 *)

\* A character has at most one logout on its way.
LEMMA SoleLogout ==
    ASSUME TypeOK, NEW c, SavesSafe(c), NEW s \in Servers, NEW i \in DOMAIN queue[s], NEW j \in DOMAIN queue[s],
           queue[s][i].op = "logout", queue[s][i].id = c, queue[s][j].op = "logout", queue[s][j].id = c
    PROVE  i = j
<1>1. i \in Nat /\ j \in Nat
  BY QueueTypes
<1>2. Ordered(s, i, c) /\ Ordered(s, j, c)
  BY DEF SavesSafe, SaveSafe, Saves
<1>3. ~(i < j) /\ ~(j < i)
  BY <1>2 DEF Ordered, Frees
<1> QED
  BY <1>1, <1>3

\* The same after the step.
LEMMA SoleLogoutNext ==
    ASSUME TypeOK', NEW c, SavesSafe(c)', NEW s \in Servers, NEW i \in DOMAIN queue'[s], NEW j \in DOMAIN queue'[s],
           queue'[s][i].op = "logout", queue'[s][i].id = c, queue'[s][j].op = "logout", queue'[s][j].id = c
    PROVE  i = j
<1>1. i \in Nat /\ j \in Nat
  BY QueueTypesNext
<1>2. Ordered(s, i, c)' /\ Ordered(s, j, c)'
  BY DEF SavesSafe, SaveSafe, Saves
<1>3. ~(i < j) /\ ~(j < i)
  BY <1>2 DEF Ordered, Frees
<1> QED
  BY <1>1, <1>3

\* No save queued: no logout either.
LEMMA NoSavesNoLogout ==
    ASSUME NEW c, NEW s \in Servers
    PROVE  (NoSaves(s, c) => ~LoggingOut(s, c)) /\ (NoSaves(s, c)' => ~LoggingOut(s, c)')
  BY DEF NoSaves, LoggingOut, Saves

\* No logout appears where the saves rest.
LEMMA LoggingOutWas ==
    ASSUME TypeOK, TypeOK', NEW c, NEW s \in Servers, QueueRests(s, c), LoggingOut(s, c)'
    PROVE  LoggingOut(s, c)
<1>1. PICK i \in DOMAIN queue'[s] : queue'[s][i].op = "logout" /\ queue'[s][i].id = c
  BY DEF LoggingOut
<1>2. Saves(s, i, c)'
  BY <1>1 DEF Saves
<1>3. PICK d \in {0, 1} : Old(s, i, d)
  BY <1>2 DEF QueueRests
<1>4. i + d \in DOMAIN queue[s] /\ queue'[s][i] = queue[s][i + d]
  BY <1>3, OldOrder
<1> QED
  BY <1>1, <1>4 DEF LoggingOut

\* What the owner has made of a character stays when its queue and its copies rest.
LEMMA WorkRests ==
    ASSUME TypeOK, TypeOK', NEW c \in Chars, CopySafe(c), SavesSafe(c), SavesSafe(c)', RowRests(c),
           NEW s \in Servers, row[c].cur = s, QueueRests(s, c), CopiesRest(s, c)
    PROVE  Working(c)' = Working(c)
<1>0. row'[c].cur = s /\ row'[c].data = row[c].data
  BY DEF RowRests
<1>1. CASE Held(s, c)
  <2>1. PICK n \in Slots : Holds(s, n, c)
    BY <1>1 DEF Held
  <2>2. \A m \in Slots : Holds(s, m, c) => m = n
    BY <2>1 DEF CopySafe
  <2>3. Holds(s, n, c)' /\ ch'[s][n].data = ch[s][n].data /\ \A m \in Slots : Holds(s, m, c)' => m = n
    BY <2>1, <2>2 DEF CopiesRest
  <2>4. Working(c) = ch[s][n].data
    BY <2>1, <2>2, HeldWork
  <2>5. Working(c)' = ch'[s][n].data
    BY <1>0, <2>3, HeldWorkNext
  <2> QED
    BY <2>3, <2>4, <2>5
<1>2. CASE ~Held(s, c) /\ LoggingOut(s, c)
  <2>1. PICK i \in DOMAIN queue[s] : queue[s][i].op = "logout" /\ queue[s][i].id = c
    BY <1>2 DEF LoggingOut
  <2>2. Saves(s, i, c)
    BY <2>1 DEF Saves
  <2>3. PICK d \in {0, 1} : i - d \in DOMAIN queue'[s] /\ queue'[s][i - d] = queue[s][i]
    BY <2>2 DEF QueueRests
  <2>4. (\A n \in Slots : ~Holds(s, n, c)) /\ \A n \in Slots : ~Holds(s, n, c)'
    BY <1>2 DEF Held, CopiesRest
  <2>5. \A j \in DOMAIN queue[s] : queue[s][j].op = "logout" /\ queue[s][j].id = c => j = i
    BY <2>1, SoleLogout
  <2>6. Working(c) = queue[s][i].data
    BY <2>1, <2>4, <2>5, LateWork
  <2>7. \A j \in DOMAIN queue'[s] : queue'[s][j].op = "logout" /\ queue'[s][j].id = c => j = i - d
    BY <2>1, <2>3, SoleLogoutNext
  <2>8. queue'[s][i - d].op = "logout" /\ queue'[s][i - d].id = c
    BY <2>1, <2>3
  <2>9. Working(c)' = queue'[s][i - d].data
    BY <1>0, <2>3, <2>4, <2>7, <2>8, LateWorkNext
  <2> QED
    BY <2>3, <2>6, <2>9
<1>3. CASE ~Held(s, c) /\ ~LoggingOut(s, c)
  <2>1. (\A n \in Slots : ~Holds(s, n, c)) /\ \A n \in Slots : ~Holds(s, n, c)'
    BY <1>3 DEF Held, CopiesRest
  <2>2. ~LoggingOut(s, c)'
    BY <1>3, LoggingOutWas
  <2>3. Working(c) = row[c].data
    BY <1>3, <2>1, LostWork
  <2>4. Working(c)' = row'[c].data
    BY <1>0, <2>1, <2>2, LostWorkNext
  <2> QED
    BY <1>0, <2>3, <2>4
<1> QED
  BY <1>1, <1>2, <1>3

\* So it does for a character that nobody has.
LEMMA RestStep ==
    ASSUME TypeOK, TypeOK', NEW c \in Chars, CopySafe(c), SavesSafe(c), SavesSafe(c)', RowRests(c),
           \A s \in Servers : row[c].cur = s => QueueRests(s, c) /\ CopiesRest(s, c)
    PROVE  CheckedOut!Rest(c)
<1>1. Working(c)' = Working(c)
  <2>1. CASE row[c].cur = None
    BY <2>1, IdleWork, IdleWorkNext DEF RowRests
  <2>2. CASE row[c].cur # None
    <3>1. row[c].cur \in Servers
      BY <2>2 DEF TypeOK
    <3> QED
      BY <3>1, WorkRests
  <2> QED
    BY <2>1, <2>2
<1> QED
  BY <1>1 DEF CheckedOut!Rest, RowRests

\* A copy gains something.
LEMMA WorkStep ==
    ASSUME TypeOK, TypeOK', NEW c \in Chars, CopySafe(c), Worked(c)
    PROVE  CheckedOut!Work(c)
<1>1. PICK s \in Servers, n \in Slots :
         /\ RowRests(c) /\ \A m \in Slots : Holds(s, m, c)' <=> Holds(s, m, c)
         /\ Holds(s, n, c) /\ ch'[s][n].data > ch[s][n].data
  BY DEF Worked
<1>2. row[c].cur = s /\ row'[c].cur = s /\ row'[c].data = row[c].data /\ s # None
  BY <1>1, NoneAssumption DEF CopySafe, RowRests
<1>3. (\A m \in Slots : Holds(s, m, c) => m = n) /\ (\A m \in Slots : Holds(s, m, c)' => m = n) /\ Holds(s, n, c)'
  BY <1>1 DEF CopySafe
<1>4. Working(c) = ch[s][n].data
  BY <1>1, <1>2, <1>3, HeldWork
<1>5. Working(c)' = ch'[s][n].data
  BY <1>2, <1>3, HeldWorkNext
<1>6. Working(c)' > Working(c)
  BY <1>1, <1>4, <1>5
<1> QED
  BY <1>2, <1>6 DEF CheckedOut!Work

\* A copy is replaced by its logout.
LEMMA KickStep ==
    ASSUME TypeOK, TypeOK', NEW c \in Chars, CopySafe(c), SavesSafe(c)', Kicked(c)
    PROVE  CheckedOut!Rest(c)
<1>1. PICK s \in Servers, n \in Slots, a \in Areas :
         /\ RowRests(c) /\ Holds(s, n, c) /\ \A m \in Slots : ~Holds(s, m, c)'
         /\ queue'[s] = Append(queue[s], SaveOf(s, n, c, "logout", a))
  BY DEF Kicked
<1>2. row[c].cur = s /\ row'[c].cur = s /\ row'[c].data = row[c].data /\ \A m \in Slots : Holds(s, m, c) => m = n
  BY <1>1 DEF CopySafe, RowRests
<1>3. PICK q \in Query : /\ queue'[s] = Append(queue[s], q) /\ q.op = "logout" /\ q.id = c /\ q.data = ch[s][n].data
  BY <1>1, SaveIsQuery, AreasAreNumbers DEF SaveOf
<1>4. Len(queue[s]) + 1 \in DOMAIN queue'[s] /\ queue'[s][Len(queue[s]) + 1] = q
  BY <1>3, AppendOld
<1>5. PICK i \in DOMAIN queue'[s] : queue'[s][i] = q
  BY <1>4
<1>6. \A j \in DOMAIN queue'[s] : queue'[s][j].op = "logout" /\ queue'[s][j].id = c => j = i
  BY <1>3, <1>5, SoleLogoutNext
<1>7. Working(c) = ch[s][n].data
  BY <1>1, <1>2, HeldWork
<1>8. Working(c)' = queue'[s][i].data
  BY <1>1, <1>2, <1>3, <1>5, <1>6, LateWorkNext
<1>9. Working(c)' = Working(c)
  BY <1>3, <1>5, <1>7, <1>8
<1> QED
  BY <1>2, <1>9 DEF CheckedOut!Rest

\* A copy is saved and stays.
LEMMA BackStep ==
    ASSUME TypeOK, NEW c \in Chars, PlayersSafe, CopySafe(c), Backed(c)
    PROVE  CheckedOut!Rest(c)
<1>1. PICK s \in Servers, n \in Slots : RowRests(c) /\ UNCHANGED ch /\ Holds(s, n, c)
  BY BackedHolds DEF Backed
<1>2. row[c].cur = s /\ row'[c].cur = s /\ row'[c].data = row[c].data /\ \A m \in Slots : Holds(s, m, c) => m = n
  BY <1>1 DEF CopySafe, RowRests
<1>3. Holds(s, n, c)' /\ (\A m \in Slots : Holds(s, m, c)' => m = n) /\ ch'[s][n].data = ch[s][n].data
  BY <1>1, <1>2 DEF Holds
<1>4. Working(c) = ch[s][n].data
  BY <1>1, <1>2, HeldWork
<1>5. Working(c)' = ch'[s][n].data
  BY <1>2, <1>3, HeldWorkNext
<1> QED
  BY <1>2, <1>3, <1>4, <1>5 DEF CheckedOut!Rest

\* A copy is made from what was read.
LEMMA MadeStep ==
    ASSUME NoAllocFail, TypeOK, NEW c \in Chars, CreationSafe(c), FreshSafe(c), Made(c)
    PROVE  CheckedOut!Rest(c)
<1>1. PICK s \in Servers, n \in Slots :
         /\ RowRests(c) /\ Creating(s, c)
         /\ Holds(s, n, c)' /\ \A m \in Slots : Holds(s, m, c)' => m = n
         /\ NoAllocFail => ch'[s][n].data = login[s].data
  BY DEF Made
<1>2. row[c].cur = s /\ row'[c].cur = s /\ row'[c].data = row[c].data /\ \A m \in Slots : ~Holds(s, m, c)
  BY <1>1 DEF CreationSafe, RowRests
<1>3. ~LoggingOut(s, c) /\ login[s].data = row[c].data
  BY <1>1, NoSavesNoLogout DEF FreshSafe
<1>4. Working(c) = row[c].data
  BY <1>2, <1>3, LostWork
<1>5. Working(c)' = ch'[s][n].data
  BY <1>1, <1>2, HeldWorkNext
<1> QED
  BY <1>1, <1>2, <1>3, <1>4, <1>5 DEF CheckedOut!Rest

\* A copy that nobody came for is destroyed.
LEMMA DropStep ==
    ASSUME TypeOK, TypeOK', NEW c \in Chars, CopySafe(c), FreshSafe(c), Dropped(c)
    PROVE  CheckedOut!Lose(c)
<1>1. PICK s \in Servers : RowRests(c) /\ QueueRests(s, c) /\ Unclaimed(s, c) /\ \A m \in Slots : ~Holds(s, m, c)'
  BY DEF Dropped
<1>2. login[s].cn \in Slots
  BY <1>1 DEF Unclaimed, TypeOK, LoginType
<1>3. row[c].cur = s /\ row'[c].cur = s /\ row'[c].data = row[c].data /\ s # None
  BY <1>1, <1>2, NoneAssumption DEF CopySafe, Unclaimed, RowRests
<1>4. ~LoggingOut(s, c)'
  BY <1>1, NoSavesNoLogout, LoggingOutWas DEF FreshSafe
<1>5. Working(c)' = row'[c].data
  BY <1>1, <1>3, <1>4, LostWorkNext
<1> QED
  BY <1>3, <1>5 DEF CheckedOut!Lose

\* A server loses its memory and its queue.
LEMMA LostStep ==
    ASSUME TypeOK, TypeOK', NEW c \in Chars, CopySafe(c), SavesSafe(c), SavesSafe(c)', Lost(c)
    PROVE  CheckedOut!Lose(c) \/ CheckedOut!Rest(c)
<1>1. PICK s \in Servers : RowRests(c) /\ ElseRests(s, c) /\ queue'[s] = <<>> /\ \A m \in Slots : ~Holds(s, m, c)'
  BY DEF Lost
<1>2. CASE row[c].cur = s
  <2>1. row'[c].cur = s /\ row'[c].data = row[c].data /\ s # None
    BY <1>1, <1>2, NoneAssumption DEF RowRests
  <2>2. ~LoggingOut(s, c)'
    BY <1>1 DEF LoggingOut
  <2>3. Working(c)' = row'[c].data
    BY <1>1, <2>1, <2>2, LostWorkNext
  <2> QED
    BY <1>2, <2>1, <2>3 DEF CheckedOut!Lose
<1>3. CASE row[c].cur # s
  BY <1>1, <1>3, RestStep DEF ElseRests, Rests
<1> QED
  BY <1>2, <1>3

\* A save is written.
LEMMA StoreStep ==
    ASSUME TypeOK, TypeOK', NEW c \in Chars, CopySafe(c), SavesSafe(c), SavesSafe(c)', Stored(c)
    PROVE  CheckedOut!Save(c) \/ CheckedOut!HandBack(c)
<1>1. PICK s \in Servers, op \in {"backup", "logout"} :
         /\ CopiesRest(s, c) /\ Executed(s, c, op) /\ queue'[s] = Tail(queue[s])
         /\ row[c].cur = s =>
              row'[c].cur = (IF op = "logout" THEN None ELSE s) /\ row'[c].data = Head(queue[s]).data
  BY DEF Stored
<1>2. /\ row[c].cur = s /\ 1 \in DOMAIN queue[s] /\ Head(queue[s]) = queue[s][1] /\ Saves(s, 1, c)
      /\ queue[s][1].op = op /\ queue[s][1].id = c /\ SaveSafe(s, 1, c) /\ s # None
  BY <1>1, StoresOwn, NoneAssumption DEF Saves
<1>3. row[c].data <= queue[s][1].data /\ row[c].data \in Nat /\ queue[s][1].data \in Nat
  <2>1. row[c].data \in Nat
    BY DEF TypeOK
  <2> QED
    BY <1>2, <2>1, QueueTypes DEF SaveSafe
<1>4. CASE op = "logout"
  <2>1. \A n \in Slots : ~Holds(s, n, c)
    BY <1>2, <1>4 DEF CopySafe, Leaving, Frees
  <2>2. \A j \in DOMAIN queue[s] : queue[s][j].op = "logout" /\ queue[s][j].id = c => j = 1
    BY <1>2, <1>4, SoleLogout
  <2>3. Working(c) = queue[s][1].data
    BY <1>2, <1>4, <2>1, <2>2, LateWork
  <2>4. row'[c].cur = None /\ row'[c].data = queue[s][1].data
    BY <1>1, <1>2, <1>4
  <2>5. Working(c)' = row'[c].data
    BY <2>4, IdleWorkNext
  <2> QED
    BY <1>2, <2>3, <2>4, <2>5 DEF CheckedOut!HandBack
<1>5. CASE op = "backup"
  <2>0. row'[c].cur = s /\ row'[c].data = queue[s][1].data
    BY <1>1, <1>2, <1>5
  <2>1. CASE Held(s, c)
    <3>1. PICK n \in Slots : Holds(s, n, c)
      BY <2>1 DEF Held
    <3>2. \A m \in Slots : Holds(s, m, c) => m = n
      BY <3>1 DEF CopySafe
    <3>3. Holds(s, n, c)' /\ ch'[s][n].data = ch[s][n].data /\ \A m \in Slots : Holds(s, m, c)' => m = n
      BY <1>1, <3>1, <3>2 DEF CopiesRest
    <3>4. Working(c) = ch[s][n].data /\ Working(c) \in Nat
      BY <1>2, <3>1, <3>2, HeldWork, DataNumbers
    <3>5. Working(c)' = Working(c)
      BY <2>0, <3>3, <3>4, HeldWorkNext
    <3>6. queue[s][1].data <= Working(c)
      BY <1>2, <3>1, <3>4 DEF SaveSafe
    <3>7. row'[c].data \in row[c].data .. Working(c)
      BY <1>3, <2>0, <3>4, <3>6
    <3> QED
      BY <1>2, <2>0, <3>5, <3>7 DEF CheckedOut!Save
  <2>2. CASE ~Held(s, c)
    <3>1. PICK i \in DOMAIN queue[s] : queue[s][i].op = "logout" /\ queue[s][i].id = c
      BY <1>2, <2>2 DEF SaveSafe, LoggingOut
    <3>2. i # 1 /\ i \in Nat /\ i > 0
      BY <1>2, <1>5, <3>1, QueueTypes
    <3>3. i - 1 \in DOMAIN queue'[s] /\ queue'[s][i - 1] = queue[s][i]
      BY <1>1, <3>2, TailOld DEF Executed
    <3>4. (\A n \in Slots : ~Holds(s, n, c)) /\ \A n \in Slots : ~Holds(s, n, c)'
      BY <1>1, <2>2 DEF Held, CopiesRest
    <3>5. \A j \in DOMAIN queue[s] : queue[s][j].op = "logout" /\ queue[s][j].id = c => j = i
      BY <3>1, SoleLogout
    <3>6. Working(c) = queue[s][i].data
      BY <1>2, <3>1, <3>4, <3>5, LateWork
    <3>7. queue'[s][i - 1].op = "logout" /\ queue'[s][i - 1].id = c
      BY <3>1, <3>3
    <3>8. \A j \in DOMAIN queue'[s] : queue'[s][j].op = "logout" /\ queue'[s][j].id = c => j = i - 1
      BY <3>3, <3>7, SoleLogoutNext
    <3>9. Working(c)' = queue'[s][i - 1].data
      BY <2>0, <3>3, <3>4, <3>7, <3>8, LateWorkNext
    <3>10. SaveSafe(s, i, c) /\ 1 < i
      BY <3>1, <3>2 DEF SavesSafe, Saves
    <3>11. queue[s][1].data <= queue[s][i].data /\ queue[s][i].data \in Nat
      BY <1>2, <3>10, QueueTypes DEF SaveSafe
    <3>12. row'[c].data \in row[c].data .. Working(c)
      BY <1>3, <2>0, <3>6, <3>11
    <3> QED
      BY <1>2, <2>0, <3>3, <3>6, <3>9, <3>12 DEF CheckedOut!Save
  <2> QED
    BY <2>1, <2>2
<1> QED
  BY <1>4, <1>5

\* A row is freed that has neither a copy nor a save.
LEMMA FreeStep ==
    ASSUME TypeOK, NEW c \in Chars, DownSafe, CopySafe(c)', SavesSafe(c), Released(c) \/ Swept(c)
    PROVE  CheckedOut!Revoke(c)
<1>1. PICK s \in Servers : row[c].cur = s
  BY DEF Released, Swept
<1>2. /\ row'[c].cur = None /\ row'[c].data = row[c].data /\ CopiesRest(s, c) /\ ~LoggingOut(s, c)
  BY FreedHasNoSaves, NoSavesNoLogout DEF Freeing, Rests
<1>3. s # None
  BY NoneAssumption
<1>4. \A n \in Slots : ~Holds(s, n, c)
  BY <1>2, <1>3 DEF CopySafe, CopiesRest
<1>5. Working(c) = row[c].data
  BY <1>1, <1>2, <1>4, LostWork
<1>6. Working(c)' = row'[c].data
  BY <1>2, IdleWorkNext
<1> QED
  BY <1>1, <1>2, <1>3, <1>5, <1>6 DEF CheckedOut!Revoke

\* A free row is marked by a load.
LEMMA LoadStep ==
    ASSUME TypeOK, TypeOK', NEW c \in Chars, CopySafe(c), SavesSafe(c), Loaded(c)
    PROVE  CheckedOut!TakeOut(c)
<1>1. PICK s \in Servers :
         /\ row[c].cur = None /\ row'[c].cur = s /\ row'[c].data = row[c].data
         /\ QueueRests(s, c) /\ CopiesRest(s, c)
  BY DEF Loaded
<1>2. row[c].cur # s
  BY <1>1, NoneAssumption
<1>3. \A n \in Slots : ~Holds(s, n, c)'
  BY <1>1, <1>2 DEF CopySafe, CopiesRest
<1>4. ~LoggingOut(s, c)'
  BY <1>1, <1>2, OwnerSaves, NoSavesNoLogout, LoggingOutWas
<1>5. Working(c)' = row'[c].data
  BY <1>1, <1>3, <1>4, LostWorkNext
<1> QED
  BY <1>1, <1>5 DEF CheckedOut!TakeOut

\* Whatever is done to a character is a step of the check-out.
LEMMA CheckOutStep ==
    ASSUME NoAllocFail, TypeOK, TypeOK', NEW c \in Chars, DownSafe, PlayersSafe, CopySafe(c), CopySafe(c)', CreationSafe(c),
           DataSafe(c), SavesSafe(c)', Handled(c)
    PROVE  \/ CheckedOut!TakeOut(c) \/ CheckedOut!Work(c) \/ CheckedOut!Save(c) \/ CheckedOut!HandBack(c)
           \/ CheckedOut!Lose(c) \/ CheckedOut!Revoke(c) \/ CheckedOut!Rest(c)
<1>1. SavesSafe(c) /\ FreshSafe(c)
  BY DEF DataSafe
<1>2. CASE Untouched(c)
  BY <1>1, <1>2, RestStep DEF Untouched, Rests
<1>3. CASE Worked(c)
  BY <1>3, WorkStep
<1>4. CASE Kicked(c)
  BY <1>4, KickStep
<1>5. CASE Backed(c)
  BY <1>5, BackStep
<1>6. CASE Made(c)
  BY <1>1, <1>6, MadeStep
<1>7. CASE Dropped(c)
  BY <1>1, <1>7, DropStep
<1>8. CASE Lost(c)
  BY <1>1, <1>8, LostStep
<1>9. CASE Stored(c)
  BY <1>1, <1>9, StoreStep
<1>10. CASE Released(c) \/ Swept(c)
  BY <1>1, <1>10, FreeStep
<1>11. CASE Loaded(c)
  BY <1>1, <1>11, LoadStep
<1> QED
  BY <1>2, <1>3, <1>4, <1>5, <1>6, <1>7, <1>8, <1>9, <1>10, <1>11 DEF Handled

-----------------------------------------------------------------------------
(* The check-out.                                                           *)

\* The runs without "npc" have only such behaviours, the others may have different ones.
NoTakeover == [][NoMonsterTakesOver]_vars

AllDataSafe == \A c \in Settled : DataSafe(c)

\* What the ownership of the rows does not say: who plays what, and how new the data is.
PlaySafe == PlayersSafe /\ OkSafe /\ AllDataSafe

\* At the start nobody plays and nothing is queued.
LEMMA PlaySafeInit == Init => PlaySafe
<1> SUFFICES ASSUME Init PROVE PlaySafe
  OBVIOUS
<1>1. /\ \A s \in Servers : queue[s] = <<>> /\ login[s].status = "empty" /\ \A n \in Slots : ~ch[s][n].used
      /\ \A k \in Clients : conn[k].state = "off"
  BY DEF Init, NoLogin, FreeSlot, Offline
<1>2. PlayersSafe /\ OkSafe
  BY <1>1 DEF PlayersSafe, OkSafe
<1>3. ASSUME NEW c \in Settled PROVE DataSafe(c)
  <2>1. SavesSafe(c) /\ ProgressSafe(c)
    BY <1>1 DEF SavesSafe, ProgressSafe, Holds
  <2>2. FreshSafe(c)
    BY <1>1 DEF FreshSafe, Creating, Unclaimed
  <2> QED
    BY <2>1, <2>2 DEF DataSafe
<1> QED
  BY <1>2, <1>3 DEF PlaySafe, AllDataSafe

\* Each step keeps the players' and the characters' data safe.
LEMMA PlaySafeStep ==
    ASSUME NoBareKick, NoAllocFail, TypeOK, TypeOK', OwnershipSafe, PlaySafe, [Next]_vars, NoMonsterTakesOver
    PROVE  PlaySafe'
<1>1. PlayersSafe' /\ OkSafe'
  BY PlayersStep DEF PlaySafe, OwnershipSafe
<1>2. ASSUME NEW c \in Settled' PROVE DataSafe(c)'
  <2>1. Handled(c) /\ c \in Settled /\ c \in Chars
    BY StepHandles
  <2>2. DataSafe(c) /\ PlayersSafe /\ CopySafe(c) /\ CreationSafe(c) /\ DownSafe /\ LinkSafe
    BY <2>1 DEF OwnershipSafe, PlaySafe, AllDataSafe
  <2> QED
    BY <2>1, <2>2, SavesStep, ProgressStep, FreshStep DEF DataSafe
<1> QED
  BY <1>1, <1>2 DEF PlaySafe, AllDataSafe

\* What is written for a settled character never goes back.
LEMMA ProgressGrows ==
    ASSUME NoBareKick, NoAllocFail, TypeOK, TypeOK', OwnershipSafe, PlaySafe, [Next]_vars, NEW c \in Settled, c \notin strayed'
    PROVE  row'[c].data >= row[c].data
<1>1. Handled(c) /\ c \in Chars
  BY StepHandles DEF Settled
<1>2. row[c].data \in Nat /\ row'[c].data \in Nat
  BY <1>1 DEF TypeOK
<1>3. CASE row'[c].data = row[c].data
  BY <1>2, <1>3
<1>4. CASE Stored(c)
  <2>1. PICK s \in Servers, op \in {"backup", "logout"} :
           Executed(s, c, op) /\ (row[c].cur = s => row'[c].data = Head(queue[s]).data)
    BY <1>4 DEF Stored
  <2>2. SavesSafe(c)
    BY DEF PlaySafe, AllDataSafe, DataSafe
  <2> QED
    BY <1>1, <1>2, <2>1, <2>2, StoresOwn, QueueTypes DEF SaveSafe
<1> QED
  BY <1>1, <1>3, <1>4 DEF Handled, Untouched, Worked, Kicked, Backed, Made, Dropped, Lost, Released, Swept, Freeing,
                          Loaded, RowRests

\* At the start nothing is checked out.
LEMMA CheckOutInit == Init => CheckedOut!CInit
<1> SUFFICES ASSUME Init PROVE CheckedOut!CInit
  OBVIOUS
<1>1. ASSUME NEW c \in Chars PROVE row[c].cur = None /\ row[c].data = 0 /\ Working(c) = 0
  <2>1. row[c].cur = None /\ row[c].data = 0
    BY DEF Init
  <2> QED
    BY <2>1, IdleWork
<1>2. strayed = {}
  BY DEF Init
<1> QED
  BY <1>1, <1>2 DEF CheckedOut!CInit

\* Each step does to the settled characters what the check-out allows.
LEMMA CheckOutNext ==
    ASSUME NoBareKick, NoAllocFail, TypeOK, TypeOK', OwnershipSafe, OwnershipSafe', PlaySafe, PlaySafe', [Next]_vars
    PROVE  CheckedOut!CNext
<1>1. strayed \subseteq strayed'
  BY StrayedGrows DEF Settled, TypeOK
<1>2. ASSUME NEW c \in Chars \ strayed'
      PROVE  \/ CheckedOut!TakeOut(c) \/ CheckedOut!Work(c) \/ CheckedOut!Save(c) \/ CheckedOut!HandBack(c)
             \/ CheckedOut!Lose(c) \/ CheckedOut!Revoke(c) \/ CheckedOut!Rest(c)
  <2>1. c \in Settled' /\ Handled(c) /\ c \in Settled /\ c \in Chars
    BY <1>2, StepHandles DEF Settled
  <2>2. /\ DataSafe(c) /\ PlayersSafe /\ CopySafe(c) /\ CreationSafe(c) /\ DownSafe
        /\ CopySafe(c)' /\ SavesSafe(c)'
    BY <2>1 DEF OwnershipSafe, PlaySafe, AllDataSafe, DataSafe
  <2> QED
    BY <2>1, <2>2, CheckOutStep
<1> QED
  BY <1>1, <1>2 DEF CheckedOut!CNext

\* A step that does nothing spawns nothing.
LEMMA NoStepSpawns ==
    ASSUME TypeOK, UNCHANGED vars
    PROVE  NoMonsterTakesOver
<1> SUFFICES ASSUME NEW s \in Servers, NEW n \in Slots, SpawnNpc(s, n) PROVE FALSE
  BY DEF NoMonsterTakesOver
<1>1. ~ch[s][n].used /\ ch' = [ch EXCEPT ![s][n] = [FreeSlot EXCEPT !.used = TRUE]]
  BY DEF SpawnNpc
<1>2. ch'[s][n].used
  BY <1>1 DEF TypeOK, FreeSlot
<1> QED
  BY <1>1, <1>2 DEF vars

\* (The inductive invariant of the next two theorems.)  Who plays has a character that
\* is his, and of every settled character the saves are in order and its copies up to date.
THEOREM PlaySafeKept == ASSUME NoBareKick, NoAllocFail PROVE Spec /\ NoTakeover => []PlaySafe
<1>1. TypeOK /\ TypeOK' /\ OwnershipSafe /\ PlaySafe /\ [Next]_vars /\ [NoMonsterTakesOver]_vars => PlaySafe'
  BY NoStepSpawns, PlaySafeStep
<1> QED
  BY <1>1, PlaySafeInit, TypeCorrect, OwnershipKept, PTL DEF Spec, NoTakeover

\* What the database has of a settled character never goes back: no delayed backup or
\* logout (db_thread) puts older data over newer data.
THEOREM ProgressIsKept == ASSUME NoBareKick, NoAllocFail PROVE Spec /\ NoTakeover => ProgressKept
<1>1. TypeOK /\ TypeOK' /\ OwnershipSafe /\ PlaySafe /\ [Next]_vars =>
         [\A c \in Settled : c \notin strayed' => row'[c].data >= row[c].data]_vars
  BY ProgressGrows
<1> QED
  BY <1>1, TypeCorrect, OwnershipKept, PlaySafeKept, PTL DEF Spec, ProgressKept

\* The login, backup and logout protocol of all servers implements the check-out of
\* characters, step by step.
THEOREM CharactersAreCheckedOut == ASSUME NoBareKick, NoAllocFail PROVE Spec /\ NoTakeover => ImplementsCheckOut
<1>1. TypeOK /\ TypeOK' /\ OwnershipSafe /\ OwnershipSafe' /\ PlaySafe /\ PlaySafe' /\ [Next]_vars
         => [CheckedOut!CNext]_(CheckedOut!cvars)
  BY CheckOutNext
<1> QED
  BY <1>1, CheckOutInit, TypeCorrect, OwnershipKept, PlaySafeKept, PTL DEF Spec, ImplementsCheckOut, CheckedOut!CSpec
=============================================================================
