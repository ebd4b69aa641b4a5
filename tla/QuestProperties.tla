--------------------------- MODULE QuestProperties ---------------------------
(***************************************************************************)
(* What the quest givers and the quest log promise each other.  Each       *)
(* property names the quests of the code that do not keep it.              *)
(***************************************************************************)
EXTENDS Quests

\* The quests some giver of this line rewards.
Rewards(n) ==
    {p[2] : p \in Book[n].talk.dones} \cup {g[3] : g \in Book[n].give}
    \cup {g[4] : g \in Book[n].parts}
RewardedHere == (UNION {Rewards(n) : n \in line}) \ {NoQuest}

(***************************************************************************)
(* Whenever a quest giver waits for the player, the log that the player    *)
(* has agrees with the one questlog_init would write from the givers'      *)
(* states for a character that has none: a quest stands as done in both or *)
(* in neither.  Not kept by quest 0 (JamesAgain), by quest 22, which the   *)
(* imp rewards before it turns William's state, and by the thieves' quests *)
(* once the guild master was killed, which the states tell as done.        *)
(***************************************************************************)
Thieves == 25 .. 28
JamesAgain == {0}
LogAgrees ==
    reopened = 0 =>
        \A p \in InitDone :
            (/\ p[2] \in line
             /\ state[p[2]] \in Book[p[2]].talk.waits
             /\ p[1] \notin JamesAgain \cup {22} \cup Thieves)
            => (questlog_isdone(quest, p[1]) <=> state[p[2]] >= p[3])

(***************************************************************************)
(* A quest that stands as done is rewarded no second time, and opened no   *)
(* second time, but through the log: not by asking to repeat, not by       *)
(* coming back late, not by handing the item in twice, in whatever order   *)
(* the player sees the givers.  Not kept by                                *)
(*   quest 0    James opens it again between Lydia's reward (5) and her    *)
(*              thanks (6): he asks for state 6 (gwendylon.c:1036)         *)
(*   quest 29   Sanwyn's repeat takes 8 back to 7 and rewards again        *)
(*   quest 61   Carlos' repeat asks for carlos_state where it resets       *)
(*              carlos2_state, which opens the ritual again                *)
(*   25-28      the guild master starts over with who lost his keys        *)
(*   a later quest of a series, once an earlier one was opened again: the  *)
(*              driver skips a done quest when it talks, and still takes   *)
(*              the item when it is handed over first                      *)
(***************************************************************************)
RewardedTwice == JamesAgain \cup {29, 61} \cup Thieves
Later == {2, 3, 4, 8, 42, 43, 46}
DoneStays ==
    [][reopened' = reopened =>
          \A q \in DOMAIN quest :
             (/\ quest[q].flags = Done
              /\ q \notin RewardedTwice
              /\ (reopened = 0 \/ q \notin Later))
             => quest'[q] = quest[q]]_vars

\* At most one quest of a series is open at any time: drivers open the next
\* one only when the last was rewarded, and the log refuses to open one again
\* while another is open (questlog.c:263-472).
OneOfSeries ==
    \A s \in Series : Cardinality({q \in s \cap DOMAIN quest : quest[q].flags = Open}) <= 1

\* The log and the givers tell one story.
LogSound == LogAgrees /\ OneOfSeries

(***************************************************************************)
(* Whatever the player asked, in whatever order he went, and whatever he   *)
(* opened again: if he keeps talking and bringing what is asked for, every *)
(* quest that was opened gets done; no two givers wait for each other, and *)
(* no state of a driver is a dead end.  Not kept by quest 0 (JamesAgain),  *)
(* by the thieves' quests, whose master the player may kill, and by the    *)
(* clerk's test (76), whose time may run out.                              *)
(***************************************************************************)
Unfinishable == JamesAgain \cup Thieves \cup {76}
AllFinished == <>[](\A q \in RewardedHere \ Unfinishable : quest[q].flags # Open)

(***************************************************************************)
(* Why that is so is a matter of the givers' tables alone, one quest at a  *)
(* time.  Steps tells what a giver can make of quest q, which stands as f, *)
(* from state s, whatever the rest of the log is.  "shows" says for each   *)
(* giver who has to do with q, and each of his states, how q may stand     *)
(* while he is in that state: Keeps, that no step leads out of that; Firm, *)
(* that no step rewards or opens what stands as done; Reopens, that        *)
(* questlog_reopen does not lead out of it either.                         *)
(***************************************************************************)
Flags == {Untouched, Open, Done}
Givers == DOMAIN Book
GiversOf(q) == {n \in Givers : q \in QuestsOf(n)}

\* The states of a driver: its last case waits, or jumps back.  Krenach says
\* what he has to say in one go.
States ==
    [n \in Givers |->
        LET ends == Book[n].talk.waits \cup {p[1] : p \in Book[n].talk.jumps}
        IN  (0 .. (CHOOSE s \in ends : \A r \in ends : s >= r)) \ (IF n = "krenach" THEN {1} ELSE {})]

\* Quests whose parts are counted: once done, the count is full, and no part
\* is taken.
Tallied == {40, 76}

\* Quests a driver asks for as ever rewarded.
Known == UNION {{r[2] : r \in Book[n].talk.known} : n \in Givers}

\* How q stands after the lines of state s.
Entry(q, t, s, f) ==
    questlog_close(questlog_open(questlog_done([x \in {q} |-> [done |-> 0, flags |-> f]],
        At(t.dones, s)), At(t.opens, s)), At(t.closes, s))[q].flags

CaseOf(q, t, s, f) ==
    LET asked_for == {r \in t.known : r[1] = s /\ r[2] = q /\ f = Done}
        held == asked_for # {} \/ \E r \in t.skips : r[1] = s /\ r[2] = q /\ f = Done
        past == {r \in t.known : r[1] = s /\ \A h \in asked_for : r[3] >= h[3]}
                \cup {r \in t.skips : r[1] = s /\ (r[2] = q => f = Done)}
        ends == IF held THEN {} ELSE IF At(t.jumps, s) # {} THEN At(t.jumps, s) ELSE {s + 1}
    IN  {[to |-> r[3], flag |-> f, again |-> FALSE] : r \in past}
        \cup {[to |-> r[4], flag |-> f, again |-> FALSE] : r \in {m \in t.meets : m[1] = s}}
        \cup {[to |-> x, flag |-> Entry(q, t, s, f),
               again |-> f = Done /\ q \in At(t.dones, s) \cup At(t.opens, s)] : x \in ends}

\* He may have nothing to say in s.
Quiet(t, s) ==
    \/ s \in t.waits \/ t.before # {} \/ t.after # {}
    \/ \E p \in t.needs \cup t.until \cup t.full : p[1] = s

CasesOf(q, t, s, f) ==
    IF s \notin t.falls THEN CaseOf(q, t, s, f)
    ELSE UNION {IF c.to # s + 1 \/ s + 1 \in t.waits THEN {c}
                ELSE (IF Quiet(t, s + 1) THEN {c} ELSE {})
                     \cup {[d EXCEPT !.again = c.again \/ @] : d \in CaseOf(q, t, s + 1, c.flag)} :
                    c \in CaseOf(q, t, s, f)}

\* A step turns others on leaving "from", and is taken when those he needs have
\* got as far as "due" says.
Step(s, x, f, again, due) == [from |-> s, to |-> x, flag |-> f, again |-> again, due |-> due]
Talks(q, t, s, f) ==
    IF s \in t.waits THEN {}
    ELSE {Step(s, c.to, c.flag, c.again, {p \in t.needs : p[1] = s}) : c \in CasesOf(q, t, s, f)}
From(rows, s) == {p \in rows : s \in p[1] .. p[2]}
Reward(q, r, f) == IF q = r THEN Done ELSE f

Plain(s, xs, f) == {Step(s, x, f, FALSE, {}) : x \in xs}
Returns(q, t, s, f) ==
    UNION {Talks(q, t, p[3], f) \cup (IF Quiet(t, p[3]) THEN Plain(s, {p[3]}, f) ELSE {}) : p \in From(t.late, s)}
Gifts(q, rows, s, f) == {Step(s, g[4], Reward(q, g[3], f), q = g[3] /\ f = Done, {}) : g \in From(rows, s)}
Parts(q, rows, s, f) ==
    {Step(s, IF g[5] = Stay THEN s ELSE g[5], Reward(q, g[4], f), q = g[4] /\ f = Done /\ q \notin Tallied, {}) :
        g \in From(rows, s)}

Steps(q, n, s, f) ==
    LET b == Book[n]
        t == b.talk
    IN  Talks(q, t, IF s < t.least THEN t.least ELSE s, f) \cup Returns(q, t, s, f)
        \cup Plain(s, At(t.either, s) \cup {p[3] : p \in From(b.repeat \cup b.some, s)}, f)
        \cup Gifts(q, b.give, s, f) \cup Parts(q, b.parts, s, f)
        \cup (IF From(b.parts, s) # {} THEN Plain(s, {s}, f) ELSE {})

Moves(shows, n, f, o) ==
    /\ o.to \in States[n] /\ o.flag \in shows[n][o.to]
    /\ f # o.flag => \A m \in DOMAIN shows \ {n} : \A u \in States[m] :
           (f \in shows[m][u] /\ \A p \in o.due : p[2] = m => ~(u < p[3])) => o.flag \in shows[m][u]
    /\ \A p \in Book[n].talk.turns : p[1] = o.from /\ p[2] \in DOMAIN shows =>
           p[3] \in States[p[2]] /\ o.flag \in shows[p[2]][p[3]]

Keeps(shows, q) ==
    \A n \in DOMAIN shows : \A s \in States[n] : \A f \in shows[n][s] : \A o \in Steps(q, n, s, f) :
        Moves(shows, n, f, o)

Firm(shows, q) ==
    \A n \in DOMAIN shows : \A s \in States[n] :
        Done \in shows[n][s] => \A o \in Steps(q, n, s, Done) : ~o.again

Begins(shows) == \A n \in DOMAIN shows : 0 \in States[n] /\ Untouched \in shows[n][0]

Reopens(shows, q) ==
    \A n \in DOMAIN shows : \A s \in States[n] : \A f \in shows[n][s] :
        /\ f = Done /\ q \in Flagged =>
              IF \E r \in Resets : r[1] = q /\ r[2] = n
              THEN \A r \in Resets : r[1] = q /\ r[2] = n => r[3] \in States[n] /\ Open \in shows[n][r[3]]
              ELSE Open \in shows[n][s]
        /\ \A r \in Resets : r[1] # q /\ r[2] = n =>
              /\ r[3] \in States[n]
              /\ f \in shows[n][r[3]] \/ (f = Open /\ \E z \in Series : q \in z /\ r[1] \in z)

-----------------------------------------------------------------------------
\* From which state of a giver on a quest stands as done: the one questlog_init
\* asks for, but where the reward comes some lines before or after it.
Since ==
    {p \in InitDone : p[1] \notin {14, 15, 18, 24}}
    \cup {<<14, "kelly", 10>>, <<15, "kelly", 17>>, <<18, "crypt", 10>>, <<24, "hermit", 6>>}

\* The imp turns William back to 3, and Sanwyn repeats his last line.
Unsure == {<<23, "william", 3>>, <<29, "sanwyn", 7>>}
Told ==
    [q \in {p[1] : p \in Since} |-> [n \in GiversOf(q) |-> [s \in States[n] |->
        IF <<q, n, s>> \in Unsure THEN Flags
        ELSE {f \in Flags : \A p \in Since : p[1] = q /\ p[2] = n => (f = Done <=> s >= p[3])}]]]

Serial == UNION Series

\* The states in which a quest of a series may be open: those after the reward
\* for the one before.  The imp turns William when he has rewarded the first.
ItsTurn(q, n, s) ==
    \A z \in Series : q \in z =>
        \A p, r \in Since : p[1] \in z /\ r[1] = q /\ p[2] = n /\ r[2] = n =>
            /\ s < r[3]
            /\ r[3] > p[3] => s >= p[3]
Turn ==
    [q \in Serial |-> [n \in GiversOf(q) |-> [s \in States[n] |->
        IF q = 22 /\ ((n = "imp" /\ s >= 4) \/ (n = "william" /\ s >= 3)) THEN {Done}
        ELSE IF ItsTurn(q, n, s) THEN Flags ELSE {Untouched, Done}]]]

\* A quest is not done in states from which its giver rewards or opens it by
\* and by.
Once == (UNION {QuestsOf(n) : n \in Givers}) \ ({NoQuest} \cup RewardedTwice \cup Later)
Risky(q, n) ==
    LET near[k \in 0 .. 30] ==
            LET nearer == IF k = 0 THEN {} ELSE near[k - 1]
            IN  {s \in States[n] : \E o \in Steps(q, n, s, Done) :
                    o.again \/ (o.flag = Done /\ o.to \in nearer)}
    IN  near[30]
Held ==
    [q \in Once |-> [n \in GiversOf(q) |->
        LET risky == Risky(q, n)
        IN  [s \in States[n] |-> IF s \in risky THEN {Untouched, Open} ELSE Flags]]]

\* The quests LogAgrees speaks of.
Checked == {p \in InitDone : p[1] \notin JamesAgain \cup {22} \cup Thieves}

ASSUME LinesOfGivers == \A l \in Lines : l \subseteq Givers

\* Of the quests a driver asks for as ever rewarded, some row is the greatest,
\* and whom a giver turns has to do with no quest that is not his.
ASSUME TablesRegular ==
    \A n \in Givers :
        /\ \A known \in SUBSET {p[3] : p \in Book[n].talk.known} :
               known # {} => \E x \in known : \A y \in known : x >= y
        /\ \A p \in Book[n].talk.turns : QuestsOf(p[2]) \ {NoQuest} \subseteq QuestsOf(n)

\* The states of who waits tell what questlog_init takes from them.
ASSUME GiversTell ==
    \A p \in Checked :
        /\ p[1] \in QuestsOf(p[2]) \ {NoQuest}
        /\ Keeps(Told[p[1]], p[1]) /\ Begins(Told[p[1]])
        /\ \A s \in States[p[2]] \cap Book[p[2]].talk.waits : \A f \in Told[p[1]][p[2]][s] :
               f = Done <=> s >= p[3]

\* Every series has a giver whose state tells whose turn it is.
ASSUME GiversTakeTurns ==
    /\ \A q \in Serial : Keeps(Turn[q], q) /\ Begins(Turn[q]) /\ Reopens(Turn[q], q)
    /\ \A z \in Series : \E n \in Givers :
           /\ z \subseteq QuestsOf(n)
           /\ \A l \in Lines : (\E m \in l : z \cap QuestsOf(m) # {}) => n \in l
           /\ \A q, r \in z : q # r => \A s \in States[n] : Open \notin Turn[q][n][s] \cap Turn[r][n][s]

\* No giver comes to reward or open what stands as done; of the later quests of a
\* series while none was opened again.
ASSUME GiversRewardOnce ==
    /\ \A q \in Once : Keeps(Held[q], q) /\ Firm(Held[q], q) /\ Begins(Held[q]) /\ Reopens(Held[q], q)
    /\ \A q \in Later : q \in {p[1] : p \in Checked} /\ Firm(Told[q], q)

\* A quest asked for as ever rewarded is not opened again, and one case of a
\* driver rewards or opens it at a time.
ASSUME KnownOnce ==
    \A q \in Known :
        /\ q \in Once /\ q \notin Flagged
        /\ \A n \in Givers :
              LET t == Book[n].talk
              IN  /\ \A p \in t.closes : p[2] # q
                  /\ \A p \in t.dones, r \in t.opens : ~(p[1] = r[1] /\ p[2] = q /\ r[2] = q)
                  /\ \A p \in t.dones \cup t.opens : p[2] = q => p[1] \notin t.falls

\* What counts towards a quest is counted for nothing else.
ASSUME TalliesMatch ==
    \A q \in Tallied : \A n \in Givers :
        /\ \A p \in Book[n].talk.dones \cup Book[n].talk.closes : p[2] # q
        /\ \A g \in Book[n].give : g[3] # q
        /\ (\E g \in Book[n].parts : g[4] = q) =>
              /\ \A g, h \in Book[n].parts : g[3] = h[3] /\ g[3] \in Nat /\ g[4] = q /\ ~g[6]
              /\ \A m \in Givers \ {n} : \A g \in Book[m].parts : g[4] # q
              /\ n = "count" => q = 40
=============================================================================
