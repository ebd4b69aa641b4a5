------------------------------- MODULE Quests -------------------------------
(***************************************************************************)
(* A player and the quest givers of one line of quests: those that hand    *)
(* each other's players on.  What a driver asks for that is not a state of *)
(* another quest giver of the line (an item to carry, a level, a kill the  *)
(* game counts elsewhere) comes about at some time, so that it delays a    *)
(* talk and no more.                                                       *)
(***************************************************************************)
EXTENDS QuestLog, QuestsCameron, QuestsAston, QuestsFrontier, QuestsArkhata,
        Residents

CONSTANTS
    Lines,       \* sets of quest givers
    MaxAsked,    \* how often the player asks to repeat, is late, or sends a giver elsewhere
    MaxReopened  \* how often he opens a quest again

ASSUME QuestBounds == MaxAsked \in Nat /\ MaxReopened \in Nat

VARIABLES
    line,      \* the quest givers this player deals with
    state,     \* the state each of them keeps for him
    tally,     \* the parts each of them has got from him
    quest,     \* his quest log
    asked, reopened

vars == <<line, state, tally, quest, asked, reopened>>

Book == Cameron @@ Aston @@ Brannington @@ Frontier @@ Arkhata @@ Elsewhere

QuestsOf(n) ==
    {p[2] : p \in Book[n].talk.opens \cup Book[n].talk.dones \cup Book[n].talk.closes
                  \cup Book[n].talk.skips \cup Book[n].talk.known}
    \cup Book[n].talk.before \cup Book[n].talk.after
    \cup {g[3] : g \in Book[n].give} \cup {g[4] : g \in Book[n].parts}

At(pairs, s) == {p[2] : p \in {r \in pairs : r[1] = s}}

Init ==
    /\ line \in Lines
    /\ state = [n \in line |-> 0]
    /\ tally = [n \in line |-> 0]
    /\ quest = [q \in (UNION {QuestsOf(n) : n \in line}) \ {NoQuest} |-> NoEntry]
    /\ asked = 0
    /\ reopened = 0

-----------------------------------------------------------------------------
Behind(n, least) == n \in line /\ state[n] < least
Beyond(n, most) == n \in line /\ state[n] > most
Knows(q) == questlog_count(quest, q) > 0

\* The driver has something to say in state s.
Speaks(t, s) ==
    /\ s \notin t.waits
    /\ \A p \in t.needs : p[1] = s => ~Behind(p[2], p[3])
    /\ \A p \in t.until : p[1] = s => ~Beyond(p[2], p[3])
    /\ \A p \in t.full : p[1] = s => (p[2] \in line => tally[p[2]] >= p[3])
    /\ \A q \in t.before : ~Knows(q)
    /\ \A q \in t.after : Knows(q)

\* The states it may jump to from s instead of saying its lines.
Jumps(t, s, log) ==
    LET known == {p[3] : p \in {r \in t.known : r[1] = s /\ questlog_count(log, r[2]) > 0}}
        skips == {p[3] : p \in {r \in t.skips : r[1] = s /\ questlog_isdone(log, r[2])}}
        meets == {p[4] : p \in {r \in t.meets : r[1] = s /\ Beyond(r[2], r[3] - 1)}}
    IN  IF known # {} THEN {x \in known : \A y \in known : x >= y} ELSE skips \cup meets

\* What one case of the switch makes of the state and the log.
Case(t, s, log) ==
    IF Jumps(t, s, log) # {}
    THEN {[to |-> x, log |-> log] : x \in Jumps(t, s, log)}
    ELSE {[to |-> x, log |-> questlog_close(
                questlog_open(questlog_done(log, At(t.dones, s)), At(t.opens, s)), At(t.closes, s))] :
              x \in IF At(t.jumps, s) # {} THEN At(t.jumps, s) ELSE {s + 1}}

Cases(t, s) ==
    IF s \notin t.falls THEN Case(t, s, quest)
    ELSE UNION {IF r.to = s + 1 /\ Speaks(t, s + 1) THEN Case(t, s + 1, r.log) ELSE {r} :
                    r \in Case(t, s, quest)}

Turned(t, s, n, to) ==
    [m \in line |-> IF m = n THEN to
                    ELSE IF \E p \in t.turns : p[1] = s /\ p[2] = m
                    THEN (CHOOSE p \in t.turns : p[1] = s /\ p[2] = m)[3] ELSE state[m]]

\* NT_CHAR: the player is near.
Talk(n) ==
    LET t == Book[n].talk
        s == IF state[n] < t.least THEN t.least ELSE state[n]
    IN  /\ Speaks(t, s)
        /\ \E r \in Cases(t, s) :
              /\ state' = Turned(t, s, n, r.to)
              /\ quest' = r.log
        /\ UNCHANGED <<line, tally, asked, reopened>>

\* The same when he was away for more than two minutes.
ComesLate(n) ==
    LET t == Book[n].talk
    IN  /\ asked < MaxAsked
        /\ \E p \in t.late :
              /\ state[n] \in p[1] .. p[2]
              /\ IF Speaks(t, p[3])
                 THEN \E r \in Cases(t, p[3]) :
                         /\ state' = Turned(t, p[3], n, r.to)
                         /\ quest' = r.log
                 ELSE state' = [state EXCEPT ![n] = p[3]] /\ UNCHANGED quest
        /\ asked' = asked + 1
        /\ UNCHANGED <<line, tally, reopened>>

\* The player carries something, or is of a level, that sends the driver
\* elsewhere.
Strays(n) ==
    LET t == Book[n].talk
    IN  /\ asked < MaxAsked
        /\ Speaks(t, state[n])
        /\ \E to \in At(t.either, state[n]) : state' = Turned(t, state[n], n, to)
        /\ asked' = asked + 1
        /\ UNCHANGED <<line, tally, quest, reopened>>

\* NT_TEXT: he asks to repeat.
Ask(n) ==
    /\ asked < MaxAsked
    /\ \E p \in Book[n].repeat :
          /\ state[n] \in p[1] .. p[2]
          /\ \A w \in Book[n].while : w[1] = p[1] => ~Beyond(w[2], w[3])
          /\ state' = [state EXCEPT ![n] = p[3]]
    /\ asked' = asked + 1
    /\ UNCHANGED <<line, tally, quest, reopened>>

\* NT_GIVE: he hands over what is asked for; or the death or the use of
\* something is counted for him.
Take(n) ==
    /\ \E g \in Book[n].give :
          /\ state[n] \in g[1] .. g[2]
          /\ state' = Turned(Book[n].talk, state[n], n, g[4])
          /\ quest' = questlog_done(quest, {g[3]})
    /\ UNCHANGED <<line, tally, asked, reopened>>

Somewhere(n) ==
    LET rows == {r \in Book[n].some : state[n] \in r[1] .. r[2]}
    IN  IF rows = {} THEN {state} ELSE {[state EXCEPT ![n] = r[3]] : r \in rows}

\* Mutant: he takes parts that he has got already.
WantsAll(n, g) == state[n] \in g[1] .. g[2] /\ tally[n] <= g[3]

Wants(n, g) == state[n] \in g[1] .. g[2] /\ tally[n] < g[3]

\* The same for one of several parts.
TakePart(n) ==
    /\ \E g \in Book[n].parts :
          /\ Wants(n, g)
          /\ IF tally[n] + 1 < g[3]
             THEN /\ tally' = [tally EXCEPT ![n] = @ + 1]
                  /\ state' \in Somewhere(n)
                  /\ UNCHANGED quest
             ELSE /\ tally' = [tally EXCEPT ![n] = IF g[6] THEN 0 ELSE @ + 1]
                  /\ state' = IF g[5] = Stay THEN state ELSE [state EXCEPT ![n] = g[5]]
                  /\ quest' = questlog_done(quest, {g[4]})
    /\ UNCHANGED <<line, asked, reopened>>

\* He opens a quest again (questlog_reopen).
Reopen(q) ==
    /\ reopened < MaxReopened
    /\ MayReopen(quest, q)
    /\ state' = [n \in line |-> IF \E r \in Resets : r[1] = q /\ r[2] = n
                                THEN (CHOOSE r \in Resets : r[1] = q /\ r[2] = n)[3] ELSE state[n]]
    /\ tally' = [n \in line |-> IF q = 40 /\ n = "count" THEN 0 ELSE tally[n]]
    /\ quest' = questlog_open(quest, {q})
    /\ reopened' = reopened + 1
    /\ UNCHANGED <<line, asked>>

GoesOn == \E n \in line : Talk(n) \/ Take(n) \/ TakePart(n)

Next ==
    \/ GoesOn
    \/ \E n \in line : ComesLate(n) \/ Strays(n) \/ Ask(n)
    \/ \E q \in DOMAIN quest : Reopen(q)

Spec == Init /\ [][Next]_vars /\ WF_vars(GoesOn)
=============================================================================
