----------------------------- MODULE QuestProofs -----------------------------
(* The quest log and the quest givers tell one story, and no quest is rewarded *)
(* twice, for any lines of givers, however often the player asks to repeat,    *)
(* comes late or opens quests again.  What the givers' tables must be like for *)
(* that is assumed by name in QuestProperties, where TLC evaluates it; here it *)
(* is proved that this is enough.                                              *)
EXTENDS QuestProperties, FiniteSetTheorems, TLAPS

Entries == [done : Int, flags : Flags]

\* The log is one of entries, and the givers of the line have states and tallies.
Logged(log) == log \in [DOMAIN quest -> Entries]
QuestTypes ==
    /\ line \subseteq Givers /\ line \in Lines
    /\ DOMAIN state = line /\ tally \in [line -> Nat]
    /\ \A q : q \in DOMAIN quest <=> q # NoQuest /\ \E n \in line : q \in QuestsOf(n)
    /\ Logged(quest)
    /\ reopened \in Nat

\* How quest q stands in the log is shown by the states of those who have to do with it.
Fits(shows, q) ==
    q \in DOMAIN quest =>
        \A n \in line \cap DOMAIN shows : state[n] \in States[n] /\ quest[q].flags \in shows[n][state[n]]

\* A quest some driver asks for as ever rewarded was so once, if it stands as done.
Counted == \A q \in Known \cap DOMAIN quest : quest[q].done = IF quest[q].flags = Done THEN 1 ELSE 0

\* Of a done quest that is counted in parts, no part is missing.
Full ==
    \A q \in Tallied \cap DOMAIN quest : quest[q].flags = Done =>
        \A n \in line : \A g \in Book[n].parts : g[4] = q => tally[n] >= g[3]

\* Opening, rewarding and closing leave a log a log, and each entry as Entry says.
LEMMA EntriesChange ==
    ASSUME NEW log, Logged(log), NEW a, NEW b, NEW c
    PROVE  /\ Logged(questlog_open(log, a)) /\ Logged(questlog_done(log, a)) /\ Logged(questlog_close(log, a))
<1>1. \A q \in DOMAIN quest : log[q] \in Entries
  BY DEF Logged
<1>2. \A q \in DOMAIN quest : [log[q] EXCEPT !.flags = Open] \in Entries /\ [log[q] EXCEPT !.flags = Done] \in Entries
       /\ [done |-> (log[q].done + 1) % DoneLimit, flags |-> Done] \in Entries
  BY <1>1 DEF Entries, Flags, DoneLimit
<1>3. DOMAIN log = DOMAIN quest
  BY DEF Logged
<1> QED
  BY <1>1, <1>2, <1>3 DEF Logged, questlog_open, questlog_done, questlog_close

LEMMA EntryIs ==
    ASSUME NEW log, Logged(log), NEW q \in DOMAIN quest, NEW t, NEW s
    PROVE  questlog_close(questlog_open(questlog_done(log, At(t.dones, s)), At(t.opens, s)), At(t.closes, s))[q].flags
             = Entry(q, t, s, log[q].flags)
<1> DEFINE a == At(t.dones, s)  b == At(t.opens, s)  c == At(t.closes, s)
<1> HIDE DEF a, b, c
<1>1. log[q] \in Entries /\ DOMAIN log = DOMAIN quest
  BY DEF Logged
<1>2. PICK one : one = [x \in {q} |-> [done |-> 0, flags |-> log[q].flags]]
  OBVIOUS
<1>3. questlog_done(log, a)[q].flags = questlog_done(one, a)[q].flags
      /\ questlog_done(log, a)[q] \in Entries /\ questlog_done(one, a)[q] \in Entries
  BY <1>1, <1>2 DEF questlog_done, Entries, Flags, DoneLimit
<1>4. PICK l1 : l1 = questlog_done(log, a)
  OBVIOUS
<1>5. PICK o1 : o1 = questlog_done(one, a)
  OBVIOUS
<1>6. DOMAIN l1 = DOMAIN quest /\ DOMAIN o1 = {q}
  BY <1>1, <1>2, <1>4, <1>5 DEF questlog_done
<1>7. questlog_open(l1, b)[q].flags = questlog_open(o1, b)[q].flags
      /\ questlog_open(l1, b)[q] \in Entries /\ questlog_open(o1, b)[q] \in Entries
  BY <1>3, <1>4, <1>5, <1>6 DEF questlog_open, Entries, Flags
<1>8. PICK l2 : l2 = questlog_open(l1, b)
  OBVIOUS
<1>9. PICK o2 : o2 = questlog_open(o1, b)
  OBVIOUS
<1>10. DOMAIN l2 = DOMAIN quest /\ DOMAIN o2 = {q}
  BY <1>6, <1>8, <1>9 DEF questlog_open
<1>11. questlog_close(l2, c)[q].flags = questlog_close(o2, c)[q].flags
  BY <1>7, <1>8, <1>9, <1>10 DEF questlog_close, Entries
<1> QED
  BY <1>2, <1>4, <1>5, <1>8, <1>9, <1>11 DEF Entry, a, b, c

-----------------------------------------------------------------------------
\* One quest of the logs before and after, and what a step makes of it.
Becomes(q, log, next, d) ==
    /\ next[q].flags = d.flag
    /\ log[q].flags = Done /\ ~d.again => next[q] = log[q]

\* What counts as done was ever rewarded, if the driver may ask for that.
Asked(q, log) == q \in Known /\ log[q].flags = Done => log[q].done > 0

\* The lines of a state touch only the quests that they open, reward or close.
LEMMA LinesLeave ==
    ASSUME NEW log, Logged(log), NEW q \in DOMAIN quest, NEW a, NEW b, NEW c
    PROVE  LET next == questlog_close(questlog_open(questlog_done(log, a), b), c)
           IN  /\ q \notin a \cup b /\ log[q].flags # Open => next[q] = log[q]
               /\ q \notin a \cup b \cup c => next[q] = log[q]
<1>1. PICK l1 : l1 = questlog_done(log, a)
  OBVIOUS
<1>2. PICK l2 : l2 = questlog_open(l1, b)
  OBVIOUS
<1>3. PICK l3 : l3 = questlog_close(l2, c)
  OBVIOUS
<1>4. DOMAIN log = DOMAIN quest /\ DOMAIN l1 = DOMAIN quest /\ DOMAIN l2 = DOMAIN quest
  BY <1>1, <1>2 DEF Logged, questlog_done, questlog_open
<1>5. q \notin a => l1[q] = log[q]
  BY <1>1, <1>4 DEF questlog_done
<1>6. q \notin b => l2[q] = l1[q]
  BY <1>2, <1>4 DEF questlog_open
<1>7. q \notin c \/ l2[q].flags # Open => l3[q] = l2[q]
  BY <1>3, <1>4 DEF questlog_close
<1> QED
  BY <1>1, <1>2, <1>3, <1>5, <1>6, <1>7

\* What the case of a state makes of state and log is among what CaseOf tells.
LEMMA CaseFound ==
    ASSUME NEW n \in Givers, NEW q \in DOMAIN quest, NEW s, NEW log, Logged(log), Asked(q, log),
           NEW r \in Case(Book[n].talk, s, log)
    PROVE  /\ Logged(r.log)
           /\ \E d \in CaseOf(q, Book[n].talk, s, log[q].flags) :
                 d.to = r.to /\ Becomes(q, log, r.log, d)
<1> DEFINE t == Book[n].talk
           f == log[q].flags
<1>1. PICK known : known = {p[3] : p \in {z \in t.known : z[1] = s /\ questlog_count(log, z[2]) > 0}}
  OBVIOUS
<1>2. PICK asked_for : asked_for = {z \in t.known : z[1] = s /\ z[2] = q /\ f = Done}
  OBVIOUS
<1>3. \A h \in asked_for : h[3] \in known
  BY <1>1, <1>2 DEF Asked, Known, questlog_count
<1>4. CASE Jumps(t, s, log) # {}
  <2>1. PICK x : r = [to |-> x, log |-> log] /\ x \in Jumps(t, s, log)
    BY <1>4 DEF Case
  <2>2. \/ \E p \in t.known : p[1] = s /\ x = p[3] /\ \A h \in asked_for : p[3] >= h[3]
        \/ \E p \in t.skips : p[1] = s /\ (p[2] = q => f = Done) /\ x = p[3]
        \/ \E p \in t.meets : p[1] = s /\ x = p[4]
    <3>1. CASE known # {}
      <4>1. x \in known /\ \A y \in known : x >= y
        BY <1>1, <2>1, <3>1 DEF Jumps
      <4> QED
        BY <1>1, <1>3, <4>1
    <3>2. CASE known = {}
      BY <1>1, <2>1, <3>2 DEF Jumps, questlog_isdone
    <3> QED
      BY <3>1, <3>2
  <2>3. PICK d : d = [to |-> x, flag |-> f, again |-> FALSE]
    OBVIOUS
  <2>4. d \in CaseOf(q, t, s, f)
    BY <1>2, <2>2, <2>3 DEF CaseOf
  <2>5. d.to = r.to /\ Becomes(q, log, r.log, d)
    BY <2>1, <2>3 DEF Becomes
  <2> QED
    BY <2>1, <2>4, <2>5
<1>5. CASE Jumps(t, s, log) = {}
  <2>1. PICK next : next = questlog_close(questlog_open(questlog_done(log, At(t.dones, s)), At(t.opens, s)),
                                         At(t.closes, s))
    OBVIOUS
  <2>2. PICK x \in IF At(t.jumps, s) # {} THEN At(t.jumps, s) ELSE {s + 1} : r = [to |-> x, log |-> next]
    BY <1>5, <2>1 DEF Case
  <2>3. Logged(next)
    BY <2>1, EntriesChange
  <2>4. next[q].flags = Entry(q, t, s, f)
    BY <2>1, EntryIs
  <2>5. known = {}
    <3>1. known \in SUBSET {p[3] : p \in t.known}
      BY <1>1
    <3>2. known # {} => \E x1 \in known : \A y \in known : x1 >= y
      BY <3>1, TablesRegular
    <3> QED
      BY <1>1, <1>5, <3>2 DEF Jumps
  <2>6. asked_for = {} /\ ~\E p \in t.skips : p[1] = s /\ p[2] = q /\ f = Done
    BY <1>1, <1>3, <1>5, <2>5 DEF Jumps, questlog_isdone
  <2>7. PICK d : d = [to |-> x, flag |-> Entry(q, t, s, f),
                      again |-> f = Done /\ q \in At(t.dones, s) \cup At(t.opens, s)]
    OBVIOUS
  <2>8. d \in CaseOf(q, t, s, f)
    BY <1>2, <2>2, <2>6, <2>7 DEF CaseOf
  <2>9. f = Done /\ ~d.again => next[q] = log[q]
    <3>1. SUFFICES ASSUME f = Done, ~d.again PROVE next[q] = log[q]
      OBVIOUS
    <3>2. q \notin At(t.dones, s) \cup At(t.opens, s)
      BY <2>7, <3>1
    <3> QED
      BY <2>1, <3>1, <3>2, LinesLeave DEF Done, Open
  <2>10. d.to = r.to /\ Becomes(q, log, r.log, d)
    BY <2>2, <2>4, <2>7, <2>9 DEF Becomes
  <2> QED
    BY <2>2, <2>3, <2>8, <2>10
<1> QED
  BY <1>4, <1>5

\* A case that falls into the next leaves the quests that drivers ask for as ever rewarded.
LEMMA FallLeaves ==
    ASSUME NEW n \in Givers, NEW q \in DOMAIN quest, q \in Known, NEW s \in Book[n].talk.falls,
           Logged(quest), NEW c \in Case(Book[n].talk, s, quest)
    PROVE  c.log[q] = quest[q]
<1> DEFINE t == Book[n].talk
<1>1. q \notin At(t.dones, s) \cup At(t.opens, s) \cup At(t.closes, s)
  BY KnownOnce DEF At
<1>2. CASE Jumps(t, s, quest) # {}
  BY <1>2 DEF Case
<1>3. CASE Jumps(t, s, quest) = {}
  BY <1>1, <1>3, LinesLeave DEF Case
<1> QED
  BY <1>2, <1>3

LEMMA CasesFound ==
    ASSUME NEW n \in Givers, NEW q \in DOMAIN quest, NEW s, Logged(quest), Asked(q, quest),
           Speaks(Book[n].talk, s), NEW r \in Cases(Book[n].talk, s)
    PROVE  \E d \in CasesOf(q, Book[n].talk, s, quest[q].flags) :
               d.to = r.to /\ Becomes(q, quest, r.log, d)
<1> DEFINE t == Book[n].talk
           f == quest[q].flags
<1>1. CASE s \notin t.falls
  <2>1. r \in Case(t, s, quest)
    BY <1>1 DEF Cases
  <2>2. \E d \in CaseOf(q, t, s, f) : d.to = r.to /\ Becomes(q, quest, r.log, d)
    BY <2>1, CaseFound
  <2> QED
    BY <1>1, <2>2 DEF CasesOf
<1>2. CASE s \in t.falls
  <2>1. PICK c \in Case(t, s, quest) : r \in IF c.to = s + 1 /\ Speaks(t, s + 1) THEN Case(t, s + 1, c.log) ELSE {c}
    BY <1>2 DEF Cases
  <2>2. Logged(c.log)
    BY <2>1, CaseFound
  <2>3. PICK e \in CaseOf(q, t, s, f) : e.to = c.to /\ Becomes(q, quest, c.log, e)
    BY <2>1, CaseFound
  <2> DEFINE after == IF e.to # s + 1 \/ s + 1 \in t.waits THEN {e}
                      ELSE (IF Quiet(t, s + 1) THEN {e} ELSE {})
                           \cup {[d EXCEPT !.again = e.again \/ @] : d \in CaseOf(q, t, s + 1, e.flag)}
  <2>4. \A d \in after : d \in CasesOf(q, t, s, f)
    BY <1>2, <2>3 DEF CasesOf
  <2>5. CASE ~(c.to = s + 1 /\ Speaks(t, s + 1))
    <3>1. r = c
      BY <2>1, <2>5
    <3>2. e.to = s + 1 /\ s + 1 \notin t.waits => Quiet(t, s + 1)
      BY <2>3, <2>5 DEF Speaks, Quiet
    <3>3. e \in after
      BY <3>2
    <3> QED
      BY <2>3, <2>4, <3>1, <3>3
  <2>6. CASE c.to = s + 1 /\ Speaks(t, s + 1)
    <3>1. r \in Case(t, s + 1, c.log) /\ s + 1 \notin t.waits
      BY <2>1, <2>6 DEF Speaks
    <3>2. Asked(q, c.log)
      BY <1>2, <2>1, FallLeaves DEF Asked
    <3>3. PICK d \in CaseOf(q, t, s + 1, c.log[q].flags) : d.to = r.to /\ Becomes(q, c.log, r.log, d)
      BY <2>2, <3>1, <3>2, CaseFound
    <3>4. PICK b : b = [d EXCEPT !.again = e.again \/ @]
      OBVIOUS
    <3>5. d = [to |-> d.to, flag |-> d.flag, again |-> d.again]
      BY <3>3 DEF CaseOf
    <3>6. b.to = d.to /\ b.flag = d.flag /\ (~b.again => ~e.again /\ ~d.again)
      BY <3>4, <3>5
    <3>7. b \in after
      BY <2>3, <2>6, <3>1, <3>3, <3>4 DEF Becomes
    <3>8. Becomes(q, quest, r.log, b)
      BY <2>3, <3>3, <3>6 DEF Becomes
    <3> QED
      BY <2>4, <3>3, <3>6, <3>7, <3>8
  <2> QED
    BY <2>5, <2>6
<1> QED
  BY <1>1, <1>2

-----------------------------------------------------------------------------
(* Whatever a player and giver n do, one of the Steps tells of each quest.  *)

\* Whom a step of n may turn.
Turns(n, s, x) ==
    /\ state'[n] = x
    /\ \A m \in line \ {n} :
          state'[m] = state[m] \/ \E p \in Book[n].talk.turns : p[1] = s /\ p[2] = m /\ state'[m] = p[3]

Made(q, n, o) ==
    /\ Turns(n, o.from, o.to)
    /\ \A p \in o.due : ~Behind(p[2], p[3])
    /\ Becomes(q, quest, quest', o)

\* Whom n turns gets the state of a row, the others keep theirs.
LEMMA TurnedTurns ==
    ASSUME NEW n \in line, NEW s, NEW x, NEW next, next = Turned(Book[n].talk, s, n, x), state' = next
    PROVE  Turns(n, s, x)
<1> DEFINE t == Book[n].talk
           who(m) == \E p \in t.turns : p[1] = s /\ p[2] = m
<1>1. next = [m \in line |-> IF m = n THEN x
                    ELSE IF who(m) THEN (CHOOSE p \in t.turns : p[1] = s /\ p[2] = m)[3] ELSE state[m]]
  BY DEF Turned
<1>2. ASSUME NEW m \in line \ {n}
      PROVE  next[m] = state[m] \/ \E p \in t.turns : p[1] = s /\ p[2] = m /\ next[m] = p[3]
  <2>1. CASE who(m)
    BY <1>1, <2>1
  <2>2. CASE ~who(m)
    BY <1>1, <2>2
  <2> QED
    BY <2>1, <2>2
<1>3. next[n] = x
  BY <1>1
<1> QED
  BY <1>2, <1>3 DEF Turns

\* A talk in state s, to which the driver may have gone back first.
LEMMA TalksFound ==
    ASSUME QuestTypes, Counted, NEW q \in DOMAIN quest, NEW n \in line, NEW s, Speaks(Book[n].talk, s),
           NEW r \in Cases(Book[n].talk, s), state' = Turned(Book[n].talk, s, n, r.to), quest' = r.log
    PROVE  \E o \in Talks(q, Book[n].talk, s, quest[q].flags) : Made(q, n, o)
<1> DEFINE t == Book[n].talk
           f == quest[q].flags
<1>1. n \in Givers /\ Logged(quest) /\ Asked(q, quest)
  BY DEF QuestTypes, Counted, Asked
<1>2. PICK d \in CasesOf(q, t, s, f) : d.to = r.to /\ Becomes(q, quest, r.log, d)
  BY <1>1, CasesFound
<1>3. PICK due : due = {p \in t.needs : p[1] = s}
  OBVIOUS
<1>4. PICK o : o = Step(s, d.to, d.flag, d.again, due)
  OBVIOUS
<1>5. o.from = s /\ o.to = d.to /\ o.flag = d.flag /\ o.again = d.again /\ o.due = due
  BY <1>4 DEF Step
<1>6. s \notin t.waits /\ \A p \in due : ~Behind(p[2], p[3])
  BY <1>3 DEF Speaks
<1>7. o \in Talks(q, t, s, f)
  BY <1>2, <1>3, <1>4, <1>6 DEF Talks
<1>8. Becomes(q, quest, quest', o)
  BY <1>2, <1>5 DEF Becomes
<1>9. Turns(n, o.from, o.to)
  <2>1. PICK next : next = Turned(t, s, n, r.to)
    OBVIOUS
  <2> QED
    BY <1>2, <1>5, <2>1, TurnedTurns
<1>10. Made(q, n, o)
  BY <1>5, <1>6, <1>8, <1>9 DEF Made
<1> QED
  BY <1>7, <1>10

\* What a step of a giver may be.
LEMMA StepsTell ==
    ASSUME NEW q, NEW n, NEW s, NEW f
    PROVE  LET b == Book[n]
               t == b.talk
           IN  /\ \A o \in Talks(q, t, IF s < t.least THEN t.least ELSE s, f) : o \in Steps(q, n, s, f)
               /\ \A p \in From(t.late, s) :
                     /\ \A o \in Talks(q, t, p[3], f) : o \in Steps(q, n, s, f)
                     /\ Quiet(t, p[3]) => Step(s, p[3], f, FALSE, {}) \in Steps(q, n, s, f)
               /\ \A x \in At(t.either, s) : Step(s, x, f, FALSE, {}) \in Steps(q, n, s, f)
               /\ \A p \in From(b.repeat \cup b.some, s) : Step(s, p[3], f, FALSE, {}) \in Steps(q, n, s, f)
               /\ \A g \in From(b.give, s) :
                     Step(s, g[4], Reward(q, g[3], f), q = g[3] /\ f = Done, {}) \in Steps(q, n, s, f)
               /\ \A g \in From(b.parts, s) :
                     /\ Step(s, s, f, FALSE, {}) \in Steps(q, n, s, f)
                     /\ Step(s, IF g[5] = Stay THEN s ELSE g[5], Reward(q, g[4], f),
                             q = g[4] /\ f = Done /\ q \notin Tallied, {}) \in Steps(q, n, s, f)
<1> DEFINE b == Book[n]
           t == b.talk
           talks == Talks(q, t, IF s < t.least THEN t.least ELSE s, f)
           moved == At(t.either, s) \cup {p[3] : p \in From(b.repeat \cup b.some, s)}
<1>1. /\ talks \subseteq Steps(q, n, s, f)
      /\ Returns(q, t, s, f) \subseteq Steps(q, n, s, f)
      /\ Plain(s, moved, f) \subseteq Steps(q, n, s, f)
      /\ Gifts(q, b.give, s, f) \subseteq Steps(q, n, s, f)
      /\ Parts(q, b.parts, s, f) \subseteq Steps(q, n, s, f)
      /\ From(b.parts, s) # {} => Plain(s, {s}, f) \subseteq Steps(q, n, s, f)
  BY DEF Steps
<1>2. \A xs : \A x \in xs : Step(s, x, f, FALSE, {}) \in Plain(s, xs, f)
  BY DEF Plain
<1>3. ASSUME NEW p \in From(t.late, s)
      PROVE  /\ \A o \in Talks(q, t, p[3], f) : o \in Returns(q, t, s, f)
             /\ Quiet(t, p[3]) => Step(s, p[3], f, FALSE, {}) \in Returns(q, t, s, f)
  <2> DEFINE back(r) == Talks(q, t, r[3], f) \cup (IF Quiet(t, r[3]) THEN Plain(s, {r[3]}, f) ELSE {})
  <2>1. Returns(q, t, s, f) = UNION {back(r) : r \in From(t.late, s)}
    BY DEF Returns
  <2> HIDE DEF back
  <2>2. back(p) \in {back(r) : r \in From(t.late, s)}
    OBVIOUS
  <2>3. \A o \in back(p) : o \in Returns(q, t, s, f)
    BY <2>1, <2>2
  <2> QED
    BY <1>2, <2>3 DEF back
<1>4. \A x \in At(t.either, s) : Step(s, x, f, FALSE, {}) \in Steps(q, n, s, f)
  BY <1>1, <1>2
<1>5. \A p \in From(b.repeat \cup b.some, s) : Step(s, p[3], f, FALSE, {}) \in Steps(q, n, s, f)
  <2>1. \A p \in From(b.repeat \cup b.some, s) : p[3] \in moved
    OBVIOUS
  <2> QED
    BY <1>1, <1>2, <2>1
<1>6. \A g \in From(b.give, s) :
          Step(s, g[4], Reward(q, g[3], f), q = g[3] /\ f = Done, {}) \in Gifts(q, b.give, s, f)
  BY DEF Gifts
<1>7. \A g \in From(b.parts, s) :
          Step(s, IF g[5] = Stay THEN s ELSE g[5], Reward(q, g[4], f),
               q = g[4] /\ f = Done /\ q \notin Tallied, {}) \in Parts(q, b.parts, s, f)
  BY DEF Parts
<1>8. \A g \in From(b.parts, s) : Step(s, s, f, FALSE, {}) \in Steps(q, n, s, f)
  BY <1>1, <1>2
<1> QED
  BY <1>1, <1>3, <1>4, <1>5, <1>6, <1>7, <1>8

LEMMA TalkMakes ==
    ASSUME QuestTypes, Counted, NEW q \in DOMAIN quest, NEW n \in line, Talk(n)
    PROVE  \E o \in Steps(q, n, state[n], quest[q].flags) : Made(q, n, o)
<1> DEFINE t == Book[n].talk
<1>1. PICK s : s = (IF state[n] < t.least THEN t.least ELSE state[n])
  OBVIOUS
<1>2. PICK r \in Cases(t, s) : state' = Turned(t, s, n, r.to) /\ quest' = r.log
  BY <1>1 DEF Talk
<1>3. Speaks(t, s)
  BY <1>1 DEF Talk
<1>4. PICK o \in Talks(q, t, s, quest[q].flags) : Made(q, n, o)
  BY <1>2, <1>3, TalksFound
<1>5. o \in Steps(q, n, state[n], quest[q].flags)
  BY <1>1, <1>4, StepsTell
<1> QED
  BY <1>4, <1>5

\* A step that leaves the log and sets the state of n at most.
LEMMA PlainMade ==
    ASSUME NEW q, NEW n \in line, NEW x, NEW s, quest' = quest, Turns(n, s, x)
    PROVE  Made(q, n, Step(s, x, quest[q].flags, FALSE, {}))
BY DEF Made, Becomes, Step

LEMMA LateMakes ==
    ASSUME QuestTypes, Counted, NEW q \in DOMAIN quest, NEW n \in line, ComesLate(n)
    PROVE  \E o \in Steps(q, n, state[n], quest[q].flags) : Made(q, n, o)
<1> DEFINE t == Book[n].talk
           f == quest[q].flags
<1>1. PICK p \in t.late : /\ state[n] \in p[1] .. p[2]
                          /\ IF Speaks(t, p[3])
                             THEN \E r \in Cases(t, p[3]) : state' = Turned(t, p[3], n, r.to) /\ quest' = r.log
                             ELSE state' = [state EXCEPT ![n] = p[3]] /\ UNCHANGED quest
  BY DEF ComesLate
<1>2. p \in From(t.late, state[n])
  BY <1>1 DEF From
<1>3. CASE Speaks(t, p[3])
  <2>1. PICK r \in Cases(t, p[3]) : state' = Turned(t, p[3], n, r.to) /\ quest' = r.log
    BY <1>1, <1>3
  <2>2. PICK o \in Talks(q, t, p[3], f) : Made(q, n, o)
    BY <1>3, <2>1, TalksFound
  <2>3. o \in Steps(q, n, state[n], f)
    BY <1>2, <2>2, StepsTell
  <2> QED
    BY <2>2, <2>3
<1>4. CASE ~Speaks(t, p[3])
  <2>1. state' = [state EXCEPT ![n] = p[3]] /\ quest' = quest
    BY <1>1, <1>4
  <2>2. Turns(n, state[n], p[3])
    BY <2>1 DEF QuestTypes, Turns
  <2>3. Quiet(t, p[3])
    BY <1>4 DEF Speaks, Quiet
  <2>4. PICK o : o = Step(state[n], p[3], f, FALSE, {})
    OBVIOUS
  <2>5. o \in Steps(q, n, state[n], f)
    BY <1>2, <2>3, <2>4, StepsTell
  <2>6. Made(q, n, o)
    BY <2>1, <2>2, <2>4, PlainMade
  <2> QED
    BY <2>5, <2>6
<1> QED
  BY <1>3, <1>4

LEMMA StrayMakes ==
    ASSUME QuestTypes, NEW q \in DOMAIN quest, NEW n \in line, Strays(n)
    PROVE  \E o \in Steps(q, n, state[n], quest[q].flags) : Made(q, n, o)
<1> DEFINE f == quest[q].flags
<1>1. PICK to \in At(Book[n].talk.either, state[n]) : state' = Turned(Book[n].talk, state[n], n, to)
  BY DEF Strays
<1>2. quest' = quest
  BY DEF Strays
<1>3. PICK o : o = Step(state[n], to, f, FALSE, {})
  OBVIOUS
<1>4. o \in Steps(q, n, state[n], f)
  BY <1>1, <1>3, StepsTell
<1>5. Turns(n, state[n], to)
  <2>1. PICK next : next = Turned(Book[n].talk, state[n], n, to)
    OBVIOUS
  <2> QED
    BY <1>1, <2>1, TurnedTurns
<1>6. Made(q, n, o)
  BY <1>2, <1>3, <1>5, PlainMade
<1> QED
  BY <1>4, <1>6

LEMMA AskMakes ==
    ASSUME QuestTypes, NEW q \in DOMAIN quest, NEW n \in line, Ask(n)
    PROVE  \E o \in Steps(q, n, state[n], quest[q].flags) : Made(q, n, o)
<1> DEFINE f == quest[q].flags
<1>1. PICK p \in Book[n].repeat : state[n] \in p[1] .. p[2] /\ state' = [state EXCEPT ![n] = p[3]]
  BY DEF Ask
<1>2. quest' = quest
  BY DEF Ask
<1>3. Turns(n, state[n], p[3])
  BY <1>1 DEF QuestTypes, Turns
<1>4. PICK o : o = Step(state[n], p[3], f, FALSE, {})
  OBVIOUS
<1>5. p \in From(Book[n].repeat \cup Book[n].some, state[n])
  BY <1>1 DEF From
<1>6. o \in Steps(q, n, state[n], f)
  BY <1>4, <1>5, StepsTell
<1>7. Made(q, n, o)
  BY <1>2, <1>3, <1>4, PlainMade
<1> QED
  BY <1>6, <1>7

\* A reward is one in the entry it is for.
LEMMA RewardIs ==
    ASSUME Logged(quest), NEW q \in DOMAIN quest, NEW r
    PROVE  /\ questlog_done(quest, {r})[q].flags = Reward(q, r, quest[q].flags)
           /\ q # r => questlog_done(quest, {r})[q] = quest[q]
BY DEF questlog_done, Reward, Logged

LEMMA TakeMakes ==
    ASSUME QuestTypes, NEW q \in DOMAIN quest, NEW n \in line, Take(n)
    PROVE  \E o \in Steps(q, n, state[n], quest[q].flags) : Made(q, n, o)
<1> DEFINE f == quest[q].flags
<1>1. PICK g \in Book[n].give : /\ state[n] \in g[1] .. g[2]
                                /\ state' = Turned(Book[n].talk, state[n], n, g[4])
                                /\ quest' = questlog_done(quest, {g[3]})
  BY DEF Take
<1>2. PICK again : again = (q = g[3] /\ f = Done)
  OBVIOUS
<1>3. PICK o : o = Step(state[n], g[4], Reward(q, g[3], f), q = g[3] /\ f = Done, {})
  OBVIOUS
<1>4. g \in From(Book[n].give, state[n])
  BY <1>1 DEF From
<1>5. o \in Steps(q, n, state[n], f)
  BY <1>3, <1>4, StepsTell
<1>6. Becomes(q, quest, quest', o)
  BY <1>1, <1>3, RewardIs DEF Becomes, Step, QuestTypes
<1>7. o.from = state[n] /\ o.to = g[4] /\ o.due = {}
  BY <1>3 DEF Step
<1>8. Turns(n, o.from, o.to)
  <2>1. PICK next : next = Turned(Book[n].talk, state[n], n, g[4])
    OBVIOUS
  <2> QED
    BY <1>1, <1>7, <2>1, TurnedTurns
<1>9. Made(q, n, o)
  BY <1>6, <1>7, <1>8 DEF Made
<1> QED
  BY <1>5, <1>9

LEMMA PartMakes ==
    ASSUME QuestTypes, Full, NEW q \in DOMAIN quest, NEW n \in line, TakePart(n)
    PROVE  \E o \in Steps(q, n, state[n], quest[q].flags) : Made(q, n, o)
<1> DEFINE f == quest[q].flags
<1>1. PICK g \in Book[n].parts :
          /\ Wants(n, g)
          /\ \/ state' \in Somewhere(n) /\ quest' = quest
             \/ /\ state' = IF g[5] = Stay THEN state ELSE [state EXCEPT ![n] = g[5]]
                /\ quest' = questlog_done(quest, {g[4]})
  BY DEF TakePart
<1>2. Logged(quest) /\ DOMAIN state = line /\ g \in From(Book[n].parts, state[n]) /\ tally[n] < g[3]
  BY <1>1 DEF QuestTypes, Wants, From
<1>3. CASE state' \in Somewhere(n) /\ quest' = quest
  <2>1. CASE state' = state
    <3>1. PICK o : o = Step(state[n], state[n], f, FALSE, {})
      OBVIOUS
    <3>2. o \in Steps(q, n, state[n], f)
      BY <1>2, <3>1, StepsTell
    <3>3. Made(q, n, o)
      BY <1>3, <2>1, <3>1, PlainMade DEF Turns
    <3> QED
      BY <3>2, <3>3
  <2>2. CASE state' # state
    <3>1. PICK r \in Book[n].some : state[n] \in r[1] .. r[2] /\ state' = [state EXCEPT ![n] = r[3]]
      BY <1>3, <2>2 DEF Somewhere
    <3>2. Turns(n, state[n], r[3])
      BY <1>2, <3>1 DEF Turns
    <3>3. r \in From(Book[n].repeat \cup Book[n].some, state[n])
      BY <3>1 DEF From
    <3>4. PICK o : o = Step(state[n], r[3], f, FALSE, {})
      OBVIOUS
    <3>5. o \in Steps(q, n, state[n], f)
      BY <3>3, <3>4, StepsTell
    <3>6. Made(q, n, o)
      BY <1>3, <3>2, <3>4, PlainMade
    <3> QED
      BY <3>5, <3>6
  <2> QED
    BY <2>1, <2>2
<1>4. CASE /\ state' = IF g[5] = Stay THEN state ELSE [state EXCEPT ![n] = g[5]]
           /\ quest' = questlog_done(quest, {g[4]})
  <2>1. PICK x : x = IF g[5] = Stay THEN state[n] ELSE g[5]
    OBVIOUS
  <2>2. PICK o : o = Step(state[n], x, Reward(q, g[4], f), q = g[4] /\ f = Done /\ q \notin Tallied, {})
    OBVIOUS
  <2>3. o \in Steps(q, n, state[n], f)
    BY <1>2, <2>1, <2>2, StepsTell
  <2>4. Turns(n, state[n], x)
    BY <1>2, <1>4, <2>1 DEF Turns
  <2>5. q = g[4] /\ f = Done => q \notin Tallied
    <3>1. SUFFICES ASSUME q = g[4], f = Done, q \in Tallied PROVE FALSE
      OBVIOUS
    <3>2. tally[n] >= g[3]
      BY <3>1 DEF Full
    <3>3. g[3] \in Nat /\ tally[n] \in Nat
      BY <3>1, TalliesMatch DEF QuestTypes
    <3> QED
      BY <1>2, <3>2, <3>3
  <2>6. Becomes(q, quest, quest', o)
    BY <1>2, <1>4, <2>2, <2>5, RewardIs DEF Becomes, Step
  <2>7. Made(q, n, o)
    BY <2>2, <2>4, <2>6 DEF Made, Step
  <2> QED
    BY <2>3, <2>7
<1> QED
  BY <1>1, <1>3, <1>4

Does(n) == Talk(n) \/ Take(n) \/ TakePart(n) \/ ComesLate(n) \/ Strays(n) \/ Ask(n)

LEMMA StepMakes ==
    ASSUME QuestTypes, Counted, Full, NEW q \in DOMAIN quest, NEW n \in line, Does(n)
    PROVE  \E o \in Steps(q, n, state[n], quest[q].flags) : Made(q, n, o)
BY TalkMakes, TakeMakes, PartMakes, LateMakes, StrayMakes, AskMakes DEF Does

\* A giver who has to do with other quests leaves the entry of this one.
LEMMA CaseBeside ==
    ASSUME NEW n \in Givers, NEW q, q \notin QuestsOf(n), NEW s, NEW f \in Flags,
           NEW d \in CaseOf(q, Book[n].talk, s, f)
    PROVE  d.flag = f /\ ~d.again
<1> DEFINE t == Book[n].talk
<1>1. q \notin At(t.dones, s) \cup At(t.opens, s) \cup At(t.closes, s)
  BY DEF QuestsOf, At
<1>2. Entry(q, t, s, f) = f
  <2>1. PICK a : a = At(t.dones, s)
    OBVIOUS
  <2>2. PICK b : b = At(t.opens, s)
    OBVIOUS
  <2>3. PICK c : c = At(t.closes, s)
    OBVIOUS
  <2>4. PICK one : one = [x \in {q} |-> [done |-> 0, flags |-> f]]
    OBVIOUS
  <2>5. questlog_done(one, a) = one
    BY <1>1, <2>1, <2>4 DEF questlog_done
  <2>6. questlog_open(one, b) = one
    BY <1>1, <2>2, <2>4 DEF questlog_open
  <2>7. questlog_close(one, c) = one
    BY <1>1, <2>3, <2>4 DEF questlog_close
  <2>8. one[q].flags = f
    BY <2>4
  <2> QED
    BY <2>1, <2>2, <2>3, <2>4, <2>5, <2>6, <2>7, <2>8 DEF Entry
<1>3. PICK no : no = (f = Done /\ q \in At(t.dones, s) \cup At(t.opens, s))
  OBVIOUS
<1>4. \E x : \/ d = [to |-> x, flag |-> f, again |-> FALSE]
             \/ d = [to |-> x, flag |-> Entry(q, t, s, f), again |-> no]
  BY <1>3 DEF CaseOf
<1>5. ~no
  BY <1>1, <1>3
<1> QED
  BY <1>2, <1>4, <1>5

LEMMA CasesBeside ==
    ASSUME NEW n \in Givers, NEW q, q \notin QuestsOf(n), NEW s, NEW f \in Flags,
           NEW d \in CasesOf(q, Book[n].talk, s, f)
    PROVE  d.flag = f /\ ~d.again
<1> DEFINE t == Book[n].talk
<1>1. CASE s \notin t.falls
  BY <1>1, CaseBeside DEF CasesOf
<1>2. CASE s \in t.falls
  <2> DEFINE after(c) == IF c.to # s + 1 \/ s + 1 \in t.waits THEN {c}
                ELSE (IF Quiet(t, s + 1) THEN {c} ELSE {})
                     \cup {[e EXCEPT !.again = c.again \/ @] : e \in CaseOf(q, t, s + 1, c.flag)}
  <2>1. CasesOf(q, t, s, f) = UNION {after(c) : c \in CaseOf(q, t, s, f)}
    BY <1>2 DEF CasesOf
  <2>2. PICK c \in CaseOf(q, t, s, f) : d \in after(c)
    BY <2>1
  <2>3. c.flag = f /\ ~c.again
    BY CaseBeside
  <2>4. CASE d = c
    BY <2>3, <2>4
  <2>5. CASE \E e \in CaseOf(q, t, s + 1, c.flag) : d = [e EXCEPT !.again = c.again \/ @]
    <3>1. PICK e \in CaseOf(q, t, s + 1, f) : d = [e EXCEPT !.again = c.again \/ @]
      BY <2>3, <2>5
    <3>2. e.flag = f /\ ~e.again
      BY <3>1, CaseBeside
    <3>3. e = [to |-> e.to, flag |-> e.flag, again |-> e.again]
      BY <3>1 DEF CaseOf
    <3> QED
      BY <2>3, <3>1, <3>2, <3>3
  <2> QED
    BY <2>2, <2>4, <2>5
<1> QED
  BY <1>1, <1>2

LEMMA StepsBeside ==
    ASSUME NEW n \in Givers, NEW q, q \notin QuestsOf(n), NEW s, NEW f \in Flags, NEW o \in Steps(q, n, s, f)
    PROVE  o.flag = f /\ ~o.again
<1> DEFINE b == Book[n]
           t == b.talk
<1>1. \A u : \A w \in Talks(q, t, u, f) : w.flag = f /\ ~w.again
  BY CasesBeside DEF Talks, Step
<1>2. \A xs : \A w \in Plain(s, xs, f) : w.flag = f /\ ~w.again
  BY DEF Plain, Step
<1>3. \A w \in Returns(q, t, s, f) : w.flag = f /\ ~w.again
  BY <1>1, <1>2 DEF Returns
<1>4. \A w \in Gifts(q, b.give, s, f) : w.flag = f /\ ~w.again
  <2>1. \A g \in b.give : q # g[3]
    BY DEF QuestsOf
  <2>2. ASSUME NEW w \in Gifts(q, b.give, s, f) PROVE w.flag = f /\ ~w.again
    <3>1. PICK g \in b.give : w = Step(s, g[4], Reward(q, g[3], f), q = g[3] /\ f = Done, {})
      BY <2>2 DEF Gifts, From
    <3>2. PICK no : no = (q = g[3] /\ f = Done)
      OBVIOUS
    <3>3. w = Step(s, g[4], f, no, {}) /\ ~no
      BY <2>1, <3>1, <3>2 DEF Reward
    <3> QED
      BY <3>3 DEF Step
  <2> QED
    BY <2>2
<1>5. \A w \in Parts(q, b.parts, s, f) : w.flag = f /\ ~w.again
  <2>1. \A g \in b.parts : q # g[4]
    BY DEF QuestsOf
  <2>2. ASSUME NEW w \in Parts(q, b.parts, s, f) PROVE w.flag = f /\ ~w.again
    <3>1. PICK g \in b.parts : w = Step(s, IF g[5] = Stay THEN s ELSE g[5], Reward(q, g[4], f),
                                        q = g[4] /\ f = Done /\ q \notin Tallied, {})
      BY <2>2 DEF Parts, From
    <3>2. PICK no : no = (q = g[4] /\ f = Done /\ q \notin Tallied)
      OBVIOUS
    <3>3. w = Step(s, IF g[5] = Stay THEN s ELSE g[5], f, no, {}) /\ ~no
      BY <2>1, <3>1, <3>2 DEF Reward
    <3> QED
      BY <3>3 DEF Step
  <2> QED
    BY <2>2
<1>6. PICK moved : moved = At(t.either, s) \cup {p[3] : p \in From(b.repeat \cup b.some, s)}
  OBVIOUS
<1>7. PICK low : low = IF s < t.least THEN t.least ELSE s
  OBVIOUS
<1>8. \/ o \in Talks(q, t, low, f) \/ o \in Returns(q, t, s, f)
      \/ o \in Plain(s, moved, f) \/ o \in Plain(s, {s}, f)
      \/ o \in Gifts(q, b.give, s, f) \/ o \in Parts(q, b.parts, s, f)
  BY <1>6, <1>7 DEF Steps
<1> QED
  BY <1>1, <1>2, <1>3, <1>4, <1>5, <1>8

\* What the tables keep stays so, whatever a giver of the line does.
LEMMA MadeFits ==
    ASSUME QuestTypes, NEW shows, NEW q \in DOMAIN quest, DOMAIN shows = GiversOf(q),
           Keeps(shows, q), Fits(shows, q), NEW n \in line,
           NEW o \in Steps(q, n, state[n], quest[q].flags), Made(q, n, o),
           line' = line
    PROVE  \A m \in line \cap DOMAIN shows : state'[m] \in States[m] /\ quest'[q].flags \in shows[m][state'[m]]
<1> DEFINE f == quest[q].flags
<1>1. f \in Flags /\ n \in Givers /\ line \subseteq Givers /\ q # NoQuest
  BY DEF QuestTypes, Logged, Entries
<1>2. quest'[q].flags = o.flag /\ state'[n] = o.to
  BY DEF Made, Becomes, Turns
<1>3. \A m \in line \cap DOMAIN shows : state[m] \in States[m] /\ f \in shows[m][state[m]]
  BY DEF Fits
<1>4. CASE n \in DOMAIN shows
  <2>1. Moves(shows, n, f, o)
    BY <1>3, <1>4 DEF Keeps
  <2>2. ASSUME NEW m \in line \cap DOMAIN shows, m # n
        PROVE  state'[m] \in States[m] /\ quest'[q].flags \in shows[m][state'[m]]
    <3>1. CASE state'[m] = state[m]
      <4>1. \A p \in o.due : p[2] = m => ~(state[m] < p[3])
        BY DEF Made, Behind
      <4>2. f # o.flag => o.flag \in shows[m][state[m]]
        BY <1>3, <2>1, <2>2, <4>1 DEF Moves
      <4> QED
        BY <1>2, <1>3, <3>1, <4>2
    <3>2. CASE \E p \in Book[n].talk.turns : p[1] = o.from /\ p[2] = m /\ state'[m] = p[3]
      BY <1>2, <2>1, <3>2 DEF Moves
    <3> QED
      BY <2>2, <3>1, <3>2 DEF Made, Turns
  <2>3. state'[n] \in States[n] /\ quest'[q].flags \in shows[n][state'[n]]
    BY <1>2, <2>1 DEF Moves
  <2> QED
    BY <2>2, <2>3
<1>5. CASE n \notin DOMAIN shows
  <2>1. q \notin QuestsOf(n)
    BY <1>1, <1>5 DEF GiversOf
  <2>2. o.flag = f
    BY <1>1, <2>1, StepsBeside
  <2>3. ASSUME NEW m \in line \cap DOMAIN shows PROVE state'[m] = state[m]
    <3>1. m # n /\ q \in QuestsOf(m) \ {NoQuest}
      BY <1>1, <1>5 DEF GiversOf
    <3>2. ~\E p \in Book[n].talk.turns : p[2] = m
      BY <1>1, <2>1, <3>1, TablesRegular
    <3> QED
      BY <3>1, <3>2 DEF Made, Turns
  <2> QED
    BY <1>2, <1>3, <2>2, <2>3
<1> QED
  BY <1>4, <1>5

\* Where no step rewards or opens what stands as done, its entry stays as it is.
LEMMA FirmStays ==
    ASSUME QuestTypes, NEW shows, NEW q \in DOMAIN quest, DOMAIN shows = GiversOf(q),
           Firm(shows, q), Fits(shows, q), quest[q].flags = Done, NEW n \in line,
           NEW o \in Steps(q, n, state[n], quest[q].flags), Made(q, n, o)
    PROVE  quest'[q] = quest[q]
<1>1. n \in Givers /\ Done \in Flags
  BY DEF QuestTypes, Flags
<1>2. CASE n \in DOMAIN shows
  <2>1. state[n] \in States[n] /\ Done \in shows[n][state[n]]
    BY <1>2 DEF Fits
  <2>2. ~o.again
    BY <1>2, <2>1 DEF Firm
  <2> QED
    BY <2>2 DEF Made, Becomes
<1>3. CASE n \notin DOMAIN shows
  <2>1. q \notin QuestsOf(n)
    BY <1>1, <1>3 DEF GiversOf
  <2>2. ~o.again
    BY <1>1, <2>1, StepsBeside
  <2> QED
    BY <2>2 DEF Made, Becomes
<1> QED
  BY <1>2, <1>3

-----------------------------------------------------------------------------
\* A case leaves a log a log.
LEMMA CaseLogged ==
    ASSUME NEW t, NEW u, NEW log, Logged(log), NEW c \in Case(t, u, log)
    PROVE  Logged(c.log)
<1>1. CASE Jumps(t, u, log) # {}
  BY <1>1 DEF Case
<1>2. CASE Jumps(t, u, log) = {}
  <2>1. PICK next : next = questlog_close(questlog_open(questlog_done(log, At(t.dones, u)), At(t.opens, u)),
                                         At(t.closes, u))
    OBVIOUS
  <2>2. Logged(next)
    BY <2>1, EntriesChange
  <2>3. c.log = next
    BY <1>2, <2>1 DEF Case
  <2> QED
    BY <2>2, <2>3
<1> QED
  BY <1>1, <1>2

LEMMA CasesLogged ==
    ASSUME NEW t, NEW s, Logged(quest), NEW r \in Cases(t, s)
    PROVE  Logged(r.log)
<1>1. CASE s \notin t.falls
  BY <1>1, CaseLogged DEF Cases
<1>2. CASE s \in t.falls
  <2>1. PICK c \in Case(t, s, quest) : r \in IF c.to = s + 1 /\ Speaks(t, s + 1) THEN Case(t, s + 1, c.log) ELSE {c}
    BY <1>2 DEF Cases
  <2>2. Logged(c.log)
    BY <2>1, CaseLogged
  <2> QED
    BY <2>1, <2>2, CaseLogged
<1> QED
  BY <1>1, <1>2

LEMMA TypesStart == Init => QuestTypes
<1> SUFFICES ASSUME Init PROVE QuestTypes
  OBVIOUS
<1>1. NoEntry \in Entries
  BY DEF NoEntry, Entries, Flags
<1>2. line \subseteq Givers
  BY LinesOfGivers DEF Init
<1>3. PICK all : all = UNION {QuestsOf(n) : n \in line}
  OBVIOUS
<1>4. DOMAIN quest = all \ {NoQuest} /\ \A q : q \in all <=> \E n \in line : q \in QuestsOf(n)
  <2>1. \A q : q \in all <=> \E n \in line : q \in QuestsOf(n)
    BY <1>3, Zenon
  <2>2. quest = [q \in all \ {NoQuest} |-> NoEntry]
    BY <1>3 DEF Init
  <2> QED
    BY <2>1, <2>2
<1>5. \A q : q \in DOMAIN quest <=> q # NoQuest /\ \E n \in line : q \in QuestsOf(n)
  BY <1>4
<1> QED
  BY <1>1, <1>2, <1>5 DEF Init, QuestTypes, Logged

LEMMA TypesStep == QuestTypes /\ [Next]_vars => QuestTypes'
<1> SUFFICES ASSUME QuestTypes, [Next]_vars PROVE QuestTypes'
  OBVIOUS
<1>1. Logged(quest) /\ DOMAIN state = line /\ tally \in [line -> Nat]
  BY DEF QuestTypes
<1>2. SUFFICES line' = line /\ Logged(quest') /\ DOMAIN state' = line /\ tally' \in [line -> Nat] /\ reopened' \in Nat
  <2>1. DOMAIN quest' = DOMAIN quest
    BY <1>2 DEF Logged
  <2> QED
    BY <1>2, <2>1 DEF QuestTypes, Logged
<1>3. \A t, s, n, x : DOMAIN Turned(t, s, n, x) = line
  BY DEF Turned
<1>4. ASSUME NEW n \in line, Talk(n)
      PROVE  line' = line /\ Logged(quest') /\ DOMAIN state' = line /\ tally' \in [line -> Nat] /\ reopened' \in Nat
  <2>1. PICK s : s = (IF state[n] < Book[n].talk.least THEN Book[n].talk.least ELSE state[n])
    OBVIOUS
  <2>2. PICK r \in Cases(Book[n].talk, s) : state' = Turned(Book[n].talk, s, n, r.to) /\ quest' = r.log
    BY <1>4, <2>1 DEF Talk
  <2>3. UNCHANGED <<line, tally, reopened>>
    BY <1>4 DEF Talk
  <2> QED
    BY <1>1, <1>3, <2>2, <2>3, CasesLogged DEF QuestTypes
<1>5. ASSUME NEW n \in line, ComesLate(n)
      PROVE  line' = line /\ Logged(quest') /\ DOMAIN state' = line /\ tally' \in [line -> Nat] /\ reopened' \in Nat
  <2>1. PICK p : IF Speaks(Book[n].talk, p[3])
                 THEN \E r \in Cases(Book[n].talk, p[3]) :
                         state' = Turned(Book[n].talk, p[3], n, r.to) /\ quest' = r.log
                 ELSE state' = [state EXCEPT ![n] = p[3]] /\ UNCHANGED quest
    BY <1>5 DEF ComesLate
  <2>2. UNCHANGED <<line, tally, reopened>>
    BY <1>5 DEF ComesLate
  <2>3. Logged(quest')
    BY <1>1, <2>1, CasesLogged
  <2>4. DOMAIN state' = line
    BY <1>1, <1>3, <2>1
  <2> QED
    BY <1>1, <2>2, <2>3, <2>4 DEF QuestTypes
<1>6. ASSUME NEW n \in line, Strays(n) \/ Ask(n)
      PROVE  line' = line /\ Logged(quest') /\ DOMAIN state' = line /\ tally' \in [line -> Nat] /\ reopened' \in Nat
  <2>1. UNCHANGED <<line, tally, quest, reopened>>
    BY <1>6 DEF Strays, Ask
  <2>2. DOMAIN state' = line
    BY <1>1, <1>3, <1>6 DEF Strays, Ask
  <2> QED
    BY <1>1, <2>1, <2>2 DEF QuestTypes
<1>7. ASSUME NEW n \in line, Take(n)
      PROVE  line' = line /\ Logged(quest') /\ DOMAIN state' = line /\ tally' \in [line -> Nat] /\ reopened' \in Nat
  BY <1>1, <1>3, <1>7, EntriesChange DEF Take, QuestTypes
<1>8. ASSUME NEW n \in line, TakePart(n)
      PROVE  line' = line /\ Logged(quest') /\ DOMAIN state' = line /\ tally' \in [line -> Nat] /\ reopened' \in Nat
  <2>1. UNCHANGED <<line, reopened>> /\ tally' \in [line -> Nat]
    BY <1>1, <1>8 DEF TakePart
  <2>2. Logged(quest')
    BY <1>1, <1>8, EntriesChange DEF TakePart
  <2>3. \A w \in Somewhere(n) : DOMAIN w = line
    BY <1>1 DEF Somewhere
  <2>4. DOMAIN state' = line
    BY <1>1, <1>8, <2>3 DEF TakePart
  <2> QED
    BY <2>1, <2>2, <2>4 DEF QuestTypes
<1>9. ASSUME NEW q \in DOMAIN quest, Reopen(q)
      PROVE  line' = line /\ Logged(quest') /\ DOMAIN state' = line /\ tally' \in [line -> Nat] /\ reopened' \in Nat
  BY <1>1, <1>9, EntriesChange DEF Reopen, QuestTypes
<1>10. CASE UNCHANGED vars
  BY <1>1, <1>10 DEF vars, QuestTypes
<1> QED
  BY <1>4, <1>5, <1>6, <1>7, <1>8, <1>9, <1>10 DEF Next, GoesOn


\* A driver asks only for quests that each case of his leaves, opens or rewards once.
Changed(entry, next) ==
    \/ next = entry
    \/ next = [entry EXCEPT !.flags = Open]
    \/ next = [done |-> (entry.done + 1) % DoneLimit, flags |-> Done]

LEMMA CaseChanges ==
    ASSUME NEW n \in Givers, NEW q \in DOMAIN quest, q \in Known, NEW s, NEW log, Logged(log),
           NEW r \in Case(Book[n].talk, s, log)
    PROVE  Changed(log[q], r.log[q])
<1> DEFINE t == Book[n].talk
<1>1. CASE Jumps(t, s, log) # {}
  BY <1>1 DEF Case, Changed
<1>2. CASE Jumps(t, s, log) = {}
  <2>1. PICK a : a = At(t.dones, s)
    OBVIOUS
  <2>2. PICK b : b = At(t.opens, s)
    OBVIOUS
  <2>3. PICK c : c = At(t.closes, s)
    OBVIOUS
  <2>4. q \notin c /\ ~(q \in a /\ q \in b)
    BY <2>1, <2>2, <2>3, KnownOnce DEF At
  <2>5. PICK l1 : l1 = questlog_done(log, a)
    OBVIOUS
  <2>6. PICK l2 : l2 = questlog_open(l1, b)
    OBVIOUS
  <2>7. PICK l3 : l3 = questlog_close(l2, c)
    OBVIOUS
  <2>8. r.log = l3
    BY <1>2, <2>1, <2>2, <2>3, <2>5, <2>6, <2>7 DEF Case
  <2>9. q \in DOMAIN log /\ DOMAIN l1 = DOMAIN log /\ DOMAIN l2 = DOMAIN log
    BY <2>5, <2>6 DEF Logged, questlog_done, questlog_open
  <2>10. l3[q] = l2[q]
    BY <2>4, <2>7, <2>9 DEF questlog_close
  <2>11. l1[q] = IF q \in a THEN [done |-> (log[q].done + 1) % DoneLimit, flags |-> Done] ELSE log[q]
    BY <2>5, <2>9 DEF questlog_done
  <2>12. l2[q] = IF q \in b THEN [l1[q] EXCEPT !.flags = Open] ELSE l1[q]
    BY <2>6, <2>9 DEF questlog_open
  <2> QED
    BY <2>4, <2>8, <2>10, <2>11, <2>12 DEF Changed
<1> QED
  BY <1>1, <1>2

LEMMA CasesChange ==
    ASSUME NEW n \in Givers, NEW q \in DOMAIN quest, q \in Known, NEW s, Logged(quest),
           NEW r \in Cases(Book[n].talk, s)
    PROVE  Changed(quest[q], r.log[q])
<1> DEFINE t == Book[n].talk
<1>1. CASE s \notin t.falls
  BY <1>1, CaseChanges DEF Cases
<1>2. CASE s \in t.falls
  <2>1. PICK c \in Case(t, s, quest) : r \in IF c.to = s + 1 /\ Speaks(t, s + 1) THEN Case(t, s + 1, c.log) ELSE {c}
    BY <1>2 DEF Cases
  <2>2. Logged(c.log)
    BY <2>1, CaseLogged
  <2>3. c.log[q] = quest[q]
    BY <1>2, <2>1, FallLeaves
  <2>4. CASE r = c
    BY <2>3, <2>4 DEF Changed
  <2>5. CASE r \in Case(t, s + 1, c.log)
    <3>1. Changed(c.log[q], r.log[q])
      BY <2>2, <2>5, CaseChanges
    <3> QED
      BY <2>3, <3>1
  <2> QED
    BY <2>1, <2>4, <2>5
<1> QED
  BY <1>1, <1>2

LEMMA RewardChanges ==
    ASSUME Logged(quest), NEW q \in DOMAIN quest, NEW r
    PROVE  Changed(quest[q], questlog_done(quest, {r})[q])
BY DEF questlog_done, Changed, Logged

LEMMA KnownChanges ==
    ASSUME QuestTypes, NEW q \in DOMAIN quest, q \in Known, NEW n \in line, Does(n)
    PROVE  Changed(quest[q], quest'[q])
<1> DEFINE t == Book[n].talk
<1>1. Logged(quest) /\ n \in Givers
  BY DEF QuestTypes
<1>2. CASE Talk(n)
  <2>1. PICK s : s = (IF state[n] < t.least THEN t.least ELSE state[n])
    OBVIOUS
  <2>2. PICK r \in Cases(t, s) : quest' = r.log
    BY <1>2, <2>1 DEF Talk
  <2> QED
    BY <1>1, <2>2, CasesChange
<1>3. CASE ComesLate(n)
  <2>1. PICK p : IF Speaks(t, p[3]) THEN \E r \in Cases(t, p[3]) : quest' = r.log ELSE quest' = quest
    BY <1>3 DEF ComesLate
  <2>2. CASE \E r \in Cases(t, p[3]) : quest' = r.log
    BY <1>1, <2>2, CasesChange
  <2>3. CASE quest' = quest
    BY <2>3 DEF Changed
  <2> QED
    BY <2>1, <2>2, <2>3
<1>4. CASE Strays(n) \/ Ask(n)
  BY <1>4 DEF Strays, Ask, Changed
<1>5. CASE Take(n)
  BY <1>1, <1>5, RewardChanges DEF Take
<1>6. CASE TakePart(n)
  <2>1. PICK g : quest' = quest \/ quest' = questlog_done(quest, {g[4]})
    BY <1>6 DEF TakePart
  <2> QED
    BY <1>1, <2>1, RewardChanges DEF Changed
<1> QED
  BY <1>2, <1>3, <1>4, <1>5, <1>6 DEF Does

\* What is done is rewarded or opened no more, so a count of one is all there is.
LEMMA CountedStays ==
    ASSUME QuestTypes, Counted, Full, NEW q \in DOMAIN quest, q \in Known, Fits(Held[q], q), NEW n \in line, Does(n)
    PROVE  quest'[q].done = IF quest'[q].flags = Done THEN 1 ELSE 0
<1>1. quest[q] \in Entries /\ quest[q].done = IF quest[q].flags = Done THEN 1 ELSE 0
  BY DEF QuestTypes, Logged, Counted
<1>2. CASE quest[q].flags = Done
  <2>1. q \in Once /\ Firm(Held[q], q) /\ DOMAIN Held[q] = GiversOf(q)
    BY KnownOnce, GiversRewardOnce DEF Held
  <2>2. PICK o \in Steps(q, n, state[n], quest[q].flags) : Made(q, n, o)
    BY StepMakes
  <2>3. quest'[q] = quest[q]
    BY <1>2, <2>1, <2>2, FirmStays
  <2> QED
    BY <1>1, <2>3
<1>3. CASE quest[q].flags # Done
  <2>1. Changed(quest[q], quest'[q])
    BY KnownChanges
  <2>2. 1 % DoneLimit = 1
    BY DEF DoneLimit
  <2> QED
    BY <1>1, <1>3, <2>1, <2>2 DEF Changed, Entries, Open, Done
<1> QED
  BY <1>2, <1>3

-----------------------------------------------------------------------------
\* A talk does not reward what is counted in parts.
LEMMA TalliedCase ==
    ASSUME NEW n \in Givers, NEW q \in DOMAIN quest, q \in Tallied, NEW s, NEW log, Logged(log),
           NEW r \in Case(Book[n].talk, s, log), r.log[q].flags = Done
    PROVE  log[q].flags = Done
<1> DEFINE t == Book[n].talk
<1>1. CASE Jumps(t, s, log) # {}
  BY <1>1 DEF Case
<1>2. CASE Jumps(t, s, log) = {}
  <2>1. PICK a : a = At(t.dones, s)
    OBVIOUS
  <2>2. PICK b : b = At(t.opens, s)
    OBVIOUS
  <2>3. PICK c : c = At(t.closes, s)
    OBVIOUS
  <2>4. q \notin c /\ q \notin a
    BY <2>1, <2>2, <2>3, TalliesMatch DEF At
  <2>5. PICK l1 : l1 = questlog_done(log, a)
    OBVIOUS
  <2>6. PICK l2 : l2 = questlog_open(l1, b)
    OBVIOUS
  <2>7. PICK l3 : l3 = questlog_close(l2, c)
    OBVIOUS
  <2>8. r.log = l3
    BY <1>2, <2>1, <2>2, <2>3, <2>5, <2>6, <2>7 DEF Case
  <2>9. q \in DOMAIN log /\ DOMAIN l1 = DOMAIN log /\ DOMAIN l2 = DOMAIN log /\ log[q] \in Entries
    BY <2>5, <2>6 DEF Logged, questlog_done, questlog_open
  <2>10. l3[q] = l2[q]
    BY <2>4, <2>7, <2>9 DEF questlog_close
  <2>11. l1[q] = log[q]
    BY <2>4, <2>5, <2>9 DEF questlog_done
  <2>12. l2[q] = IF q \in b THEN [l1[q] EXCEPT !.flags = Open] ELSE l1[q]
    BY <2>6, <2>9 DEF questlog_open
  <2> QED
    BY <2>8, <2>9, <2>10, <2>11, <2>12 DEF Entries, Open, Done
<1> QED
  BY <1>1, <1>2

LEMMA TalliedCases ==
    ASSUME NEW n \in Givers, NEW q \in DOMAIN quest, q \in Tallied, NEW s, Logged(quest),
           NEW r \in Cases(Book[n].talk, s), r.log[q].flags = Done
    PROVE  quest[q].flags = Done
<1> DEFINE t == Book[n].talk
<1>1. CASE s \notin t.falls
  BY <1>1, TalliedCase DEF Cases
<1>2. CASE s \in t.falls
  <2>1. PICK c \in Case(t, s, quest) : r \in IF c.to = s + 1 /\ Speaks(t, s + 1) THEN Case(t, s + 1, c.log) ELSE {c}
    BY <1>2 DEF Cases
  <2>2. Logged(c.log)
    BY <2>1, CaseLogged
  <2>3. c.log[q].flags = Done
    BY <2>1, <2>2, TalliedCase
  <2> QED
    BY <2>1, <2>3, TalliedCase
<1> QED
  BY <1>1, <1>2

\* It is done with its last part only.
LEMMA TalliedDone ==
    ASSUME QuestTypes, NEW q \in DOMAIN quest, q \in Tallied, quest'[q].flags = Done, NEW n \in line,
           Talk(n) \/ Take(n) \/ ComesLate(n) \/ Strays(n) \/ Ask(n)
    PROVE  quest[q].flags = Done /\ tally' = tally
<1> DEFINE t == Book[n].talk
<1>1. Logged(quest) /\ n \in Givers
  BY DEF QuestTypes
<1>2. CASE Talk(n)
  <2>1. PICK s : s = (IF state[n] < t.least THEN t.least ELSE state[n])
    OBVIOUS
  <2>2. PICK r \in Cases(t, s) : quest' = r.log /\ tally' = tally
    BY <1>2, <2>1 DEF Talk
  <2> QED
    BY <1>1, <2>2, TalliedCases
<1>3. CASE ComesLate(n)
  <2>1. PICK p : IF Speaks(t, p[3]) THEN \E r \in Cases(t, p[3]) : quest' = r.log ELSE quest' = quest
    BY <1>3 DEF ComesLate
  <2>2. tally' = tally
    BY <1>3 DEF ComesLate
  <2> QED
    BY <1>1, <2>1, <2>2, TalliedCases
<1>4. CASE Strays(n) \/ Ask(n)
  BY <1>4 DEF Strays, Ask
<1>5. CASE Take(n)
  <2>1. PICK g \in Book[n].give : quest' = questlog_done(quest, {g[3]}) /\ tally' = tally
    BY <1>5 DEF Take
  <2>2. q # g[3]
    BY <1>1, TalliesMatch
  <2>3. quest'[q] = quest[q]
    BY <1>1, <2>1, <2>2, RewardIs
  <2> QED
    BY <2>1, <2>3
<1> QED
  BY <1>2, <1>3, <1>4, <1>5

LEMMA FullStays ==
    ASSUME QuestTypes, Full, NEW q \in DOMAIN quest, q \in Tallied, quest'[q].flags = Done, NEW n \in line, Does(n),
           NEW m \in line, NEW g \in Book[m].parts, g[4] = q
    PROVE  tally'[m] >= g[3]
<1>1. Logged(quest) /\ n \in Givers /\ m \in Givers /\ tally \in [line -> Nat]
  BY DEF QuestTypes
<1>2. CASE Talk(n) \/ Take(n) \/ ComesLate(n) \/ Strays(n) \/ Ask(n)
  BY <1>2, TalliedDone DEF Full
<1>3. CASE TakePart(n)
  <2>1. PICK h \in Book[n].parts :
           IF tally[n] + 1 < h[3] THEN tally' = [tally EXCEPT ![n] = @ + 1] /\ quest' = quest
           ELSE /\ tally' = [tally EXCEPT ![n] = IF h[6] THEN 0 ELSE @ + 1]
                /\ quest' = questlog_done(quest, {h[4]})
    BY <1>3 DEF TakePart
  <2>2. g[3] \in Nat
    BY <1>1, TalliesMatch
  <2>3. CASE quest[q].flags = Done /\ tally' = [tally EXCEPT ![n] = @ + 1]
    <3>1. tally[m] >= g[3]
      BY <2>3 DEF Full
    <3> QED
      BY <1>1, <2>2, <2>3, <3>1
  <2>4. CASE /\ ~(tally[n] + 1 < h[3])
             /\ tally' = [tally EXCEPT ![n] = IF h[6] THEN 0 ELSE @ + 1]
             /\ quest' = questlog_done(quest, {h[4]})
    <3>1. CASE n = m
      <4>1. ~h[6] /\ h[3] = g[3]
        BY <1>1, <2>1, <3>1, TalliesMatch
      <4>2. tally'[m] = tally[m] + 1
        BY <1>1, <2>4, <3>1, <4>1
      <4> QED
        BY <1>1, <2>2, <2>4, <3>1, <4>1, <4>2
    <3>2. CASE n # m
      <4>1. h[4] # q
        BY <1>1, <2>1, <3>2, TalliesMatch
      <4>2. quest'[q] = quest[q]
        BY <1>1, <2>4, <4>1, RewardIs
      <4>3. tally[m] >= g[3]
        BY <4>2 DEF Full
      <4>4. tally'[m] = tally[m]
        BY <1>1, <2>4, <3>2
      <4> QED
        BY <4>3, <4>4
    <3> QED
      BY <3>1, <3>2
  <2> QED
    BY <2>1, <2>3, <2>4
<1> QED
  BY <1>2, <1>3 DEF Does

-----------------------------------------------------------------------------
\* Opening quests again leads out of it no more than the steps do.
LEMMA ReopenFits ==
    ASSUME QuestTypes, NEW shows, NEW q \in DOMAIN quest, Reopens(shows, q), Fits(shows, q),
           NEW r \in DOMAIN quest, Reopen(r)
    PROVE  \A n \in line \cap DOMAIN shows : state'[n] \in States[n] /\ quest'[q].flags \in shows[n][state'[n]]
<1> DEFINE back(n) == \E w \in Resets : w[1] = r /\ w[2] = n
           where(n) == (CHOOSE w \in Resets : w[1] = r /\ w[2] = n)[3]
<1>1. /\ state' = [n \in line |-> IF back(n) THEN where(n) ELSE state[n]]
      /\ quest' = questlog_open(quest, {r})
      /\ UNCHANGED line
  BY DEF Reopen
<1>2. r \in Flagged /\ quest[r].flags = Done /\ ~Refused(quest, r) /\ \E w \in Resets : w[1] = r
  BY DEF Reopen, MayReopen
<1>3. DOMAIN quest' = DOMAIN quest /\ quest'[q].flags = IF q = r THEN Open ELSE quest[q].flags
  BY <1>1 DEF questlog_open, QuestTypes, Logged, Entries
<1>4. ASSUME NEW n \in line \cap DOMAIN shows PROVE state'[n] \in States[n] /\ quest'[q].flags \in shows[n][state'[n]]
  <2>1. n \in Givers /\ state[n] \in States[n] /\ quest[q].flags \in shows[n][state[n]]
    BY DEF QuestTypes, Fits
  <2>2. CASE back(n)
    <3>1. PICK w \in Resets : w[1] = r /\ w[2] = n /\ state'[n] = w[3]
      BY <1>1, <2>2
    <3>2. CASE q = r
      BY <1>2, <1>3, <2>1, <2>2, <3>1, <3>2 DEF Reopens
    <3>3. CASE q # r
      <4>1. ~(quest[q].flags = Open /\ \E z \in Series : q \in z /\ r \in z)
        BY <1>2 DEF Refused
      <4> QED
        BY <1>3, <2>1, <3>1, <3>3, <4>1 DEF Reopens
    <3> QED
      BY <3>2, <3>3
  <2>3. CASE ~back(n)
    <3>1. state'[n] = state[n]
      BY <1>1, <2>3
    <3>2. CASE q = r
      BY <1>2, <1>3, <2>1, <2>3, <3>1, <3>2 DEF Reopens
    <3> QED
      BY <1>3, <2>1, <3>1, <3>2
  <2> QED
    BY <2>2, <2>3
<1> QED
  BY <1>4


\* Opening quest r again leaves every other entry, and those r is not counted with.
LEMMA ReopenLeaves ==
    ASSUME QuestTypes, NEW r \in DOMAIN quest, Reopen(r)
    PROVE  /\ quest'[r].flags = Open /\ \A q \in DOMAIN quest \ {r} : quest'[q] = quest[q]
           /\ r \in Flagged
           /\ \A n \in line : (n = "count" => r # 40) => tally'[n] = tally[n]
           /\ DOMAIN quest' = DOMAIN quest /\ line' = line /\ reopened' = reopened + 1
BY DEF Reopen, MayReopen, questlog_open, QuestTypes, Logged, Entries

-----------------------------------------------------------------------------
\* What holds in every state.
StorySafe ==
    /\ QuestTypes
    /\ Counted
    /\ Full
    /\ reopened = 0 => \A p \in Checked : Fits(Told[p[1]], p[1])
    /\ \A q \in Serial : Fits(Turn[q], q)
    /\ \A q \in Once : Fits(Held[q], q)

LEMMA ShownBy ==
    /\ \A p \in Checked : DOMAIN Told[p[1]] = GiversOf(p[1])
    /\ \A q \in Serial : DOMAIN Turn[q] = GiversOf(q)
    /\ \A q \in Once : DOMAIN Held[q] = GiversOf(q)
<1>1. ASSUME NEW p \in Checked PROVE p[1] \in {r[1] : r \in Since}
  <2>1. p \in InitDone
    BY DEF Checked
  <2>2. CASE p[1] \notin {14, 15, 18, 24}
    BY <2>1, <2>2 DEF Since
  <2>3. CASE p[1] \in {14, 15, 18, 24}
    <3>1. <<14, "kelly", 10>> \in Since /\ <<15, "kelly", 17>> \in Since
          /\ <<18, "crypt", 10>> \in Since /\ <<24, "hermit", 6>> \in Since
      BY DEF Since
    <3> QED
      BY <2>3, <3>1
  <2> QED
    BY <2>2, <2>3
<1> QED
  BY <1>1 DEF Told, Turn, Held

LEMMA BeginFits ==
    ASSUME Init, NEW shows, NEW q, Begins(shows)
    PROVE  Fits(shows, q)
<1>1. \A n \in line : state[n] = 0
  BY DEF Init
<1>2. q \in DOMAIN quest => quest[q].flags = Untouched
  BY DEF Init, NoEntry
<1> QED
  BY <1>1, <1>2 DEF Begins, Fits

LEMMA StoryStarts == Init => StorySafe
<1> SUFFICES ASSUME Init PROVE StorySafe
  OBVIOUS
<1>1. \A q \in DOMAIN quest : quest[q] = NoEntry
  BY DEF Init
<1>2. Counted /\ Full
  BY <1>1 DEF Counted, Full, NoEntry, Untouched, Done
<1> QED
  BY <1>2, TypesStart, BeginFits, GiversTell, GiversTakeTurns, GiversRewardOnce DEF StorySafe

\* A quest that no giver of the line has to do with is not in the log, and stays out.
LEMMA QuestsStay ==
    ASSUME QuestTypes, [Next]_vars
    PROVE  line' = line /\ DOMAIN quest' = DOMAIN quest
<1>1. line' = line
  BY DEF Next, GoesOn, Talk, ComesLate, Strays, Ask, Take, TakePart, Reopen, vars
<1>2. QuestTypes'
  BY TypesStep
<1>3. \A q : q \in DOMAIN quest' <=> q # NoQuest /\ \E n \in line : q \in QuestsOf(n)
  BY <1>1, <1>2 DEF QuestTypes
<1>4. \A q : q \in DOMAIN quest <=> q # NoQuest /\ \E n \in line : q \in QuestsOf(n)
  BY DEF QuestTypes
<1> QED
  BY <1>1, <1>3, <1>4

\* What no giver leads out of.
LEMMA TalesFit ==
    ASSUME QuestTypes, Counted, Full, NEW shows, NEW q, DOMAIN shows = GiversOf(q),
           Keeps(shows, q), Fits(shows, q), NEW n \in line, Does(n)
    PROVE  Fits(shows, q)'
<1>1. [Next]_vars
  BY DEF Next, GoesOn, Does
<1>2. line' = line /\ DOMAIN quest' = DOMAIN quest
  BY <1>1, QuestsStay
<1>3. CASE q \in DOMAIN quest
  <2>1. PICK o \in Steps(q, n, state[n], quest[q].flags) : Made(q, n, o)
    BY <1>3, StepMakes
  <2> QED
    BY <1>2, <1>3, <2>1, MadeFits DEF Fits
<1> QED
  BY <1>2, <1>3 DEF Fits

LEMMA TalesReopen ==
    ASSUME QuestTypes, NEW shows, NEW q, Reopens(shows, q), Fits(shows, q), NEW r \in DOMAIN quest, Reopen(r)
    PROVE  Fits(shows, q)'
<1>1. line' = line /\ DOMAIN quest' = DOMAIN quest
  BY ReopenLeaves
<1> QED
  BY <1>1, ReopenFits DEF Fits

LEMMA StoryDoes ==
    ASSUME StorySafe, NEW n \in line, Does(n)
    PROVE  StorySafe'
<1>1. [Next]_vars
  BY DEF Next, GoesOn, Does
<1>2. QuestTypes /\ Counted /\ Full /\ QuestTypes' /\ line' = line /\ DOMAIN quest' = DOMAIN quest
  BY <1>1, TypesStep, QuestsStay DEF StorySafe
<1>3. reopened' = reopened
  BY DEF Does, Talk, ComesLate, Strays, Ask, Take, TakePart
<1>4. Counted'
  <2>1. ASSUME NEW q \in Known \cap DOMAIN quest PROVE quest'[q].done = IF quest'[q].flags = Done THEN 1 ELSE 0
    <3>1. Fits(Held[q], q)
      BY KnownOnce DEF StorySafe
    <3> QED
      BY <1>2, <3>1, CountedStays
  <2> QED
    BY <1>2, <2>1 DEF Counted
<1>5. Full'
  BY <1>2, FullStays DEF Full
<1>6. reopened = 0 => \A p \in Checked : Fits(Told[p[1]], p[1])'
  BY <1>2, TalesFit, ShownBy, GiversTell DEF StorySafe
<1>7. \A q \in Serial : Fits(Turn[q], q)'
  BY <1>2, TalesFit, ShownBy, GiversTakeTurns DEF StorySafe
<1>8. \A q \in Once : Fits(Held[q], q)'
  BY <1>2, TalesFit, ShownBy, GiversRewardOnce DEF StorySafe
<1> QED
  BY <1>2, <1>3, <1>4, <1>5, <1>6, <1>7, <1>8 DEF StorySafe

LEMMA StoryReopens ==
    ASSUME StorySafe, NEW r \in DOMAIN quest, Reopen(r)
    PROVE  StorySafe'
<1>1. [Next]_vars
  BY DEF Next
<1>2. QuestTypes /\ Counted /\ Full /\ QuestTypes'
  BY <1>1, TypesStep DEF StorySafe
<1>3. /\ quest'[r].flags = Open /\ \A q \in DOMAIN quest \ {r} : quest'[q] = quest[q]
      /\ r \in Flagged
      /\ \A n \in line : (n = "count" => r # 40) => tally'[n] = tally[n]
      /\ DOMAIN quest' = DOMAIN quest /\ line' = line /\ reopened' # 0
  BY <1>2, ReopenLeaves DEF QuestTypes
<1>4. Counted'
  BY <1>2, <1>3, KnownOnce DEF Counted
<1>5. Full'
  <2>1. SUFFICES ASSUME NEW q \in Tallied, q \in DOMAIN quest, quest'[q].flags = Done,
                        NEW n \in line, NEW g \in Book[n].parts, g[4] = q
                 PROVE  tally'[n] >= g[3]
    BY <1>3 DEF Full
  <2>2. q # r
    BY <1>3, <2>1 DEF Open, Done
  <2>3. tally[n] >= g[3]
    BY <1>2, <1>3, <2>1, <2>2 DEF Full
  <2>4. n = "count" => q = 40
    BY <1>2, <2>1, TalliesMatch DEF QuestTypes
  <2> QED
    BY <1>3, <2>2, <2>3, <2>4
<1>6. \A q \in Serial : Fits(Turn[q], q)'
  BY <1>2, TalesReopen, GiversTakeTurns DEF StorySafe
<1>7. \A q \in Once : Fits(Held[q], q)'
  BY <1>2, TalesReopen, GiversRewardOnce DEF StorySafe
<1> QED
  BY <1>2, <1>3, <1>4, <1>5, <1>6, <1>7 DEF StorySafe

LEMMA StoryStep == StorySafe /\ [Next]_vars => StorySafe'
<1> SUFFICES ASSUME StorySafe, [Next]_vars PROVE StorySafe'
  OBVIOUS
<1>1. CASE \E n \in line : Does(n)
  BY <1>1, StoryDoes
<1>2. CASE \E r \in DOMAIN quest : Reopen(r)
  BY <1>2, StoryReopens
<1>3. CASE UNCHANGED vars
  BY <1>3 DEF vars, StorySafe, QuestTypes, Logged, Counted, Full, Fits
<1> QED
  BY <1>1, <1>2, <1>3 DEF Next, GoesOn, Does

LEMMA StoryIsSound == StorySafe => LogSound
<1> SUFFICES ASSUME StorySafe PROVE LogSound
  OBVIOUS
<1>1. ASSUME reopened = 0, NEW p \in InitDone, p[2] \in line, state[p[2]] \in Book[p[2]].talk.waits,
             p[1] \notin JamesAgain \cup {22} \cup Thieves
      PROVE  questlog_isdone(quest, p[1]) <=> state[p[2]] >= p[3]
  <2>1. p \in Checked
    BY <1>1 DEF Checked
  <2>2. p[1] \in DOMAIN quest
    <3>1. p[1] \in QuestsOf(p[2]) \ {NoQuest}
      BY <2>1, GiversTell
    <3> QED
      BY <1>1, <3>1 DEF StorySafe, QuestTypes
  <2>3. p[2] \in line \cap DOMAIN Told[p[1]]
    <3>1. p[2] \in Givers /\ p[1] \in QuestsOf(p[2])
      BY <1>1, <2>1, GiversTell DEF StorySafe, QuestTypes
    <3> QED
      BY <1>1, <2>1, <3>1, ShownBy DEF GiversOf
  <2>4. state[p[2]] \in States[p[2]] /\ quest[p[1]].flags \in Told[p[1]][p[2]][state[p[2]]]
    BY <1>1, <2>1, <2>2, <2>3 DEF StorySafe, Fits
  <2> QED
    BY <1>1, <2>1, <2>4, GiversTell DEF questlog_isdone
<1>2. ASSUME NEW z \in Series PROVE Cardinality({q \in z \cap DOMAIN quest : quest[q].flags = Open}) <= 1
  <2>1. PICK n \in Givers :
           /\ z \subseteq QuestsOf(n)
           /\ \A l \in Lines : (\E m \in l : z \cap QuestsOf(m) # {}) => n \in l
           /\ \A q, r \in z : q # r => \A s \in States[n] : Open \notin Turn[q][n][s] \cap Turn[r][n][s]
    BY GiversTakeTurns
  <2>2. PICK open : open = {q \in z \cap DOMAIN quest : quest[q].flags = Open}
    OBVIOUS
  <2>3. \A q, r \in open : q = r
    <3>1. SUFFICES ASSUME NEW q \in open, NEW r \in open, q # r PROVE FALSE
      OBVIOUS
    <3>2. q \in z /\ r \in z /\ q \in Serial /\ r \in Serial /\ q \in DOMAIN quest /\ r \in DOMAIN quest
          /\ quest[q].flags = Open /\ quest[r].flags = Open
      BY <2>2 DEF Serial
    <3>3. n \in line
      BY <2>1, <3>2 DEF StorySafe, QuestTypes
    <3>4. n \in DOMAIN Turn[q] /\ n \in DOMAIN Turn[r]
      BY <2>1, <3>2, ShownBy DEF GiversOf
    <3>5. state[n] \in States[n] /\ Open \in Turn[q][n][state[n]] /\ Open \in Turn[r][n][state[n]]
      BY <3>2, <3>3, <3>4 DEF StorySafe, Fits
    <3> QED
      BY <2>1, <3>1, <3>2, <3>5
  <2>4. CASE open = {}
    BY <2>2, <2>4, FS_EmptySet
  <2>5. CASE open # {}
    <3>1. PICK q : open = {q}
      BY <2>3, <2>5
    <3>2. Cardinality(open) = 1
      BY <3>1, FS_Singleton
    <3> QED
      BY <2>2, <3>2
  <2> QED
    BY <2>4, <2>5
<1>3. LogAgrees
  BY <1>1 DEF LogAgrees
<1>4. OneOfSeries
  BY <1>2 DEF OneOfSeries
<1> QED
  BY <1>3, <1>4 DEF LogSound


\* What is done and not opened again stays as it is.
LEMMA DoneStep ==
    ASSUME StorySafe, [Next]_vars, reopened' = reopened, NEW q \in DOMAIN quest, quest[q].flags = Done,
           q \notin RewardedTwice, reopened = 0 \/ q \notin Later
    PROVE  quest'[q] = quest[q]
<1>1. QuestTypes /\ Counted /\ Full
  BY DEF StorySafe
<1>2. CASE UNCHANGED vars
  BY <1>2 DEF vars
<1>3. ASSUME NEW r \in DOMAIN quest, Reopen(r) PROVE FALSE
  <2>1. reopened' = reopened + 1 /\ reopened \in Nat
    BY <1>1, <1>3, ReopenLeaves DEF QuestTypes
  <2> QED
    BY <2>1
<1>4. ASSUME NEW n \in line, Does(n) PROVE quest'[q] = quest[q]
  <2>1. PICK o \in Steps(q, n, state[n], quest[q].flags) : Made(q, n, o)
    BY <1>1, <1>4, StepMakes
  <2>2. CASE q \in Later
    <3>1. PICK p \in Checked : q = p[1] /\ Fits(Told[p[1]], p[1])
      BY <2>2, GiversRewardOnce DEF StorySafe
    <3>2. Fits(Told[q], q) /\ Firm(Told[q], q) /\ DOMAIN Told[q] = GiversOf(q)
      BY <2>2, <3>1, GiversRewardOnce, ShownBy
    <3> QED
      BY <1>1, <2>1, <3>2, FirmStays
  <2>3. CASE q \notin Later
    <3>1. q # NoQuest /\ \E m \in Givers : q \in QuestsOf(m)
      BY <1>1 DEF QuestTypes
    <3>2. q \in Once
      BY <2>3, <3>1 DEF Once
    <3>3. Fits(Held[q], q) /\ Firm(Held[q], q) /\ DOMAIN Held[q] = GiversOf(q)
      BY <3>2, GiversRewardOnce, ShownBy DEF StorySafe
    <3> QED
      BY <1>1, <2>1, <3>3, FirmStays
  <2> QED
    BY <2>2, <2>3
<1> QED
  BY <1>2, <1>3, <1>4 DEF Next, GoesOn, Does

-----------------------------------------------------------------------------
\* While a quest giver waits, the log a player has and the states of his quest givers
\* (questlog.c, the givers' drivers) agree on what is done, and of a series one quest is
\* open at most, for any lines of givers and however often he asks, is late or opens again.
THEOREM StoryAlwaysSound == Spec => []LogSound
BY StoryStarts, StoryStep, StoryIsSound, PTL DEF Spec

\* What stands as done in the log is rewarded and opened by no giver any more
\* (questlog_done, questlog_open as the drivers call them), but for the quests that
\* DoneStays names, until the player opens it again himself.
THEOREM RewardedOnce == Spec => DoneStays
<1>1. StorySafe /\ [Next]_vars =>
        [reopened' = reopened =>
          \A q \in DOMAIN quest :
             (/\ quest[q].flags = Done
              /\ q \notin RewardedTwice
              /\ (reopened = 0 \/ q \notin Later))
             => quest'[q] = quest[q]]_vars
  BY DoneStep
<1> QED
  BY <1>1, StoryStarts, StoryStep, PTL DEF Spec, DoneStays
=============================================================================
