---------------------------- MODULE ClanRelations ----------------------------
(***************************************************************************)
(* The relations between clans, as area 3 keeps them (clan.c).  Each clan  *)
(* has a wish towards each other one and the time it was made; every ten   *)
(* seconds update_relations moves what holds between two clans towards     *)
(* what they want.  It visits a pair twice, once from either side.         *)
(***************************************************************************)
EXTENDS Clans

CONSTANTS MaxWishes, MaxClans    \* bounds: wishes spoken, clans founded

ASSUME RelationsAssumption == MaxWishes \in Nat /\ MaxClans \in Nat

VARIABLES named,      \* the slots that hold a clan
          doraid,     \* the clans that raid
          rel,        \* what each clan remembers about each other one
          wishes, clans  \* how often the bounded things happened

relVars == <<named, doraid, rel, wishes, clans>>

CS_ALLIANCE == 1
CS_PEACETREATY == 2
CS_NEUTRAL == 3
CS_WAR == 4
CS_FEUD == 5
Relations == CS_ALLIANCE .. CS_FEUD
Unset == 0                       \* what bzero leaves

\* How long ago a wish was made: 1 after an hour, 2 after a day.
Ages == 0 .. 2
HourOld(w) == w.age >= 1
DayOld(w) == w.age = 2

Neutral(age) == [cur |-> CS_NEUTRAL, want |-> CS_NEUTRAL, age |-> age]
Cleared == [cur |-> Unset, want |-> Unset, age |-> 2]

RelInit ==
    /\ named = {} /\ doraid = {}
    /\ rel = [n \in Slots |-> [m \in Slots |-> Cleared]]
    /\ wishes = 0 /\ clans = 0

\* All the others forget slot n: zero_relation dates the wish to 1970.
zero_relation(r, n) == [m \in Slots |-> [r[m] EXCEPT ![n] = Neutral(2)]]

-----------------------------------------------------------------------------
(* One visit of a pair: what clan n holds towards m, given both wishes.    *)

Cap(x) == IF x > CS_NEUTRAL THEN CS_NEUTRAL ELSE x

\* Mutant: a feud takes one clan's wish and ends in neutrality.
StepAround(cur, w1, w2) ==
    CASE cur < CS_FEUD /\ (w1.want > cur \/ w2.want > cur) -> cur + 1
      [] cur = CS_FEUD /\ (w1.want < cur \/ w2.want < cur) -> CS_NEUTRAL
      [] OTHER -> cur

\* The switch: out of an alliance or a treaty, and from a feud back to war, one
\* clan's wish is enough after a day, from neutral to war after an hour; a war
\* ends and a feud or a treaty begins only if both want it.
RelationStep(cur, w1, w2) ==
    LET worse(w) == w.want > cur
        better(w) == w.want < cur
        oneWorse(old(_)) == (worse(w1) /\ old(w1)) \/ (worse(w2) /\ old(w2))
        oneBetter(old(_)) == (better(w1) /\ old(w1)) \/ (better(w2) /\ old(w2))
    IN  CASE cur <= CS_PEACETREATY /\ oneWorse(DayOld) -> cur + 1
          [] cur = CS_NEUTRAL /\ oneWorse(HourOld) -> cur + 1
          [] cur = CS_NEUTRAL /\ worse(w1) /\ worse(w2) -> cur + 1
          [] cur >= CS_NEUTRAL /\ better(w1) /\ better(w2) -> cur - 1
          [] cur = CS_FEUD /\ oneBetter(DayOld) -> cur - 1
          [] OTHER -> cur

\* What a clan holds towards one that does not raid is at worst neutral.
Capped(own) == [own EXCEPT !.cur = Cap(@), !.want = Cap(@)]

\* One visit: what a clan holds towards another one, and the other towards it.
Visit(own, other, raids) ==
    LET w1 == IF raids THEN own ELSE Capped(own)
        cur == IF w1.want = other.want THEN w1.want ELSE RelationStep(w1.cur, w1, other)
    IN  IF w1.want = other.want /\ w1.cur = w1.want THEN <<w1, other>>
        ELSE <<[w1 EXCEPT !.cur = cur], [other EXCEPT !.cur = cur]>>

\* Row n begins by turning raiding on; a pair is visited in row n, when the
\* upper one may not raid yet, and in row m.  No other visit touches the pair.
Memories == [cur : Relations \cup {Unset}, want : Relations \cup {Unset}, age : Ages]
VisitPair == [pair \in Memories \X Memories \X BOOLEAN |->
    LET first == Visit(pair[1], pair[2], pair[3])
        second == Visit(first[2], first[1], TRUE)
    IN  <<second[2], second[1]>>]

update_relations ==
    [n \in Slots |-> [m \in Slots |->
        IF n = m \/ ~({n, m} \subseteq named) THEN rel[n][m]
        ELSE IF n < m THEN VisitPair[<<rel[n][m], rel[m][n], m \in doraid>>][1]
        ELSE VisitPair[<<rel[m][n], rel[n][m], n \in doraid>>][2]]]

-----------------------------------------------------------------------------
(* Actions *)

UpdateRelations ==
    /\ doraid' = named /\ rel' = update_relations
    /\ UNCHANGED <<named, wishes, clans>>

\* The first free slot is taken; clan_standards sets its side to neutral.
FoundRelations(n) ==
    /\ clans < MaxClans /\ clans' = clans + 1
    /\ n \notin named /\ \A m \in 1 .. n - 1 : m \in named
    /\ named' = named \cup {n} /\ doraid' = doraid \ {n}
    /\ rel' = zero_relation([rel EXCEPT ![n] = [m \in Slots |-> Neutral(0)]], n)
    /\ UNCHANGED wishes

\* update_treasure disbands a clan that is broke.
DisbandRelations(n) ==
    /\ n \in named
    /\ named' = named \ {n} /\ doraid' = doraid \ {n}
    /\ rel' = zero_relation([rel EXCEPT ![n] = [m \in Slots |-> Cleared]], n)
    /\ UNCHANGED <<wishes, clans>>

\* A leader speaks to the clan clerk, about any slot: war and feud only
\* between clans that raid (clanmaster.c).
set_clan_relation(n, m, want) ==
    /\ n \in named /\ m \in Others(n)
    /\ want > CS_NEUTRAL => {n, m} \subseteq doraid
    /\ wishes < MaxWishes /\ wishes' = wishes + 1
    /\ rel' = [rel EXCEPT ![n][m] =
                 [cur |-> @.cur, want |-> want, age |-> IF @.want # want THEN 0 ELSE @.age]]
    /\ UNCHANGED <<named, doraid, clans>>

\* A god may turn raiding off, until the next update.
set_clan_raid_god(n) ==
    /\ n \in named \cap doraid
    /\ wishes < MaxWishes /\ wishes' = wishes + 1
    /\ doraid' = doraid \ {n}
    /\ UNCHANGED <<named, rel, clans>>

\* An hour, or a day, passes.
TimePasses == \E hours \in {1, 2} :
    /\ \E n \in named, m \in Slots : rel[n][m].age < hours
    /\ rel' = [n \in Slots |-> [m \in Slots |->
                 [rel[n][m] EXCEPT !.age = IF @ < hours THEN hours ELSE @]]]
    /\ UNCHANGED <<named, doraid, wishes, clans>>

RelNext ==
    \/ UpdateRelations
    \/ TimePasses
    \/ \E n \in Slots : FoundRelations(n) \/ DisbandRelations(n) \/ set_clan_raid_god(n)
    \/ \E n, m \in Slots, want \in Relations : set_clan_relation(n, m, want)

\* tick_clan runs the update every ten seconds, and time goes on.
RelFair == WF_relVars(UpdateRelations) /\ WF_relVars(TimePasses)
RelSpec == RelInit /\ [][RelNext]_relVars /\ RelFair

-----------------------------------------------------------------------------
(* Properties *)

Cur(n, m) == rel[n][m].cur
Pairs == {p \in named \X named : p[1] # p[2]}

\* What two clans are to each other is the same from both sides, and one of the
\* five relations: a wish, a founding or disbanding in a reused slot, and a
\* clan that stopped raiding in between make no difference (clan.c:826).
RelationsMutual == \A p \in Pairs :
    Cur(p[1], p[2]) = Cur(p[2], p[1]) /\ Cur(p[1], p[2]) \in Relations

\* An update, which may move a pair twice, never takes it past both wishes, and
\* to an alliance or a feud only when both want that (clan.c:881, 926).
WishesRespected == [][
    \A p \in Pairs :
        LET n == p[1]  m == p[2]
            now == Cur(n, m)  then == rel'[n][m].cur
            w1 == rel'[n][m].want  w2 == rel'[m][n].want
        IN  p \in named' \X named' =>
            /\ then > now => then <= w1 \/ then <= w2
            /\ then < now => then >= w1 \/ then >= w2
            /\ then \in {CS_ALLIANCE, CS_FEUD} /\ then # now => w1 = then /\ w2 = then]_relVars

\* A clan is not held by a predecessor's treaties: two clans of which one is
\* new are neutral until one of them wants something else (clan.c:413, 434).
FreshStart == [][
    \A n, m \in Slots : n \in named' \ named /\ m \in named' /\ n # m
        => rel'[m][n].cur = CS_NEUTRAL /\ rel'[m][n].want = CS_NEUTRAL]_relVars

\* Treaties are those both clans made, and nobody else's.
TreatiesKept == []RelationsMutual /\ WishesRespected /\ FreshStart

\* The two visits never undo each other for ever: once nobody changes a wish,
\* the relations come to rest.
RelationsSettle == <>[][\A n, m \in Slots : rel'[n][m].cur = Cur(n, m)]_relVars

\* Where they come to rest: the less friendly of two wishes prevails, but a
\* feud that only one of them wants is a war.
AtRest == update_relations = rel /\ \A p \in Pairs : DayOld(rel[p[1]][p[2]])
=============================================================================
