------------------------------ MODULE QuestLog ------------------------------
(***************************************************************************)
(* questlog.c: for every quest how often it was rewarded and whether it is *)
(* open or done now, the quests a player may open again and what that      *)
(* resets, and the log a character gets that has none yet.                 *)
(***************************************************************************)
EXTENDS Integers, FiniteSets

Untouched == "0"
Open == "QF_OPEN"
Done == "QF_DONE"
DoneLimit == 64    \* quest[].done has six bits

NoEntry == [done |-> 0, flags |-> Untouched]

questlog_open(log, qs) ==
    [q \in DOMAIN log |-> IF q \in qs THEN [log[q] EXCEPT !.flags = Open] ELSE log[q]]

questlog_close(log, qs) ==
    [q \in DOMAIN log |-> IF q \in qs /\ log[q].flags = Open
                          THEN [log[q] EXCEPT !.flags = Done] ELSE log[q]]

questlog_done(log, qs) ==
    [q \in DOMAIN log |-> IF q \in qs THEN [done |-> (log[q].done + 1) % DoneLimit, flags |-> Done]
                          ELSE log[q]]

questlog_isdone(log, q) == log[q].flags = Done
questlog_count(log, q) == log[q].done

(***************************************************************************)
(* Opening again.  The flag test reads "!flags & QLF_REPEATABLE", which    *)
(* refuses only the quests that have no flag at all; of those that pass,   *)
(* the ones that are not listed under Resets are refused in the switch.    *)
(***************************************************************************)
Flagged == (0 .. 5) \cup {7, 8, 9, 12, 13, 16, 20} \cup (25 .. 28) \cup {30, 31, 35}
           \cup (37 .. 45)

Resets == {<<0, "james", 0>>, <<0, "lydia", 0>>, <<1, "gwendylon", 0>>, <<2, "gwendylon", 6>>,
    <<3, "gwendylon", 10>>, <<4, "gwendylon", 13>>, <<5, "yoakin", 0>>, <<7, "guiwynn", 0>>,
    <<8, "guiwynn", 6>>, <<9, "logain", 0>>, <<12, "seymour", 12>>, <<13, "kelly", 0>>,
    <<16, "astro2", 0>>, <<20, "staff", 0>>, <<30, "skelly", 0>>, <<31, "alchemist", 0>>,
    <<35, "smugglecom", 0>>, <<37, "smugglecom", 7>>, <<38, "aristocrat", 0>>,
    <<39, "yoatin", 0>>, <<40, "count", 0>>, <<41, "brenneth", 0>>, <<42, "brenneth", 5>>,
    <<43, "brenneth", 9>>, <<44, "spirit", 0>>, <<45, "broklin", 0>>}

\* Quests one giver hands out one after the other; "Cannot re-open more than
\* one quest from a series."
Series == {{1, 2, 3, 4}, {7, 8}, {10, 11, 12}, {18, 19}, {22, 23}, {35, 36, 37}, {41, 42, 43},
           {45, 46}}

\* Mutant: only the quests before it are looked at.
RefusedBefore(log, q) ==
    \E s \in Series : q \in s /\ \E r \in s \cap DOMAIN log : r < q /\ log[r].flags = Open

Refused(log, q) == \E s \in Series : q \in s /\ \E r \in s \cap DOMAIN log : log[r].flags = Open

MayReopen(log, q) ==
    /\ log[q].done <= 9
    /\ q \in Flagged
    /\ log[q].flags = Done
    /\ q \in {r[1] : r \in Resets}
    /\ ~Refused(log, q)

(***************************************************************************)
(* The log of a character that has none: the quests that its quest givers' *)
(* states show as done.                                                    *)
(***************************************************************************)
InitArea1 == {<<0, "lydia", 6>>, <<1, "gwendylon", 6>>, <<2, "gwendylon", 10>>,
    <<3, "gwendylon", 13>>, <<4, "gwendylon", 17>>, <<5, "yoakin", 5>>, <<6, "nook", 12>>,
    <<7, "guiwynn", 6>>, <<8, "guiwynn", 9>>, <<9, "logain", 6>>, <<17, "reskin", 8>>}
InitArea3 == {<<10, "seymour", 10>>, <<11, "seymour", 12>>, <<12, "seymour", 16>>,
    <<13, "kelly", 6>>, <<14, "kelly", 14>>, <<15, "kelly", 16>>, <<16, "astro2", 5>>,
    <<18, "crypt", 12>>, <<19, "crypt", 15>>, <<21, "clara", 15>>, <<22, "william", 3>>,
    <<23, "william", 7>>, <<24, "hermit", 5>>}
InitStaff == {<<20, "staff", 6>>, <<35, "smugglecom", 5>>, <<36, "smugglecom", 7>>,
    <<37, "smugglecom", 10>>, <<38, "aristocrat", 8>>, <<39, "yoatin", 9>>,
    <<41, "brenneth", 5>>, <<42, "brenneth", 9>>, <<43, "brenneth", 12>>, <<44, "spirit", 5>>,
    <<45, "broklin", 5>>, <<46, "broklin", 11>>, <<47, "chief", 5>>, <<48, "chief", 8>>,
    <<49, "chief", 11>>, <<50, "chief", 14>>, <<51, "shaman", 3>>, <<52, "shaman", 6>>,
    <<53, "shaman", 9>>}
InitTwocity == {<<25, "thief", 10>>, <<26, "thief", 14>>, <<27, "thief", 18>>, <<28, "thief", 20>>,
    <<29, "sanwyn", 8>>, <<30, "skelly", 3>>, <<31, "alchemist", 5>>}
InitNomad == {<<32, "nomad1", 9>>, <<33, "nomad4", 4>>, <<34, "nomad5", 4>>}

InitDone == InitArea1 \cup InitArea3 \cup InitStaff \cup InitTwocity \cup InitNomad
=============================================================================
