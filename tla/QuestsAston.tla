---------------------------- MODULE QuestsAston ----------------------------
(***************************************************************************)
(* The quest givers of Aston and the tunnels below it (area3.c, area2.c,   *)
(* staffer.c), and Clara's outpost in the swamp (swamp.c).                 *)
(***************************************************************************)
EXTENDS QuestNpc

SeymourTalk == [Silent EXCEPT !.waits = {9, 11, 15, 17},
    !.opens = {<<0, 10>>, <<10, 11>>, <<14, 12>>}, !.jumps = {<<12, 14>>, <<13, 14>>},
    !.skips = {<<10, 11, 12>>, <<14, 12, 16>>}]
SeymourRepeat == {<<0, 9, 0>>, <<10, 11, 10>>, <<12, 13, 12>>, <<14, 15, 14>>, <<16, 17, 16>>}
SeymourGive == {<<9, 9, 10, 10>>, <<11, 11, 11, 12>>, <<15, 15, 12, 16>>}

\* Kelly: the creeper, three shrines under the park, Clara's report, and at
\* last the letter to Caligar and the plaque.
KellyTalk == [Silent EXCEPT !.waits = {5, 25, 26},
    !.opens = {<<2, 13>>, <<6, 14>>, <<14, 15>>, <<20, 54>>, <<20, 60>>},
    !.dones = {<<9, 14>>, <<16, 15>>}, !.full = {<<9, "kelly", 3>>},
    !.skips = {<<6, 14, 10>>, <<14, 15, 19>>}, !.known = {<<20, 60, 26>>, <<20, 54, 21>>},
    !.needs = {<<1, "seymour", 16>>, <<15, "clara", 5>>}, !.falls = {1, 13, 15}]
KellyRepeat == {<<0, 5, 0>>, <<6, 9, 6>>, <<10, 13, 10>>, <<14, 15, 14>>, <<17, 19, 17>>,
                <<21, 25, 21>>}
KellyGive == {<<0, 5, 13, 6>>, <<25, 25, 60, 26>>}
KellyShrines == {<<0, 26, 3, NoQuest, Stay, FALSE>>}

ClaraTalk == [Silent EXCEPT !.waits = {13, 16}, !.opens = {<<6, 21>>}, !.dones = {<<14, 21>>},
    !.needs = {<<1, "kelly", 15>>, <<5, "kelly", 18>>}, !.falls = {1, 5, 9, 11}]
ClaraRepeat == {<<0, 5, 0>>, <<6, 9, 6>>, <<10, 11, 10>>, <<12, 13, 12>>, <<15, 16, 15>>}
ClaraKills == {<<12, 13, NoQuest, 14>>}

Astro2Talk == [Silent EXCEPT !.waits = {4, 5}, !.opens = {<<0, 16>>}]
Astro2Repeat == {<<0, 4, 0>>}
Astro2Give == {<<0, 4, 16, 5>>}

\* Thomas and Sir Jones share crypt_state; Sir Jones takes over at 1.
CryptTalk == [Silent EXCEPT !.waits = {5, 7, 9, 14, 15}, !.opens = {<<1, 18>>, <<12, 19>>},
    !.skips = {<<12, 19, 14>>}, !.falls = {10}]
CryptRepeat == {<<0, 1, 0>>, <<1, 5, 1>>, <<12, 14, 12>>}
CryptAnswers == {<<1, 5, NoQuest, 6>>, <<1, 7, NoQuest, 8>>}
CryptKills == {<<8, 9, 18, 10>>, <<12, 14, 19, 15>>}

\* Carlos keeps two states: carlos2_state for the ritual, and carlos_state
\* for the staff once the ritual was ever rewarded.  What he resets when he
\* is asked to repeat depends on carlos_state alone.
RitualTalk == [Silent EXCEPT !.waits = {4, 5}, !.opens = {<<0, 61>>}, !.before = {61}]
RitualRepeat == {<<0, 5, 0>>}
RitualGive == {<<0, 4, 61, 5>>}
StaffTalk == [Silent EXCEPT !.waits = {5, 6}, !.opens = {<<0, 20>>}, !.after = {61}]
StaffRepeat == {<<5, 5, 0>>}
StaffGive == {<<0, 5, 20, 6>>}

RouvenTalk == [Silent EXCEPT !.waits = {5, 9, 13}, !.opens = {<<0, 62>>, <<6, 63>>},
    !.needs = {<<0, "ritual", 1>>}]
RouvenRepeat == {<<0, 5, 0>>, <<6, 9, 6>>, <<10, 13, 10>>}
RouvenGive == {<<6, 9, 63, 10>>}
vault_skull == {<<0, 5, 62, 6>>}

\* The commander: the book, four pieces of contraband, the leader.
SmugglecomTalk == [Silent EXCEPT !.waits = {4, 8, 10},
    !.opens = {<<0, 35>>, <<5, 36>>, <<7, 37>>}, !.dones = {<<6, 36>>, <<9, 37>>},
    !.skips = {<<5, 36, 7>>, <<7, 37, 10>>}, !.full = {<<6, "smugglecom", 4>>},
    !.jumps = {<<2, 4>>, <<3, 4>>}]
SmugglecomRepeat == {<<0, 4, 0>>, <<5, 6, 5>>, <<7, 8, 7>>}
SmugglecomGive == {<<0, 4, 35, 5>>}
Contraband == {<<0, 10, 4, NoQuest, Stay, FALSE>>}
smugglelead_died == {<<8, 8, NoQuest, 9>>}

Aston ==
    [seymour |-> Npc(SeymourTalk, SeymourRepeat, SeymourGive),
     kelly |-> [Npc(KellyTalk, KellyRepeat, KellyGive) EXCEPT !.parts = KellyShrines],
     clara |-> Npc(ClaraTalk, ClaraRepeat, ClaraKills),
     astro2 |-> Npc(Astro2Talk, Astro2Repeat, Astro2Give),
     crypt |-> Npc(CryptTalk, CryptRepeat, CryptAnswers \cup CryptKills),
     ritual |-> [Npc(RitualTalk, RitualRepeat, RitualGive) EXCEPT !.while = {<<r[1], "staff", 4>> : r \in RitualRepeat}],
     staff |-> Npc(StaffTalk, StaffRepeat, StaffGive),
     rouven |-> Npc(RouvenTalk, RouvenRepeat, RouvenGive \cup vault_skull),
     smugglecom |-> [Npc(SmugglecomTalk, SmugglecomRepeat,
                            SmugglecomGive \cup smugglelead_died)
                        EXCEPT !.parts = Contraband]]
=============================================================================
