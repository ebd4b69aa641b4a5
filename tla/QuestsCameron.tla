--------------------------- MODULE QuestsCameron ---------------------------
(***************************************************************************)
(* The quest givers of Cameron (gwendylon.c) and, at the end, of           *)
(* Brannington (staffer2.c, staffer3.c).                                   *)
(***************************************************************************)
EXTENDS QuestNpc

\* Gwendylon: four skulls, one after the other.
GwendylonTalk == [Silent EXCEPT !.waits = {5, 9, 12, 16, 18},
    !.opens = {<<0, 1>>, <<6, 2>>, <<10, 3>>, <<13, 4>>},
    !.skips = {<<6, 2, 10>>, <<10, 3, 13>>, <<13, 4, 17>>}]
GwendylonRepeat == {<<0, 5, 1>>, <<6, 9, 6>>, <<10, 12, 10>>, <<13, 16, 13>>, <<17, 18, 17>>}
GwendylonGive == {<<0, 5, 1, 6>>, <<6, 9, 2, 10>>, <<10, 12, 3, 13>>, <<13, 16, 4, 17>>}

\* Yoakin hides the big bear until Logain's knights are dealt with.
YoakinTalk == [Silent EXCEPT !.waits = {4, 5}, !.opens = {<<0, 5>>},
    !.needs = {<<2, "logain", 6>>}, !.late = {<<1, 3, 1>>}]
YoakinRepeat == {<<0, 4, 2>>}
YoakinGive == {<<0, 4, 5, 5>>}

\* James sends the player to Lydia, and both open her quest.
JamesTalk == [Silent EXCEPT !.waits = {5}, !.opens = {<<0, 0>>},
    !.meets = {<<0, "lydia", 6, 3>>}, !.needs = {<<3, "lydia", 6>>}]
JamesRepeat == {<<0, 3, 0>>}

LydiaTalk == [Silent EXCEPT !.waits = {4, 7}, !.opens = {<<0, 0>>}, !.late = {<<1, 3, 0>>}]
LydiaRepeat == {<<0, 4, 1>>, <<6, 7, 6>>}
LydiaGive == {<<0, 4, 0, 5>>}

NookTalk == [Silent EXCEPT !.waits = {11, 15, 16}, !.opens = {<<5, 6>>},
    !.needs = {<<5, "gwendylon", 13>>}, !.meets = {<<12, "gwendylon", 17, 16>>}]
NookRepeat == {<<0, 4, 0>>, <<5, 11, 5>>, <<12, 15, 12>>}
NookGive == {<<5, 11, 6, 12>>}

\* Terion and Reskin: gossip about Gwendylon's skulls, and the robbers below.
TerionTalk == [Silent EXCEPT !.waits = {14}, !.meets = {<<0, "gwendylon", 10, 4>>},
    !.needs = {<<0, "gwendylon", 6>>, <<4, "gwendylon", 10>>, <<6, "gwendylon", 13>>,
               <<9, "reskin", 9>>}, !.until = {<<4, "gwendylon", 12>>}]
TerionRepeat == {<<0, 4, 0>>, <<5, 6, 4>>, <<7, 9, 6>>, <<10, 14, 9>>}

ReskinTalk == [Silent EXCEPT !.waits = {9}, !.opens = {<<4, 17>>}, !.dones = {<<7, 17>>},
    !.needs = {<<0, "gwendylon", 6>>, <<0, "terion", 4>>, <<3, "logain", 9>>}]
ReskinRepeat == {<<0, 4, 0>>, <<5, 7, 4>>, <<8, 9, 8>>}

GuiwynnTalk == [Silent EXCEPT !.waits = {5, 8, 11}, !.opens = {<<0, 7>>, <<6, 8>>},
    !.skips = {<<6, 8, 11>>}, !.needs = {<<0, "gwendylon", 17>>},
    !.late = {<<1, 4, 1>>, <<6, 7, 6>>}]
GuiwynnRepeat == {<<0, 5, 0>>, <<6, 8, 6>>, <<9, 11, 9>>}
GuiwynnGive == {<<0, 5, 7, 6>>, <<6, 8, 8, 10>>}

LogainTalk == [Silent EXCEPT !.waits = {5, 9}, !.opens = {<<0, 9>>},
    !.needs = {<<0, "guiwynn", 11>>}, !.late = {<<1, 4, 1>>, <<6, 8, 6>>}]
LogainRepeat == {<<0, 5, 0>>, <<6, 9, 6>>}
LogainGive == {<<0, 5, 9, 6>>}

Cameron ==
    [gwendylon |-> Npc(GwendylonTalk, GwendylonRepeat, GwendylonGive),
     yoakin |-> Npc(YoakinTalk, YoakinRepeat, YoakinGive),
     james |-> Npc(JamesTalk, JamesRepeat, {}),
     lydia |-> Npc(LydiaTalk, LydiaRepeat, LydiaGive),
     nook |-> Npc(NookTalk, NookRepeat, NookGive),
     terion |-> Npc(TerionTalk, TerionRepeat, {}),
     reskin |-> Npc(ReskinTalk, ReskinRepeat, {}),
     guiwynn |-> Npc(GuiwynnTalk, GuiwynnRepeat, GuiwynnGive),
     logain |-> Npc(LogainTalk, LogainRepeat, LogainGive)]
-----------------------------------------------------------------------------
AristocratTalk == [Silent EXCEPT !.waits = {7, 8}, !.opens = {<<0, 38>>}]
AristocratRepeat == {<<0, 7, 0>>}
AristocratGive == {<<0, 7, 38, 8>>}

YoatinTalk == [Silent EXCEPT !.waits = {8, 9}, !.opens = {<<0, 39>>}]
YoatinRepeat == {<<0, 8, 0>>}
YoatinGive == {<<0, 8, 39, 9>>}

\* The count takes his family's three jewels in any order, before he ever
\* spoke of them too.
CountTalk == [Silent EXCEPT !.waits = {4}, !.opens = {<<0, 40>>}, !.skips = {<<0, 40, 1>>}]
CountRepeat == {<<0, 4, 0>>}
CountJewels == {<<0, 4, 3, 40, Stay, FALSE>>}

BrennethTalk == [Silent EXCEPT !.waits = {4, 8, 11, 15},
    !.opens = {<<0, 41>>, <<5, 42>>, <<9, 43>>}, !.skips = {<<5, 42, 9>>, <<9, 43, 12>>}]
BrennethRepeat == {<<0, 4, 0>>, <<5, 8, 5>>, <<9, 11, 9>>, <<12, 15, 12>>}
BrennethGive == {<<0, 4, 41, 5>>, <<5, 8, 42, 9>>, <<9, 11, 43, 12>>}

SpiritTalk == [Silent EXCEPT !.waits = {4, 5}, !.opens = {<<0, 44>>}]
SpiritRepeat == {<<0, 4, 0>>}
SpiritGive == {<<0, 4, 44, 5>>}

\* The guard sends those who helped the count on to Rammy in Arkhata.
GuardTalk == [Silent EXCEPT !.waits = {8}, !.opens = {<<5, 64>>}, !.dones = {<<6, 64>>},
    !.needs = {<<6, "rammy", 1>>}, !.full = {<<1, "count", 3>>}, !.falls = {1, 6}]
GuardRepeat == {<<0, 1, 0>>, <<2, 6, 2>>, <<7, 8, 7>>}

\* Broklin: the pickaxe, then the head robber (robberboss_dead).
BroklinTalk == [Silent EXCEPT !.waits = {4, 10, 15, 18}, !.opens = {<<0, 45>>, <<5, 46>>},
    !.skips = {<<5, 46, 11>>}]
BroklinRepeat == {<<0, 4, 0>>, <<5, 10, 5>>, <<11, 18, 16>>}
BroklinGive == {<<0, 4, 45, 5>>}
robberboss_dead == {<<5, 10, 46, 11>>}

Brannington ==
    [aristocrat |-> Npc(AristocratTalk, AristocratRepeat, AristocratGive),
     yoatin |-> Npc(YoatinTalk, YoatinRepeat, YoatinGive),
     count |-> [Npc(CountTalk, CountRepeat, {}) EXCEPT !.parts = CountJewels],
     brenneth |-> Npc(BrennethTalk, BrennethRepeat, BrennethGive),
     spirit |-> Npc(SpiritTalk, SpiritRepeat, SpiritGive),
     guard |-> Npc(GuardTalk, GuardRepeat, {}),
     broklin |-> Npc(BroklinTalk, BroklinRepeat, BroklinGive \cup robberboss_dead)]
=============================================================================
