--------------------------- MODULE QuestsFrontier ---------------------------
(***************************************************************************)
(* The quest givers of Exkordon (two.c), the forest (forest.c), the nomads *)
(* (nomad.c), the dwarves of Grimroot (warrmines.c) and Caligar            *)
(* (caligar.c).                                                            *)
(***************************************************************************)
EXTENDS QuestNpc

\* The guild master of the thieves: what he says next depends on which of
\* his keys the player carries, and whoever kills him is done with him.
ThiefTalk == [Silent EXCEPT !.waits = {9, 13, 17, 19, 21, 50}, !.least = 4,
    !.opens = {<<5, 25>>, <<11, 26>>, <<15, 27>>, <<18, 28>>},
    !.closes = {<<5, 26>>, <<5, 27>>, <<5, 28>>, <<11, 27>>, <<11, 28>>, <<15, 28>>},
    !.dones = {<<10, 25>>, <<14, 26>>},
    !.either = {<<5, 11>>, <<10, 5>>, <<11, 5>>, <<11, 15>>, <<15, 5>>, <<15, 11>>, <<15, 18>>,
                <<18, 5>>, <<18, 11>>, <<18, 15>>, <<18, 20>>,
                <<20, 5>>, <<20, 11>>, <<20, 15>>, <<20, 18>>}]
ThiefRepeat == {<<0, 9, 4>>, <<11, 13, 11>>, <<15, 17, 15>>, <<18, 19, 18>>, <<20, 21, 20>>}
ThiefGive == {<<17, 17, 27, 18>>, <<19, 19, 28, 20>>}
ThiefAnswer == {<<9, 9, NoQuest, 10>>}
ThiefBreakIn == {<<13, 14, NoQuest, 14>>}
thiefmaster_dead == {<<0, 50, NoQuest, 50>>}

SanwynTalk == [Silent EXCEPT !.waits = {6, 8}, !.opens = {<<0, 29>>}, !.dones = {<<7, 29>>}]
SanwynRepeat == {<<0, 6, 0>>, <<8, 8, 7>>}
SanwynNotes == {<<0, 6, 3, NoQuest, 7, FALSE>>}

SkellyTalk == [Silent EXCEPT !.waits = {2, 3}, !.opens = {<<0, 30>>}]
SkellyRepeat == {<<0, 2, 0>>}
SkellyGive == {<<0, 2, 30, 3>>}

AlchemistTalk == [Silent EXCEPT !.waits = {4, 5}, !.opens = {<<0, 31>>}]
AlchemistRepeat == {<<0, 4, 0>>}
AlchemistGive == {<<0, 4, 31, 5>>}

\* William and the imp pass the player to and fro.
WilliamTalk == [Silent EXCEPT !.waits = {2, 6, 7}, !.opens = {<<0, 22>>, <<3, 23>>},
    !.skips = {<<0, 22, 3>>, <<3, 23, 7>>}, !.turns = {<<6, "imp", 6>>}]
WilliamRepeat == {<<0, 2, 0>>, <<3, 6, 3>>}
WilliamGive == {<<6, 6, 23, 7>>}

ImpTalk == [Silent EXCEPT !.waits = {2, 11}, !.dones = {<<3, 22>>}, !.jumps = {<<5, 5>>},
    !.skips = {<<5, 23, 11>>}, !.turns = {<<4, "william", 3>>},
    !.needs = {<<7, "hermit", 4>>, <<9, "hermit", 5>>}, !.falls = {7, 9}]
ImpBears == {<<2, 2, 21, NoQuest, 3, TRUE>>}

HermitTalk == [Silent EXCEPT !.waits = {4, 7}, !.opens = {<<0, 24>>}, !.dones = {<<5, 24>>}]
HermitRepeat == {<<0, 4, 0>>}
HermitKills == {<<4, 4, NoQuest, 5>>}

nomad_1 == [Silent EXCEPT !.waits = {8, 10}, !.opens = {<<0, 32>>}]
nomad_1_repeat == {<<0, 8, 0>>, <<9, 10, 9>>}
nomad_1_give == {<<0, 8, 32, 9>>}
nomad_4 == [Silent EXCEPT !.waits = {3, 5}, !.opens = {<<0, 33>>}]
nomad_4_repeat == {<<0, 3, 0>>, <<4, 5, 4>>}
nomad_4_give == {<<0, 3, 33, 4>>}
nomad_5 == [Silent EXCEPT !.waits = {3, 5}, !.opens = {<<0, 34>>}]
nomad_5_repeat == {<<0, 3, 0>>, <<4, 5, 4>>}
nomad_5_give == {<<0, 3, 34, 4>>}

\* The dwarven chief: four miners, each saved by a recall scroll of his own.
ChiefTalk == [Silent EXCEPT !.waits = {3, 6, 9, 12, 15},
    !.opens = {<<0, 47>>, <<5, 48>>, <<8, 49>>, <<11, 50>>},
    !.dones = {<<4, 47>>, <<7, 48>>, <<10, 49>>, <<13, 50>>},
    !.skips = {<<5, 48, 8>>, <<8, 49, 11>>, <<11, 50, 14>>}, !.falls = {4, 7, 10, 13}]
ChiefRepeat == {<<0, 3, 0>>, <<5, 6, 5>>, <<8, 9, 8>>, <<11, 12, 11>>, <<14, 15, 14>>}
\* Mutant: a miner is not counted once the chief waits for it.
MinerSavedEarly == {<<0, 3, NoQuest, 4>>, <<5, 5, NoQuest, 7>>, <<8, 9, NoQuest, 10>>,
                    <<11, 12, NoQuest, 13>>}

MinerSaved == {<<0, 3, NoQuest, 4>>, <<5, 6, NoQuest, 7>>, <<8, 9, NoQuest, 10>>,
               <<11, 12, NoQuest, 13>>}

ShamanTalk == [Silent EXCEPT !.waits = {2, 5, 8, 11}, !.opens = {<<0, 51>>, <<3, 52>>, <<6, 53>>},
    !.skips = {<<3, 52, 6>>, <<6, 53, 10>>}]
ShamanRepeat == {<<0, 2, 0>>, <<3, 5, 3>>, <<6, 8, 6>>, <<9, 11, 9>>}
ShamanGive == {<<6, 8, 53, 9>>}
ShamanParts == {<<0, 2, 9, 51, 3, TRUE>>, <<3, 5, 9, 52, 6, TRUE>>}

\* Glori rewards Kelly's letter and hands the player from task to task.
GloriTalk == [Silent EXCEPT !.waits = {18},
    !.opens = {<<0, 55>>, <<7, 56>>, <<10, 57>>, <<12, 58>>},
    !.dones = {<<0, 54>>, <<7, 55>>, <<10, 56>>, <<12, 57>>, <<16, 58>>}]
GloriRepeat == {<<1, 5, 1>>, <<8, 10, 8>>, <<11, 12, 11>>, <<14, 16, 14>>, <<17, 18, 17>>}

HomdenTalk == [Silent EXCEPT !.waits = {4, 11}, !.opens = {<<1, 59>>}, !.falls = {0}]
HomdenRepeat == {<<2, 4, 2>>, <<6, 11, 6>>}
HomdenGive == {<<4, 4, 59, 5>>}

Frontier ==
    [thief |-> Npc(ThiefTalk, ThiefRepeat,
                   ThiefGive \cup ThiefAnswer \cup ThiefBreakIn \cup thiefmaster_dead),
     sanwyn |-> [Npc(SanwynTalk, SanwynRepeat, {}) EXCEPT !.parts = SanwynNotes],
     skelly |-> Npc(SkellyTalk, SkellyRepeat, SkellyGive),
     alchemist |-> Npc(AlchemistTalk, AlchemistRepeat, AlchemistGive),
     william |-> Npc(WilliamTalk, WilliamRepeat, WilliamGive),
     imp |-> [Npc(ImpTalk, {}, {}) EXCEPT !.parts = ImpBears],
     hermit |-> Npc(HermitTalk, HermitRepeat, HermitKills),
     nomad1 |-> Npc(nomad_1, nomad_1_repeat, nomad_1_give),
     nomad4 |-> Npc(nomad_4, nomad_4_repeat, nomad_4_give),
     nomad5 |-> Npc(nomad_5, nomad_5_repeat, nomad_5_give),
     chief |-> Npc(ChiefTalk, ChiefRepeat, MinerSaved),
     shaman |-> [Npc(ShamanTalk, ShamanRepeat, ShamanGive) EXCEPT !.parts = ShamanParts],
     glori |-> Npc(GloriTalk, GloriRepeat, {}),
     homden |-> Npc(HomdenTalk, HomdenRepeat, HomdenGive)]
=============================================================================
