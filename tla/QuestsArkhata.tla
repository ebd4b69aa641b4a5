--------------------------- MODULE QuestsArkhata ---------------------------
(***************************************************************************)
(* The quest givers of Arkhata (arkhata.c).                                *)
(***************************************************************************)
EXTENDS QuestNpc

\* Rammy: a treaty with the guard of Brannington, his crown, and three
\* letters that the captain, the count and Ramin must have got.
RammyTalk == [Silent EXCEPT !.waits = {10, 19}, !.opens = {<<7, 65>>, <<13, 71>>},
    !.dones = {<<18, 71>>}, !.full = {<<17, "rammy", 3>>}, !.falls = {6, 13, 17},
    !.needs = {<<0, "guard", 2>>, <<6, "guard", 7>>, <<13, "monk", 20>>}]
RammyRepeat == {<<0, 6, 0>>, <<7, 10, 7>>, <<12, 13, 12>>, <<14, 17, 14>>}
RammyGive == {<<10, 10, 65, 11>>}
RammyLetters == {<<17, 19, 3, NoQuest, Stay, FALSE>>}

JazTalk == [Silent EXCEPT !.waits = {5, 7}, !.opens = {<<1, 66>>}, !.needs = {<<0, "rammy", 12>>},
    !.falls = {0}]
JazRepeat == {<<0, 5, 0>>, <<6, 7, 6>>}
JazGive == {<<5, 5, 66, 6>>}

\* Fiona: her ring, then ten fights against her students; those of a high
\* level need not fight.
FionaTalk == [Silent EXCEPT !.waits = {3, 18, 20} \cup (7 .. 16), !.opens = {<<1, 67>>},
    !.either = {<<5, 19>>, <<17, 19>>}, !.falls = {0}]
FionaRepeat == {<<0, 3, 0>>, <<5, 7, 5>>, <<17, 18, 17>>, <<19, 20, 19>>}
FionaGive == {<<3, 3, 67, 4>>}
FionaFights == {<<k, k, NoQuest, k + 1>> : k \in 7 .. 16}
fiona_raise == {<<18, 18, NoQuest, 19>>}

RaminTalk == [Silent EXCEPT !.waits = {6, 16}, !.opens = {<<1, 68>>}, !.falls = {0, 9, 11},
    !.needs = {<<0, "fiona", 4>>, <<9, "monk", 20>>, <<11, "rammy", 18>>}]
RaminRepeat == {<<0, 6, 0>>, <<7, 9, 7>>, <<10, 11, 10>>, <<12, 16, 12>>}
arkhataskelly_dead == {<<6, 6, 68, 7>>}

\* Four monks share one state; each says the lines that are his.
ArkhatamonkTalk == [Silent EXCEPT !.waits = {12, 19, 28, 30},
    !.opens = {<<8, 69>>, <<15, 70>>, <<21, 78>>}, !.needs = {<<0, "ramin", 7>>}]
ArkhatamonkRepeat == {<<8, 12, 8>>, <<15, 19, 15>>, <<21, 28, 21>>}
ArkhatamonkParts == {<<12, 12, 3, 69, 13, FALSE>>}
ArkhatamonkGive == {<<28, 28, NoQuest, 29>>}
bookeater_dead == {<<19, 19, 70, 20>>}
KrenachTalk == [Silent EXCEPT !.waits = {5}, !.dones = {<<1, 78>>}, !.needs = {<<0, "monk", 29>>},
    !.falls = {0}]

JadaTalk == [Silent EXCEPT !.waits = {4, 5}, !.opens = {<<1, 72>>}, !.needs = {<<0, "ramin", 12>>},
    !.falls = {0}]
JadaRepeat == {<<1, 4, 1>>}
JadaGive == {<<1, 4, 72, 5>>}

PotmakerTalk == [Silent EXCEPT !.waits = {3, 4}, !.opens = {<<1, 73>>}, !.falls = {0}]
PotmakerRepeat == {<<1, 3, 1>>}
PotmakerGive == {<<1, 3, 73, 4>>}

HunterTalk == [Silent EXCEPT !.waits = {9, 10}, !.opens = {<<5, 77>>}, !.falls = {0, 4},
    !.needs = {<<0, "potmaker", 1>>}]
HunterRepeat == {<<1, 4, 1>>}
HunterGive == {<<5, 9, 77, 10>>}

ThaipanTalk == [Silent EXCEPT !.waits = {8, 9}, !.opens = {<<1, 74>>}, !.falls = {0},
    !.needs = {<<0, "potmaker", 4>>}]
ThaipanRepeat == {<<1, 8, 1>>}
ThaipanGive == {<<1, 8, 74, 9>>}

\* The clerk lets the clock run from the player's answer on, once: when the
\* time is up the state is 6 for good.  The third note alone sets it there.
ClerkTalk == [Silent EXCEPT !.waits = {4, 6}, !.opens = {<<1, 76>>}, !.falls = {0},
    !.needs = {<<0, "captain", 5>>}]
ClerkRepeat == {<<1, 4, 1>>}
ClerkAnswer == {<<4, 4, NoQuest, 5>>}
ClerkNotes == {<<5, 5, 3, 76, to, FALSE>> : to \in {Stay, 6}}

\* The trainer's son comes free when the player has brought his potion.
TrainerTalk == [Silent EXCEPT !.waits = {8}, !.opens = {<<1, 75>>}, !.dones = {<<6, 75>>},
    !.needs = {<<0, "fiona", 4>>, <<6, "kid", 5>>}, !.falls = {0, 6}]
TrainerRepeat == {<<1, 6, 1>>, <<7, 8, 7>>}
KidnappeeTalk == [Silent EXCEPT !.waits = {5}, !.needs = {<<0, "trainer", 1>>}, !.falls = {0},
    !.jumps = {<<2, 4>>, <<3, 2>>}, !.either = {<<2, 3>>}]

Arkhata ==
    [rammy |-> [Npc(RammyTalk, RammyRepeat, RammyGive) EXCEPT !.parts = RammyLetters],
     jaz |-> Npc(JazTalk, JazRepeat, JazGive),
     fiona |-> Npc(FionaTalk, FionaRepeat, FionaGive \cup FionaFights \cup fiona_raise),
     ramin |-> Npc(RaminTalk, RaminRepeat, arkhataskelly_dead),
     monk |-> [Npc(ArkhatamonkTalk, ArkhatamonkRepeat, ArkhatamonkGive \cup bookeater_dead)
                  EXCEPT !.parts = ArkhatamonkParts],
     krenach |-> Npc(KrenachTalk, {}, {}),
     jada |-> Npc(JadaTalk, JadaRepeat, JadaGive),
     potmaker |-> Npc(PotmakerTalk, PotmakerRepeat, PotmakerGive),
     hunter |-> Npc(HunterTalk, HunterRepeat, HunterGive),
     thaipan |-> Npc(ThaipanTalk, ThaipanRepeat, ThaipanGive),
     clerk |-> [Npc(ClerkTalk, ClerkRepeat, ClerkAnswer) EXCEPT !.parts = ClerkNotes],
     trainer |-> Npc(TrainerTalk, TrainerRepeat, {}),
     kid |-> Npc(KidnappeeTalk, {}, {})]
=============================================================================
