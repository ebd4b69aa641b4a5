------------------------------ MODULE Residents ------------------------------
(***************************************************************************)
(* Talkers that keep a state per player and no entry of the quest log:     *)
(* those who show the way, the guardians of the labyrinths, and drivers    *)
(* that talk about the quests of others.  What two of them pay besides is  *)
(* counted as quests of their own (Countess, Daughter).                    *)
(***************************************************************************)
EXTENDS QuestNpc

CountessPrize == 101
DaughterPrize == 102

\* Brannington (staffer2.c).  The ladies pay once for the jewel their count
\* took to them; asked to repeat they start over, and find it paid.
ForestTalk == [Silent EXCEPT !.waits = {4}]
ForestRepeat == {<<0, 4, 0>>}
LadyTalk(prize) == [Silent EXCEPT !.waits = {3}, !.dones = {<<2, prize>>}, !.falls = {0, 1},
    !.known = {<<2, prize, 3>>}]
CountessTalk == LadyTalk(CountessPrize)
CountessRepeat == {<<0, 3, 0>>}
DaughterTalk == LadyTalk(DaughterPrize)
DaughterRepeat == {<<0, 3, 0>>}
GrinnichTalk == [Silent EXCEPT !.waits = {2, 4}]
GrinnichRepeat == {<<0, 2, 0>>, <<3, 4, 3>>}
ShanraTalk == [Silent EXCEPT !.waits = {2, 5}]
ShanraRepeat == {<<0, 2, 0>>, <<3, 5, 3>>}
ShanraBook == {<<0, 2, NoQuest, 3>>}

\* Arkhata: the captain and the judge look at each other's states.
CaptainTalk == [Silent EXCEPT !.waits = {0, 10}, !.needs = {<<4, "judge", 6>>}, !.falls = {4}]
CaptainRepeat == {<<1, 4, 1>>, <<5, 10, 5>>}
CaptainGive == {<<0, 0, NoQuest, 1>>}
JudgeTalk == [Silent EXCEPT !.waits = {6}, !.needs = {<<0, "captain", 1>>}, !.falls = {0}]
JudgeRepeat == {<<1, 6, 1>>, <<1, 6, 4>>}
JudgeGive == {<<0, 0, NoQuest, 1>>}

\* Aston (area3.c): the astronomer thinks aloud, to nobody and for ever.
Astro1Talk == [Silent EXCEPT !.jumps = {<<14, 0>>}]
SupermaxTalk == [Silent EXCEPT !.waits = {4}]
SupermaxRepeat == {<<1, 4, 0>>}

\* Caligar: two guards share a state and speak in turns; Arquin and the
\* smith speak while Glori is in the one state they ask for.
GuardsTalk == [Silent EXCEPT !.jumps = {<<5, 0>>}]
GuardsRepeat == {<<3, 3, 0>>}
ArquinTalk == [Silent EXCEPT !.waits = {6}, !.needs = {<<0, "glori", 12>>},
    !.until = {<<0, "glori", 12>>}, !.falls = {0}]
ArquinRepeat == {<<1, 3, 1>>, <<4, 6, 4>>}
SmithTalk == [Silent EXCEPT !.waits = {8}, !.needs = {<<0, "glori", 16>>, <<2, "monk", 21>>},
    !.until = {<<0, "glori", 16>>}, !.falls = {0, 2}]
SmithRepeat == {<<1, 2, 1>>, <<3, 8, 3>>}

\* The nomads that only play dice, and the smith of the dwarves.
GamblerTalk == [Silent EXCEPT !.waits = {2}]
nomad_2 == GamblerTalk
nomad_2_repeat == {<<0, 2, 0>>}
nomad_3 == GamblerTalk
nomad_3_repeat == {<<0, 2, 0>>}
nomad_6 == GamblerTalk
nomad_6_repeat == {<<0, 3, 0>>}
DwarfsmithTalk == [Silent EXCEPT !.waits = {1, 2}]
DwarfsmithGive == {<<0, 1, NoQuest, 2>>, <<2, 2, NoQuest, 1>>}

\* The gatekeeper shows the next labyrinth.  Without one left, state 2 runs
\* through 3 and 4 to 6, past what state 5 has to say.
WelcomeTalk == [Silent EXCEPT !.waits = {6}, !.falls = {3},
    !.either = {<<2, 6>>, <<3, 6>>, <<4, 2>>, <<4, 6>>}]
WelcomeRepeat == {<<0, 6, 0>>}
IslenaTalk == [Silent EXCEPT !.waits = {4, 10}]
IslenaHit == {<<0, 9, NoQuest, 10>>}

\* The labyrinths.
HeraldTalk == [Silent EXCEPT !.waits = {255},
    !.jumps = {<<s, 255>> : s \in {1, 11, 21, 30, 40, 50, 62}}]
HeraldAnswers == {<<0, 255, to>> : to \in {0, 10, 20, 30, 40, 50}}
HeraldGive == {<<0, 255, NoQuest, 60>>}
\* The deamon warns strangers, greets Elias, or waits for who looks like him.
DeamonTalk == [Silent EXCEPT !.waits = {255}, !.either = {<<0, 10>>, <<0, 20>>, <<0, 50>>},
    !.jumps = {<<s, 255>> : s \in {4, 17, 22, 53}}]
DeamonAttacks == {<<0, 53, NoQuest, 255>>}
PassguardTalk == [Silent EXCEPT !.waits = {20}, !.jumps = {<<6, 0>>}]
PassguardRepeat == {<<0, 20, 0>>}
PassguardAnswer == {<<0, 6, NoQuest, 20>>}
PrisonerTalk == [Silent EXCEPT !.waits = {255}, !.jumps = {<<3, 255>>, <<21, 255>>}]
PrisonerRepeat == {<<0, 255, 0>>}
PrisonerGive == {<<0, 255, NoQuest, 20>>}

\* The seyans count what they got in bits and set their state from those.
Seyan4Talk == [Silent EXCEPT !.waits = {5, 11, 21, 33}]
Seyan4Repeat == {<<0, 5, 0>>, <<10, 11, 10>>, <<20, 21, 20>>, <<30, 33, 30>>}
Seyan4Give == {<<0, 33, 2, NoQuest, 30, FALSE>>}
Seyan4Some == {<<0, 33, 10>>, <<0, 33, 20>>}
Seyan5Talk == [Silent EXCEPT !.waits = {5, 11, 23}]
Seyan5Repeat == {<<0, 5, 0>>, <<10, 11, 10>>, <<20, 23, 20>>}
Seyan5Give == {<<0, 23, 3, NoQuest, 20, FALSE>>}
Seyan5Some == {<<0, 23, 10>>}
MageTalk == [Silent EXCEPT !.waits = {4, 12, 22, 37}]
MageAnswers == {<<0, 37, to>> : to \in {0, 10, 20, 30}}

\* The monk of the salt mine: the workers' salt and the player taking it set
\* his state; he starts over when the player went away.
GatamaTalk == [Silent EXCEPT !.waits = {12, 23, 33, 41, 51}, !.jumps = {<<0, 10>>},
    !.either = {<<0, 50>>, <<30, 40>>}]
GatamaAnswers == {<<0, 51, to>> : to \in {0, 20, 30}}
GatamaSalt == {<<0, 51, NoQuest, 50>>, <<50, 51, NoQuest, 0>>}

Elsewhere ==
    [forest |-> Npc(ForestTalk, ForestRepeat, {}),
     countess |-> Npc(CountessTalk, CountessRepeat, {}),
     daughter |-> Npc(DaughterTalk, DaughterRepeat, {}),
     grinnich |-> Npc(GrinnichTalk, GrinnichRepeat, {}),
     shanra |-> Npc(ShanraTalk, ShanraRepeat, ShanraBook),
     captain |-> [Npc(CaptainTalk, CaptainRepeat, CaptainGive) EXCEPT !.while = {<<1, "judge", 0>>}],
     judge |-> Npc(JudgeTalk, JudgeRepeat, JudgeGive),
     astro1 |-> Npc(Astro1Talk, {}, {}),
     supermax |-> Npc(SupermaxTalk, SupermaxRepeat, {}),
     guards |-> Npc(GuardsTalk, GuardsRepeat, {}),
     arquin |-> Npc(ArquinTalk, ArquinRepeat, {}),
     smith |-> Npc(SmithTalk, SmithRepeat, {}),
     nomad2 |-> Npc(nomad_2, nomad_2_repeat, {}),
     nomad3 |-> Npc(nomad_3, nomad_3_repeat, {}),
     nomad6 |-> Npc(nomad_6, nomad_6_repeat, {}),
     dwarfsmith |-> Npc(DwarfsmithTalk, {}, DwarfsmithGive),
     welcome |-> Npc(WelcomeTalk, WelcomeRepeat, {}),
     islena |-> Npc(IslenaTalk, {}, IslenaHit),
     herald |-> Npc(HeraldTalk, HeraldAnswers, HeraldGive),
     deamon |-> Npc(DeamonTalk, {}, DeamonAttacks),
     passguard |-> Npc(PassguardTalk, PassguardRepeat, PassguardAnswer),
     prisoner |-> Npc(PrisonerTalk, PrisonerRepeat, PrisonerGive),
     seyan4 |-> [Npc(Seyan4Talk, Seyan4Repeat, {}) EXCEPT !.parts = Seyan4Give, !.some = Seyan4Some],
     seyan5 |-> [Npc(Seyan5Talk, Seyan5Repeat, {}) EXCEPT !.parts = Seyan5Give, !.some = Seyan5Some],
     mage |-> Npc(MageTalk, MageAnswers, {}),
     gatama |-> Npc(GatamaTalk, GatamaAnswers, GatamaSalt)]
=============================================================================
