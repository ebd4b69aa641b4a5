------------------------------ MODULE MCQuests ------------------------------
(***************************************************************************)
(* Quests for TLC: every quest giver, in the lines of those that look at   *)
(* each other's states or share a quest; the player of a behaviour deals   *)
(* with one line.                                                          *)
(***************************************************************************)
EXTENDS QuestProperties

MCLines ==
    {{"gwendylon", "nook"}, {"james", "lydia"}, {"logain", "yoakin", "guiwynn"},
     {"terion", "reskin", "gwendylon"}, {"seymour", "kelly"}, {"kelly", "clara", "glori"},
     {"astro2"}, {"crypt"}, {"ritual", "staff", "rouven"}, {"smugglecom"},
     {"aristocrat"}, {"yoatin"}, {"count", "guard", "rammy"}, {"brenneth"}, {"spirit"},
     {"broklin"}, {"thief"}, {"sanwyn"}, {"skelly"}, {"alchemist"},
     {"william", "imp", "hermit"}, {"nomad1"}, {"nomad4"}, {"nomad5"}, {"chief"},
     {"shaman"}, {"glori", "homden"}, {"rammy", "jaz"}, {"fiona", "ramin"},
     {"ramin", "monk", "krenach"}, {"ramin", "jada"}, {"potmaker", "hunter", "thaipan"},
     {"captain", "judge", "clerk"}, {"fiona", "trainer", "kid"}, {"glori", "arquin"},
     {"glori", "smith"}}
    \cup {{n} : n \in {"forest", "countess", "daughter", "grinnich", "shanra", "astro1",
              "supermax", "guards", "nomad2", "nomad3", "nomad6", "dwarfsmith", "welcome",
              "islena", "herald", "deamon", "passguard", "prisoner", "seyan4", "seyan5", "mage",
              "gatama"}}

\* Every driver of the tables is in some line.
ASSUME EveryGiver == UNION MCLines = DOMAIN Book
=============================================================================
