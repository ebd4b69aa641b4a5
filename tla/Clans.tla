-------------------------------- MODULE Clans --------------------------------
(***************************************************************************)
(* What the modules about clans (clan.c, clanmaster.c) share: the slots of *)
(* the clan table.                                                         *)
(***************************************************************************)
EXTENDS Integers, FiniteSets

CONSTANT MAXCLAN                 \* slots are 1 .. MAXCLAN - 1

ASSUME ClansAssumption == MAXCLAN \in Nat /\ MAXCLAN > 1

Slots == 1 .. MAXCLAN - 1
Others(n) == Slots \ {n}
=============================================================================
