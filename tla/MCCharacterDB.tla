---------------------------- MODULE MCCharacterDB ----------------------------
(* Small instances of CharacterDB for TLC: area 1 and area 3, or two mirrors  *)
(* of one area.  All characters belong to ordinary accounts.                  *)
EXTENDS CharacterDBProperties, TLC

CONSTANTS c1, c2, k1, k2

TwoAreas == {<<1, 1>>, <<3, 1>>}
TwoMirrors == {<<1, 1>>, <<1, 2>>}

OneChar == {c1}
TwoChars == {c1, c2}
OneClient == {k1}
TwoClients == {k1, k2}

SameAccount == [c \in Chars |-> 2]
FirstMirror == [c \in Chars |-> 1]
SecondMirror == [c \in Chars |-> 2]

\* Two clients are interchangeable; so are two characters of one account.
Symmetry == Permutations(Clients)
SymmetryBoth == Permutations(Clients) \cup Permutations(Chars)

OneArea == {<<1, 1>>}

\* The sets of optional behaviours of the runs.
Everyday == {"refuse", "noRoom", "late"}
Refreshing == {"refresh"}
Stopping == {"shutdown", "refuse"}
Tight == {"noRoom"}
Derelict == {"bareKick"}
Unruly == {"npc", "bareKick", "allocFail", "noRoom"}
=============================================================================
