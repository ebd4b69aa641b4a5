------------------------------- MODULE MCClans -------------------------------
(* Small instances of what there is to a clan: a behaviour is about the      *)
(* relations, the members or the treasury, and the others rest.              *)
EXTENDS ClanRelations, ClanMembers, ClanTreasury

CONSTANTS a, b

VARIABLE part

Init ==
    /\ part \in {"relations", "members", "treasury"}
    /\ RelInit /\ MemInit /\ TreasuryInit
    /\ part # "treasury" => treasure.jewels = 0

Next ==
    /\ UNCHANGED part
    /\ \/ part = "relations" /\ RelNext /\ UNCHANGED <<memVars, treasuryVars>>
       \/ part = "members" /\ MemNext /\ UNCHANGED <<relVars, treasuryVars>>
       \/ part = "treasury" /\ TreasuryNext /\ UNCHANGED <<relVars, memVars>>

\* Where there is no clan, nothing is enabled that is fair.
Spec == Init /\ [][Next]_<<part, relVars, memVars, treasuryVars>> /\ RelFair
=============================================================================
