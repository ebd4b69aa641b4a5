------------------------------ MODULE MCServices ------------------------------
(* Small instances of what goes on besides the players' deeds: a behaviour   *)
(* is about tasks (two servers, two tasks for one character), account        *)
(* requests (both connections to one server, or one to each), the output     *)
(* buffers, the timers, or walking, and the others rest.                     *)
EXTENDS Tasks, Accounts, Links, Timers, Walking

CONSTANTS s1, s2, t1, t2

VARIABLE part

Init ==
    /\ part \in {"tasks", "accounts", "servers", "player", "chat", "timers", "walking"}
    /\ TasksInit /\ AccountsInit /\ LinksInit /\ TimersInit /\ WalkingInit
    /\ part \notin {"accounts", "servers"} => \A u \in Users : subscriber[u] = 0
    /\ \A c \in chars : c.name = "hero"

ServersUsed == \A d \in Doors : (client[d].at)' \in {NoName, IF part = "accounts" THEN "a" ELSE <<"a", "b">>[d]}

Next ==
    /\ UNCHANGED part
    /\ \/ part = "tasks" /\ TasksNext /\ UNCHANGED <<accountVars, playerLink, chatLinks, timerVars, walkingVars>>
       \/ part \in {"accounts", "servers"} /\ AccountsNext /\ ServersUsed /\ UNCHANGED <<taskVars, playerLink, chatLinks, timerVars, walkingVars>>
       \/ part = "player" /\ PlayerLinkNext /\ UNCHANGED <<taskVars, accountVars, chatLinks, timerVars, walkingVars>>
       \/ part = "chat" /\ ChatLinksNext /\ UNCHANGED <<taskVars, accountVars, playerLink, timerVars, walkingVars>>
       \/ part = "timers" /\ TimersNext /\ UNCHANGED <<taskVars, accountVars, playerLink, chatLinks, walkingVars>>
       \/ part = "walking" /\ WalkingNext /\ UNCHANGED <<taskVars, accountVars, playerLink, chatLinks, timerVars>>

\* The parts rest in each other's behaviours: one strong fairness serves two.
Spec == Init /\ [][Next]_<<part, taskVars, accountVars, playerLink, chatLinks, timerVars, walkingVars>>
             /\ TasksWorked /\ AccountsWorked /\ WalkingFair
             /\ SF_<<taskVars, accountVars>>((Saving /\ UNCHANGED accountVars) \/ (Polling /\ UNCHANGED taskVars))
=============================================================================
