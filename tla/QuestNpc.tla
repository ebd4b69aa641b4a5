------------------------------ MODULE QuestNpc ------------------------------
(***************************************************************************)
(* The shape every quest giver's driver has.  A driver keeps one number    *)
(* per player, its state, and does three things with it: it talks when the *)
(* player comes near (NT_CHAR), it goes back when the player asks it to    *)
(* repeat (NT_TEXT), and it takes an item (NT_GIVE) or hears of a kill.    *)
(* The modules of the areas give these three as tables over states s,      *)
(* quests q and other quest givers n:                                      *)
(*                                                                         *)
(*   waits   the states in which it says nothing                           *)
(*   opens, dones, closes   <<s, q>>  quests it opens, rewards, closes     *)
(*   skips   <<s, q, to>>  jumps to "to" when q stands as done in the log  *)
(*   known   <<s, q, to>>  jumps when q was ever rewarded; the greatest    *)
(*           "to" is asked for first                                       *)
(*   meets   <<s, n, least, to>>  jumps when n has got to "least"          *)
(*   needs   <<s, n, least>>  says nothing before n has got to "least"     *)
(*   until   <<s, n, most>>  says nothing after n has got beyond "most"    *)
(*   before, after   the quests that, once rewarded, stop it or start it   *)
(*   full    <<s, n, parts>>  says nothing before n has that many parts    *)
(*   either  <<s, to>>  jumps for what the player carries, or his level    *)
(*   falls   the states whose case falls into the next one                 *)
(*   jumps   <<s, to>>  goes to "to" and not to s + 1                      *)
(*   turns   <<s, n, to>>  on leaving s it sets the state of n             *)
(*   late    <<lo, hi, to>>  goes back first when the player was away      *)
(*   least   the state it takes a player in that never met it              *)
(*                                                                         *)
(* Repeat tables hold <<lo, hi, to>>; "while" <<lo, n, most>> says the row *)
(* of lo is heeded only while n has not got beyond "most".  Give tables    *)
(* hold <<lo, hi, q, to>>: what it takes, or hears of, between lo and hi   *)
(* rewards q (NoQuest: none) and sets the state.  Parts tables hold        *)
(* <<lo, hi, parts, q, to, again>>: parts are counted, and the last one    *)
(* rewards q and sets the state (Stay: keeps it); "again" starts anew;     *)
(* "some" <<lo, hi, to>> sets the state for a part that is not the last.   *)
(***************************************************************************)
EXTENDS Integers, FiniteSets, TLC

NoQuest == -1
Stay == -1

Silent == [waits |-> {}, opens |-> {}, dones |-> {}, closes |-> {}, skips |-> {},
           known |-> {}, meets |-> {}, needs |-> {}, until |-> {}, before |-> {},
           after |-> {}, full |-> {}, either |-> {}, falls |-> {}, jumps |-> {},
           turns |-> {}, late |-> {}, least |-> 0]

Npc(talk, repeat, give) == [talk |-> talk, repeat |-> repeat, give |-> give, parts |-> {},
                             some |-> {}, while |-> {}]
=============================================================================
