------------------------------- MODULE MCWorld -------------------------------
(* Small instances of the life in the world: a behaviour is about items on   *)
(* characters, map and graves, about a trade, about shopping, about Ruby     *)
(* (with one area's story or two), Mr. Jones's missions, the clubs, the      *)
(* gatekeeper, the warped world, the law of Exkordon, or what a client shows *)
(* of the map, of effects and of its own character; the others rest.         *)
EXTENDS Belongings, Trades, Shops, Ruby, Missions, Clubs, Trials, CityLaw, ClientMirror

VARIABLE part

\* One comes with a quest item, the monster with one and a coin.
KitDef ==
    [n \in Names |->
        CASE n = "hero" -> [hand |-> "relic", pack |-> "none", gold |-> 0]
          [] n = "thief" -> NoKit
          [] OTHER -> [hand |-> "none", pack |-> "relic", gold |-> 1]]

OwnsDef == [p \in Folk |-> CASE p = "p" -> {"x"} [] p = "q" -> {"z"} [] OTHER -> {}]

ValueDef == [k \in {"rod", "jewel", "coin"} |-> CASE k = "rod" -> 5 [] k = "jewel" -> 3 [] OTHER -> 2]
StockDef == [n \in Wares |-> CASE n = 1 -> "rod" [] n = 2 -> "jewel" [] OTHER -> Empty]
PurseDef == [n \in Packs |-> IF n = 1 THEN "coin" ELSE Empty]

\* The areas whose stories a visitor hears: each alone, and two together.
Tours == {{a} : a \in StoryAreas} \cup {{2, 17}}

Init ==
    /\ part \in {"belongings", "trade", "shops", "ruby", "missions", "clubs", "gate", "warp", "city", "view", "effects", "stats"}
    /\ tour \in Tours /\ (part # "ruby" => tour = {2})
    /\ BelongInit /\ TradesInit /\ ShopsInit
    /\ RubyInit /\ MissionsInit /\ ClubsInit /\ TrialsInit /\ CityInit
    /\ part # "shops" => barter = 0
    /\ ViewInit /\ EffectInit /\ StatsInit
    /\ part # "view" => happening = "hurt" /\ doorShut
    /\ part # "gate" => \A p \in Fighters : kind[p] = "warrior"

mirrorVars == <<viewVars, effectVars, statsVars>>
goodsVars == <<belongVars, tradesVars, shopVars>>
peopleVars == <<rubyVars, missionVars, clubVars, trialVars, cityVars>>
officeVars == <<peopleVars, mirrorVars>>

Next ==
    /\ UNCHANGED part
    /\ \/ part = "belongings" /\ BelongNext /\ UNCHANGED <<tradesVars, shopVars, officeVars>>
       \/ part = "trade" /\ TradesNext /\ UNCHANGED <<belongVars, shopVars, officeVars>>
       \/ part = "shops" /\ ShopsNext /\ UNCHANGED <<belongVars, tradesVars, officeVars>>
       \/ part = "ruby" /\ RubyNext /\ UNCHANGED <<goodsVars, mirrorVars, missionVars, clubVars, trialVars, cityVars>>
       \/ part = "missions" /\ MissionsNext /\ UNCHANGED <<goodsVars, mirrorVars, rubyVars, clubVars, trialVars, cityVars>>
       \/ part = "clubs" /\ ClubsNext /\ UNCHANGED <<goodsVars, mirrorVars, rubyVars, missionVars, trialVars, cityVars>>
       \/ part = "gate" /\ GateNext /\ UNCHANGED <<goodsVars, mirrorVars, rubyVars, missionVars, clubVars, cityVars>>
       \/ part = "warp" /\ WarpNext /\ UNCHANGED <<goodsVars, mirrorVars, rubyVars, missionVars, clubVars, cityVars>>
       \/ part = "city" /\ CityNext /\ UNCHANGED <<goodsVars, mirrorVars, rubyVars, missionVars, clubVars, trialVars>>
       \/ part = "view" /\ ViewNext /\ UNCHANGED <<goodsVars, peopleVars, effectVars, statsVars>>
       \/ part = "effects" /\ EffectNext /\ UNCHANGED <<goodsVars, peopleVars, viewVars, statsVars>>
       \/ part = "stats" /\ StatsNext /\ UNCHANGED <<goodsVars, peopleVars, viewVars, effectVars>>

Spec == Init /\ [][Next]_<<part, goodsVars, officeVars>>
=============================================================================
