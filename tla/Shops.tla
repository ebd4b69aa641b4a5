-------------------------------- MODULE Shops --------------------------------
(***************************************************************************)
(* What a player does with his belongings in town: he buys from and sells  *)
(* to a merchant (store.c), fills his depot (depot.c) and his account      *)
(* (bank.c).  An item is an entry of the item table as long as it is       *)
(* carried; ware and depot hold copies.                                    *)
(***************************************************************************)
EXTENDS Integers, FiniteSets, Functions

CONSTANTS Kinds,                 \* kinds of items
          Value,                 \* what each is worth
          OneCarry, NoDepot, NotSold, Coins,   \* kinds with these flags
          Stock,                 \* the merchant's kinds at the start: always there
          Kit,                   \* the player's inventory at the start
          Wares, Packs, Depots,  \* places of the store, the inventory, the depot
          PriceMulti,            \* of the store
          Barters,               \* values the player's barter skill can take
          StartGold,
          TableSize              \* entries of the item table

Empty == "empty"

ASSUME ShopsAssumption ==
    /\ Value \in [Kinds -> Nat] /\ Empty \notin Kinds
    /\ OneCarry \cup NoDepot \cup NotSold \cup Coins \subseteq Kinds
    /\ Stock \in [Wares -> Kinds \cup {Empty}] /\ Kit \in [Packs -> Kinds \cup {Empty}]
    /\ IsFiniteSet(Packs) /\ IsFiniteSet(Depots) /\ Barters \subseteq Nat
    /\ {PriceMulti, StartGold, TableSize} \subseteq Nat

VARIABLES gold, account,
          held,      \* citem
          pack,      \* the inventory
          depot,
          ware,      \* the merchant's: kind, number, whether it is always there
          free,      \* free entries of the item table
          leaked,    \* entries in use that nobody has
          barter

shopVars == <<gold, account, held, pack, depot, ware, free, leaked, barter>>

AtLeast(x, y) == IF x < y THEN y ELSE x
AtMost(x, y) == IF x < y THEN x ELSE y

salesprice(k) == AtLeast((Value[k] * 5) \div 4, (Value[k] * PriceMulti) \div (barter + 100))

buyprice(k) == IF k \in Coins THEN Value[k]
               ELSE AtMost((Value[k] * 4) \div 5, (Value[k] * (barter + 100)) \div 400)

\* The rest of a one-carry item is asked of the hand, too.
can_carry(k) == k \in OneCarry => held # k /\ \A n \in Packs : pack[n] # k

\* swap() in do.c: hand and a place of the inventory; money from the hand becomes gold.
\* h is in the hand, f entries are free, g is the gold then.
exchange(n, h, f, g) ==
    /\ held' = pack[n]
    /\ pack' = [pack EXCEPT ![n] = IF h \in Coins THEN Empty ELSE h]
    /\ gold' = g + (IF h \in Coins THEN Value[h] ELSE 0)
    /\ free' = f + (IF h \in Coins THEN 1 ELSE 0)

\* k comes into the hand; fast: store_citem swaps it with a free place.
Taken(k, fast, f, g) ==
    LET room == {n \in Packs : pack[n] = Empty}
    IN IF fast /\ k # Empty /\ room # {} THEN \E n \in room : exchange(n, k, f, g)
       ELSE held' = k /\ free' = f /\ gold' = g /\ UNCHANGED pack

ShopsInit ==
    /\ gold = StartGold /\ account = 0
    /\ held = Empty
    /\ pack = Kit
    /\ depot = [n \in Depots |-> Empty]
    /\ ware = [n \in Wares |-> [kind |-> Stock[n], cnt |-> IF Stock[n] = Empty THEN 0 ELSE 1,
                                always |-> Stock[n] # Empty]]
    /\ free = TableSize - Cardinality({n \in Packs : Kit[n] # Empty}) /\ leaked = 0
    /\ barter \in Barters
-----------------------------------------------------------------------------
\* The copy gets its entry before can_carry is asked, and keeps it.
sell(n, fast) ==
    LET k == ware[n].kind
    IN /\ held = Empty /\ ware[n].cnt > 0
       /\ gold >= salesprice(k)
       /\ free > 0
       /\ \/ /\ ~can_carry(k)
             /\ free' = free - 1 /\ leaked' = leaked + 1
             /\ UNCHANGED <<gold, held, pack, ware>>
          \/ /\ can_carry(k)
             /\ Taken(k, fast, free - 1, gold - salesprice(k))
             /\ ware' = IF ware[n].always THEN ware ELSE [ware EXCEPT ![n].cnt = @ - 1]
             /\ UNCHANGED leaked
       /\ UNCHANGED <<account, depot, barter>>

\* One more of its kind, or a free place, or the place of another one.
add_item_to_store(k) ==
    LET same == {n \in Wares : ware[n].cnt > 0 /\ ware[n].kind = k}
        none == {n \in Wares : ware[n].cnt = 0}
    IN \/ /\ same # {}
          /\ \E n \in same : ware' = [ware EXCEPT ![n].cnt = @ + 1]
       \/ /\ same = {}
          /\ \E n \in (IF none # {} THEN none ELSE {m \in Wares : ~ware[m].always}) :
                ware' = [ware EXCEPT ![n].kind = k, ![n].cnt = 1]

buy ==
    /\ held # Empty
    /\ IF held \in NotSold \cup Coins THEN UNCHANGED ware ELSE add_item_to_store(held)
    /\ gold' = gold + buyprice(held)
    /\ held' = Empty
    /\ free' = free + 1
    /\ UNCHANGED <<account, pack, depot, leaked, barter>>

\* Variant: an empty hand does not clear the place.
DepotKeeps(n, fast) ==
    /\ depot[n] # Empty \/ held \notin NoDepot \cup {Empty}
    /\ depot[n] # Empty => free > 0
    /\ depot' = [depot EXCEPT ![n] = IF held = Empty THEN @ ELSE held]
    /\ Taken(depot[n], fast /\ held = Empty,
             free - (IF depot[n] # Empty THEN 1 ELSE 0) + (IF held # Empty THEN 1 ELSE 0), gold)
    /\ UNCHANGED <<account, ware, leaked, barter>>

\* What is held and what is in the place are exchanged; the new copy needs an
\* entry before the old one's is free.
swap_depot(n, fast) ==
    /\ held # Empty \/ depot[n] # Empty
    /\ held \notin NoDepot
    /\ depot[n] # Empty => free > 0
    /\ depot' = [depot EXCEPT ![n] = held]
    /\ Taken(depot[n], fast /\ held = Empty,
             free - (IF depot[n] # Empty THEN 1 ELSE 0) + (IF held # Empty THEN 1 ELSE 0), gold)
    /\ UNCHANGED <<account, ware, leaked, barter>>

\* Hand and a place of the inventory.
Swapped(n) ==
    /\ held # pack[n]
    /\ exchange(n, held, free, gold)
    /\ UNCHANGED <<account, depot, ware, leaked, barter>>

Deposits(v) ==
    /\ v \in 1 .. gold
    /\ gold' = gold - v /\ account' = account + v
    /\ UNCHANGED <<held, pack, depot, ware, free, leaked, barter>>

Withdraws(v) ==
    /\ v \in 1 .. account
    /\ gold' = gold + v /\ account' = account - v
    /\ UNCHANGED <<held, pack, depot, ware, free, leaked, barter>>

\* consistency_check_items: entries nobody has are freed.
Sweeps ==
    /\ leaked > 0
    /\ free' = free + leaked /\ leaked' = 0
    /\ UNCHANGED <<gold, account, held, pack, depot, ware, barter>>

\* He learns, dresses, or his clan trades better: the price formulas take what
\* he has at the moment.
Dresses(b) ==
    /\ b \in Barters /\ b # barter
    /\ barter' = b
    /\ UNCHANGED <<gold, account, held, pack, depot, ware, free, leaked>>

ShopsNext ==
    \/ \E n \in Wares, fast \in BOOLEAN : sell(n, fast)
    \/ buy
    \/ \E n \in Depots, fast \in BOOLEAN : swap_depot(n, fast)
    \/ \E n \in Packs : Swapped(n)
    \/ \E v \in 1 .. gold + account : Deposits(v) \/ Withdraws(v)
    \/ Sweeps
    \/ \E b \in Barters : Dresses(b)

ShopsSpec == ShopsInit /\ [][ShopsNext]_shopVars
-----------------------------------------------------------------------------
\* The best price any merchant pays.
Resale(k) == IF k = Empty THEN 0 ELSE IF k \in Coins THEN Value[k] ELSE (Value[k] * 4) \div 5

\* What is kept in some places is worth as much.
Worth(places) == SumFunction([n \in DOMAIN places |-> Resale(places[n])])

Fortune == gold + account + Resale(held) + Worth(pack) + Worth(depot)

\* Nobody gets richer by buying, selling, storing and dressing for it, however
\* he goes about it: the clamps at 1.25 and 0.8 of the value, and what he has
\* is in one place.
NoProfit == [][Fortune' <= Fortune]_shopVars
=============================================================================
