------------------------------- MODULE Trades -------------------------------
(***************************************************************************)
(* The trader (trader_driver in base.c): a character who takes what two    *)
(* players give him and hands it over when both have accepted, or back     *)
(* when one stops the trade or three minutes are over.                     *)
(*                                                                         *)
(* What he keeps is linked nowhere; the flag IF_VOID hides it from the     *)
(* consistency check, which frees items that nobody has.                   *)
(***************************************************************************)
EXTENDS Integers, FiniteSets

CONSTANTS Folk, Seats,           \* players, places in the character table
          Goods,                 \* items
          Owns,                  \* what each has at first
          Room, MaxGifts,        \* places of an inventory, items of one side
          MaxLogins              \* bound: logins

NoOne == "no one"
NoGood == "nothing"

ASSUME TradesAssumption ==
    /\ NoOne \notin Folk /\ NoGood \notin Goods /\ IsFiniteSet(Goods)
    /\ Owns \in [Folk -> SUBSET Goods]
    /\ \A p, q \in Folk : p # q => Owns[p] \cap Owns[q] = {}
    /\ {Room, MaxGifts, MaxLogins} \subseteq Nat /\ 0 \notin Seats

VARIABLES seat,      \* who uses the place of the table
          bag,       \* inventory and hand of each player, in the game or saved
          locked,    \* players in the gatekeeper's room
          given,     \* what the trader has in his hand, and the seat that gave it
          trade,     \* struct trader_data
          void,      \* items with IF_VOID
          logins,
          accepted   \* what each side last accepted in this trade

tradesVars == <<seat, bag, locked, given, trade, void, logins, accepted>>

NoTrade == [state |-> 0, c1 |-> NoOne, c2 |-> NoOne, itm1 |-> {}, itm2 |-> {}, ok1 |-> FALSE, ok2 |-> FALSE]
NoGift == [item |-> NoGood, seat |-> 0]
NotYet == <<{"not yet"}, {"not yet"}>>

Playing == {seat[s] : s \in Seats} \ {NoOne}
Near(s) == seat[s] # NoOne /\ seat[s] \notin locked
HasRoom(b, p) == Cardinality(b[p]) < Room

\* give_char_item, or the item is destroyed: when he is not in the game or has
\* no room.
Handed(b, p, i) == IF HasRoom(b, p) THEN [b EXCEPT ![p] = @ \cup {i}] ELSE b

\* As many of a side's items as there is room for; none for one who is away or
\* in the gatekeeper's room.
CanReceive(p) == p \in Playing \ locked
Fitting(b, p, S) == {T \in SUBSET S : Cardinality(b[p]) + Cardinality(T) <= Room
                                      /\ \A i \in S \ T : Cardinality(b[p]) + Cardinality(T) = Room}

return_items(p1, p2) ==
    \E T1 \in (IF CanReceive(p1) THEN Fitting(bag, p1, trade.itm1) ELSE {{}}) :
       LET b == [bag EXCEPT ![p1] = @ \cup T1]
       IN \E T2 \in (IF CanReceive(p2) THEN Fitting(b, p2, trade.itm2) ELSE {{}}) :
             /\ bag' = [b EXCEPT ![p2] = @ \cup T2]
             /\ void' = void \ (trade.itm1 \cup trade.itm2)

\* state, items and both acceptances; the names stay.
Over == trade' = [trade EXCEPT !.state = 0, !.itm1 = {}, !.itm2 = {}, !.ok1 = FALSE, !.ok2 = FALSE]

TradesInit ==
    /\ seat = [s \in Seats |-> NoOne]
    /\ bag = Owns
    /\ locked = {}
    /\ given = NoGift
    /\ trade = NoTrade
    /\ void = {}
    /\ logins = 0
    /\ accepted = <<NotYet, NotYet>>
-----------------------------------------------------------------------------
LogsIn(s, p) ==
    /\ seat[s] = NoOne /\ p \notin Playing /\ logins < MaxLogins
    /\ seat' = [seat EXCEPT ![s] = p]
    /\ logins' = logins + 1
    /\ UNCHANGED <<bag, locked, given, trade, void, accepted>>

\* Out of the game, or dead: then what he had may be gone, too, but is nothing
\* of the trader's.
LogsOut(s) ==
    /\ seat[s] # NoOne
    /\ seat' = [seat EXCEPT ![s] = NoOne]
    /\ locked' = locked \ {seat[s]}
    /\ UNCHANGED <<bag, given, trade, void, logins, accepted>>

\* The gatekeeper's door: to his room, which is in the same area, and back.
Gatekeeper(p) ==
    /\ p \in Playing
    /\ locked' = IF p \in locked THEN locked \ {p} ELSE locked \cup {p}
    /\ UNCHANGED <<seat, bag, given, trade, void, logins, accepted>>

\* do_give, act_give: the trader must have an empty hand.
Gives(s, i) ==
    /\ Near(s) /\ i \in bag[seat[s]]
    /\ given = NoGift
    /\ given' = [item |-> i, seat |-> s]
    /\ bag' = [bag EXCEPT ![seat[s]] = @ \ {i}]
    /\ UNCHANGED <<seat, locked, trade, void, logins, accepted>>

\* Variant: gifts are taken after one side has accepted.
TraderGivenLate ==
    /\ given # NoGift
    /\ LET p == seat[given.seat]  i == given.item
           known == trade.state \in {1, 2} /\ p # NoOne
       IN \/ /\ known /\ p = trade.c1 /\ trade' = [trade EXCEPT !.itm1 = @ \cup {i}]
             /\ void' = void \cup {i} /\ UNCHANGED bag
          \/ /\ known /\ p = trade.c2 /\ trade' = [trade EXCEPT !.itm2 = @ \cup {i}]
             /\ void' = void \cup {i} /\ UNCHANGED bag
    /\ given' = NoGift
    /\ UNCHANGED <<seat, locked, logins, accepted>>

\* NT_GIVE: the message names a place of the table.
TraderGiven ==
    /\ given # NoGift
    /\ LET p == seat[given.seat]  i == given.item
           side1 == trade.state = 1 /\ p # NoOne /\ p = trade.c1
           side2 == trade.state = 1 /\ p # NoOne /\ p # trade.c1 /\ p = trade.c2
       IN \/ /\ side1 /\ Cardinality(trade.itm1) < MaxGifts
             /\ trade' = [trade EXCEPT !.itm1 = @ \cup {i}]
             /\ void' = void \cup {i}
             /\ UNCHANGED bag
          \/ /\ side2 /\ Cardinality(trade.itm2) < MaxGifts
             /\ trade' = [trade EXCEPT !.itm2 = @ \cup {i}]
             /\ void' = void \cup {i}
             /\ UNCHANGED bag
          \/ /\ \/ ~side1 /\ ~side2
                \/ side1 /\ Cardinality(trade.itm1) = MaxGifts
                \/ side2 /\ Cardinality(trade.itm2) = MaxGifts
             /\ bag' = IF p = NoOne THEN bag ELSE Handed(bag, p, i)
             /\ UNCHANGED <<trade, void>>
    /\ given' = NoGift
    /\ UNCHANGED <<seat, locked, logins, accepted>>

\* "trade with": the partner may be anywhere in the area, and be himself.
StartTrade(s, p) ==
    /\ Near(s) /\ p \in Playing
    /\ trade.state = 0
    /\ \A q \in {seat[s], p} : Room - Cardinality(bag[q]) >= MaxGifts
    /\ trade' = [trade EXCEPT !.state = 1, !.c1 = seat[s], !.c2 = p]
    /\ accepted' = <<NotYet, NotYet>>
    /\ UNCHANGED <<seat, bag, locked, given, void, logins>>

Party(p) == trade.state \in {1, 2} /\ p \in {trade.c1, trade.c2}

StopTrade(s) ==
    /\ Near(s) /\ Party(seat[s])
    /\ return_items(trade.c1, trade.c2)
    /\ Over
    /\ UNCHANGED <<seat, locked, given, logins, accepted>>

Offer == <<trade.itm1, trade.itm2>>

\* "accept trade": with the first one the trade is closed for gifts, with both
\* it is a deal.
AcceptTrade(s) ==
    /\ Near(s) /\ Party(seat[s])
    /\ LET ok1 == trade.ok1 \/ seat[s] = trade.c1
           ok2 == trade.ok2 \/ seat[s] = trade.c2
       IN \/ /\ ok1 /\ ok2
             /\ return_items(trade.c2, trade.c1)
             /\ Over
          \/ /\ ~(ok1 /\ ok2)
             /\ trade' = [trade EXCEPT !.state = 2, !.ok1 = ok1, !.ok2 = ok2]
             /\ UNCHANGED <<bag, void>>
    /\ accepted' = <<IF seat[s] = trade.c1 THEN Offer ELSE accepted[1],
                     IF seat[s] = trade.c2 THEN Offer ELSE accepted[2]>>
    /\ UNCHANGED <<seat, locked, given, logins>>

\* Three minutes are over.
TradeTimeout ==
    /\ trade.state > 0
    /\ return_items(trade.c1, trade.c2)
    /\ Over
    /\ UNCHANGED <<seat, locked, given, logins, accepted>>

TradesNext ==
    \/ \E s \in Seats :
          \/ \E p \in Folk : LogsIn(s, p) \/ StartTrade(s, p)
          \/ LogsOut(s) \/ StopTrade(s) \/ AcceptTrade(s)
          \/ \E i \in Goods : Gives(s, i)
    \/ \E p \in Folk : Gatekeeper(p)
    \/ TraderGiven \/ TradeTimeout

TradesSpec == TradesInit /\ [][TradesNext]_tradesVars
-----------------------------------------------------------------------------
Kept == trade.itm1 \cup trade.itm2

\* A good is in one place; the trader keeps nothing without a trade, and what he
\* keeps, and nothing else, is in the void: the consistency check would free it
\* there, or take it from the player who got it back.
HeldOnce ==
    /\ \A i \in Goods :
          Cardinality({p \in Folk : i \in bag[p]}) + Cardinality({i} \cap {given.item})
            + Cardinality({i} \cap trade.itm1) + Cardinality({i} \cap trade.itm2) <= 1
    /\ trade.state = 0 => Kept = {}
    /\ void = Kept

Partner(p) == IF p = trade.c1 THEN trade.c2 ELSE trade.c1
Gave(p) == IF p = trade.c1 THEN trade.itm1 ELSE trade.itm2

\* "With my help, no one will cheat thee": what one has given reaches the other
\* only when each has accepted what is handed over, and then what both gave is
\* handed over, or destroyed for want of somebody with room for it.
NobodyCheated ==
    [][\A p \in {trade.c1, trade.c2} \cap Folk :
          LET q == Partner(p)
          IN /\ Gave(p) \cap bag'[q] # {} /\ p # q =>
                   accepted' = <<Offer, Offer>> /\ Gave(q) \cap bag'[q] = {}
             /\ Gave(p) \ (Kept' \cup bag'[p] \cup bag'[q]) # {} =>
                   \E r \in {p, q} : ~CanReceive(r) \/ Cardinality(bag'[r]) = Room]_tradesVars

\* A trade is fair, and what it moves is not lost on the way.
TradesFair == []HeldOnce /\ NobodyCheated
=============================================================================
