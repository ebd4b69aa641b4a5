----------------------------- MODULE ClanTreasury -----------------------------
(***************************************************************************)
(* The treasuries of two clans (update_treasure, clan.c).  A clan pays for *)
(* its hall and its bonuses, in thousandths of a jewel; the debt is paid   *)
(* in whole jewels; a clan that is two jewels behind is broke and deleted. *)
(* Others may raid it, on servers that are not area 3: what they stole     *)
(* arrives as a chat message between two updates.                          *)
(***************************************************************************)
EXTENDS Integers

CONSTANTS MaxJewels,             \* bounds: jewels a clan has at first,
          MaxBonus, MaxMonths,   \* levels of all its bonuses (14 of up to 20), time that passes,
          MaxRaids               \* raids between two updates

ASSUME TreasuryAssumption ==
    MaxJewels \in Nat /\ MaxBonus \in 0 .. 280 /\ MaxMonths \in Nat /\ MaxRaids \in Nat

VARIABLES treasure,  \* of the clan: jewels, debt, unpaid (realtime - payed_till)
          bonus,     \* the levels of its bonuses, added up
          alive,     \* it has not been disbanded
          raids,     \* raids since the last update
          months

treasuryVars == <<treasure, bonus, alive, raids, months>>

CLANHALLRENT == 5
Week == 60 * 60 * 24 * 7
Smaller(a, b) == IF a < b THEN a ELSE b

TreasuryInit ==
    /\ treasure \in [jewels : 0 .. MaxJewels, debt : {0}, unpaid : {0}]
    /\ bonus = 0 /\ alive = TRUE /\ raids = 0 /\ months = 0

\* Four jewels must be there for every level: the best bonus is reduced until
\* they are.
reduce_clan_bonus(levels, jewels) == Smaller(levels, jewels \div 4)

cost(levels) == (levels + CLANHALLRENT) * 1000

\* The seconds that cost one thousandth of a jewel; the rent is charged five
\* minutes late, and then for the step that has begun.
Charged(t, levels) ==
    LET step == Week \div cost(levels)
        n == t.unpaid \div step + 1
    IN  IF t.unpaid > 60 * 5
        THEN [t EXCEPT !.debt = @ + n, !.unpaid = @ - step * n] ELSE t

Paid(t) ==
    LET n == Smaller(t.debt \div 1000, t.jewels)
    IN  [t EXCEPT !.jewels = @ - n, !.debt = @ - n * 1000]

Broke(t) == t.debt >= 2000

\* Mutant: a broke clan is looked for before it pays.
UpdateBrokeFirst ==
    /\ alive
    /\ LET levels == reduce_clan_bonus(bonus, treasure.jewels)
           t == Charged(treasure, levels)
       IN  /\ bonus' = levels /\ treasure' = Paid(t) /\ alive' = ~Broke(t)
    /\ raids' = 0 /\ UNCHANGED months

update_treasure ==
    /\ alive
    /\ LET levels == reduce_clan_bonus(bonus, treasure.jewels)
           t == Paid(Charged(treasure, levels))
       IN  /\ bonus' = levels /\ treasure' = t /\ alive' = ~Broke(t)
    /\ raids' = 0 /\ UNCHANGED months

\* "set bonus", from a leader: there need not be jewels for it.
set_clan_bonus(levels) ==
    /\ alive /\ bonus' = levels
    /\ UNCHANGED <<treasure, alive, raids, months>>

\* Case 'J' of clan_dungeon_chat, by a clan that may raid: what is stolen is
\* owed, one jewel more is lost.
Raided ==
    LET cnt == Smaller(treasure.jewels - 11, 3) IN
    /\ alive /\ raids < MaxRaids /\ cnt > 0
    /\ treasure' = [treasure EXCEPT !.debt = @ + cnt * 1000 + 1000]
    /\ raids' = raids + 1
    /\ UNCHANGED <<bonus, alive, months>>

\* Case 'X', a jewel won in a pentagram quest, or case 'J' for the raider.
Won ==
    /\ alive /\ treasure.jewels < MaxJewels
    /\ treasure' = [treasure EXCEPT !.jewels = @ + 1]
    /\ UNCHANGED <<bonus, alive, raids, months>>

\* Time passes, and more of it when area 3 is down.
Passes(time) ==
    /\ alive /\ months < MaxMonths /\ months' = months + 1
    /\ treasure' = [treasure EXCEPT !.unpaid = @ + time]
    /\ UNCHANGED <<bonus, alive, raids>>

TreasuryNext ==
    \/ update_treasure \/ Raided \/ Won
    \/ \E levels \in 0 .. MaxBonus : set_clan_bonus(levels)
    \/ \E time \in {301, Week \div 7, 4 * Week} : Passes(time)

-----------------------------------------------------------------------------
(* Properties *)

\* What a clan owes when an update begins, in thousandths, at most: the debt and
\* the rent of the time not paid, one step more, at the bonuses there are jewels for.
Owes == LET c == cost(reduce_clan_bonus(bonus, treasure.jewels))
            step == Week \div c
        IN  treasure.debt + (IF treasure.unpaid > 300 THEN treasure.unpaid \div step + 1 ELSE 0)

\* A clan whose jewels pay all but two of what it owes is not deleted, whatever
\* bonuses it set, however long area 3 was down, and it keeps what is left
\* (clan.c:1027).
SolventSurvives == [][
    alive /\ ~alive' => 1000 * treasure.jewels + 2000 <= Owes]_treasuryVars

TreasurySpec == TreasuryInit /\ [][TreasuryNext]_treasuryVars
=============================================================================
