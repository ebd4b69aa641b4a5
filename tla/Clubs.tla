-------------------------------- MODULE Clubs --------------------------------
(***************************************************************************)
(* club.c and clubmaster.c: players found clubs, invite members, and keep  *)
(* money in them, from which a weekly fee is taken; a club that cannot pay *)
(* is gone and its place may be taken by another.  A member carries the    *)
(* number and the serial of the club, and what has become of it is only    *)
(* noticed when somebody looks (get_char_club).                            *)
(* Area 3 is the only server that changes clubs and has read them before   *)
(* it starts; the copies elsewhere, read every half a minute, only show    *)
(* names.                                                                  *)
(***************************************************************************)
EXTENDS Integers, FiniteSets, Functions

CONSTANTS Fellows, Places, Gold, MaxFounded,
          ClubFee     \* what founding costs, and every week

ASSUME ClubsAssumption ==
    /\ IsFiniteSet(Fellows) /\ {"nobody", "invitation"} \cap Fellows = {}
    /\ IsFiniteSet(Places) /\ Places \subseteq Nat \ {0}
    /\ Gold \in Nat /\ ClubFee \in Nat \ {0}

VARIABLES club, badge, present, purse, accept, guests, feesPaid, ruins
clubVars == <<club, badge, present, purse, accept, guests, feesPaid, ruins>>

NoBadge == [club |-> 0, serial |-> 0, rank |-> 0]
NoInvitation == [who |-> "nobody", club |-> 0]

\* guests is a history: who was let into which club, and by whom: its founder
\* is let in by himself.  ruins: the gold of clubs whose place was taken by another.
ClubsInit ==
    /\ club = [n \in Places |-> [named |-> FALSE, serial |-> 0, money |-> 0, due |-> FALSE]]
    /\ badge = [p \in Fellows |-> NoBadge]
    /\ present = Fellows
    /\ purse = [p \in Fellows |-> Gold]
    /\ accept = NoInvitation
    /\ guests = {}
    /\ feesPaid = 0
    /\ ruins = [n \in Places |-> 0]

\* A badge counts while the club it was given for is there.
Counts(b) == b.club # 0 /\ club[b.club].named /\ club[b.club].serial = b.serial
get_char_club(p) == IF Counts(badge[p]) THEN badge[p].club ELSE 0
Rank(p) == IF Counts(badge[p]) THEN badge[p].rank ELSE 0

\* Looking at somebody's badge takes it off if it does not count.
Looked(ps) == [p \in Fellows |-> IF p \in ps /\ ~Counts(badge[p]) THEN NoBadge ELSE badge[p]]

\* A mutant: the serial is only counted when a place is used first.
CreateSameSerial(p) ==
    /\ p \in present /\ get_char_club(p) = 0 /\ purse[p] >= ClubFee
    /\ \E n \in Places :
          /\ ~club[n].named /\ \A m \in Places : m < n => club[m].named
          /\ club' = [club EXCEPT ![n] = [named |-> TRUE, serial |-> 1, money |-> 0, due |-> FALSE]]
          /\ badge' = [badge EXCEPT ![p] = [club |-> n, serial |-> 1, rank |-> 2]]
          /\ guests' = {g \in guests : g.club # n}
                          \cup {[who |-> p, club |-> n, serial |-> 1, by |-> p]}
          /\ ruins' = [ruins EXCEPT ![n] = @ + club[n].money]
    /\ purse' = [purse EXCEPT ![p] = @ - ClubFee]
    /\ feesPaid' = feesPaid + ClubFee
    /\ UNCHANGED <<present, accept>>
create_club(p) ==
    /\ p \in present /\ get_char_club(p) = 0 /\ purse[p] >= ClubFee
    /\ \E n \in Places :
          /\ ~club[n].named /\ \A m \in Places : m < n => club[m].named
          /\ club[n].serial < MaxFounded
          /\ club' = [club EXCEPT ![n] = [named |-> TRUE, serial |-> club[n].serial + 1,
                                          money |-> 0, due |-> FALSE]]
          /\ badge' = [badge EXCEPT ![p] = [club |-> n, serial |-> club[n].serial + 1, rank |-> 2]]
          /\ guests' = guests \cup {[who |-> p, club |-> n, serial |-> club[n].serial + 1, by |-> p]}
          /\ ruins' = [ruins EXCEPT ![n] = @ + club[n].money]
    /\ purse' = [purse EXCEPT ![p] = @ - ClubFee]
    /\ feesPaid' = feesPaid + ClubFee
    /\ UNCHANGED <<present, accept>>

\* "accept:" a leader invites somebody; the club master remembers one name.
Accept(p, q) ==
    /\ p \in present /\ get_char_club(p) # 0 /\ Rank(p) >= 1
    /\ accept' = [who |-> q, club |-> get_char_club(p)]
    /\ guests' = {g \in guests : g.by # "invitation"}
                    \cup {[who |-> q, club |-> get_char_club(p), serial |-> badge[p].serial, by |-> "invitation"]}
    /\ UNCHANGED <<club, badge, present, purse, feesPaid, ruins>>

\* "join:" the guest joins whatever club is in the place by then.
Join(q) ==
    /\ q \in present /\ get_char_club(q) = 0
    /\ accept.who = q
    /\ badge' = [badge EXCEPT ![q] = [club |-> accept.club, serial |-> club[accept.club].serial, rank |-> 0]]
    /\ accept' = NoInvitation
    /\ UNCHANGED <<club, present, purse, guests, feesPaid, ruins>>

Leave(p) ==
    /\ p \in present /\ get_char_club(p) # 0
    /\ badge' = [badge EXCEPT ![p] = NoBadge]
    /\ UNCHANGED <<club, present, purse, accept, guests, feesPaid, ruins>>

\* "rank:" by the founder: somebody online, or a task for the database.
SetRank(p, q, rank) ==
    /\ p \in present /\ get_char_club(p) # 0 /\ Rank(p) = 2 /\ badge[q].rank # 2
    /\ IF q \in present THEN get_char_club(q) = get_char_club(p) ELSE badge[q].club = badge[p].club
    /\ badge' = [badge EXCEPT ![q].rank = rank]
    /\ UNCHANGED <<club, present, purse, accept, guests, feesPaid, ruins>>

\* "fire:" by a leader.
Fire(p, q) ==
    /\ p \in present /\ get_char_club(p) # 0 /\ Rank(p) >= 1
    /\ IF q \in present THEN get_char_club(q) = get_char_club(p) ELSE badge[q].club = badge[p].club
    /\ badge[q].rank < 2
    /\ badge' = [badge EXCEPT ![q] = NoBadge]
    /\ UNCHANGED <<club, present, purse, accept, guests, feesPaid, ruins>>

\* A mutant: the gold put into the club stays in the purse as well.
DepositKept(p, sum) ==
    /\ p \in present /\ get_char_club(p) # 0 /\ purse[p] >= sum
    /\ club' = [club EXCEPT ![get_char_club(p)].money = @ + sum]
    /\ UNCHANGED <<badge, present, purse, accept, guests, feesPaid, ruins>>
Deposit(p, sum) ==
    /\ p \in present /\ get_char_club(p) # 0 /\ purse[p] >= sum
    /\ club' = [club EXCEPT ![get_char_club(p)].money = @ + sum]
    /\ purse' = [purse EXCEPT ![p] = @ - sum]
    /\ UNCHANGED <<badge, present, accept, guests, feesPaid, ruins>>

Withdraw(p, sum) ==
    /\ p \in present /\ get_char_club(p) # 0 /\ Rank(p) = 2
    /\ club[get_char_club(p)].money >= sum
    /\ club' = [club EXCEPT ![get_char_club(p)].money = @ - sum]
    /\ purse' = [purse EXCEPT ![p] = @ + sum]
    /\ UNCHANGED <<badge, present, accept, guests, feesPaid, ruins>>

\* A week passes; tick_club collects one club's fee or deletes the club.
WeekPasses(n) ==
    /\ club[n].named /\ ~club[n].due
    /\ club' = [club EXCEPT ![n].due = TRUE]
    /\ UNCHANGED <<badge, present, purse, accept, guests, feesPaid, ruins>>
\* What is left of its money stays where it is, until the place is taken.
tick_club(n) ==
    /\ club[n].named /\ club[n].due
    /\ club' = [club EXCEPT ![n].named = club[n].money >= ClubFee, ![n].due = FALSE,
                            ![n].money = IF @ >= ClubFee THEN @ - ClubFee ELSE @]
    /\ feesPaid' = IF club[n].money >= ClubFee THEN feesPaid + ClubFee ELSE feesPaid
    /\ UNCHANGED <<badge, present, purse, accept, guests, ruins>>

\* Somebody looks at a badge, logs out, or comes back.
Look(p) ==
    /\ p \in present /\ badge[p] # NoBadge /\ ~Counts(badge[p])
    /\ badge' = Looked({p})
    /\ UNCHANGED <<club, present, purse, accept, guests, feesPaid, ruins>>
ComeAndGo(p) ==
    /\ present' = IF p \in present THEN present \ {p} ELSE present \cup {p}
    /\ UNCHANGED <<club, badge, purse, accept, guests, feesPaid, ruins>>

ClubsNext ==
    \/ \E n \in Places : WeekPasses(n) \/ tick_club(n)
    \/ \E p \in Fellows :
          \/ create_club(p) \/ Join(p) \/ Leave(p) \/ Look(p) \/ ComeAndGo(p)
          \/ \E sum \in 1 .. Gold * Cardinality(Fellows) : Deposit(p, sum) \/ Withdraw(p, sum)
          \/ \E q \in Fellows : Accept(p, q) \/ Fire(p, q) \/ \E rank \in 0..1 : SetRank(p, q, rank)

ClubsSpec == ClubsInit /\ [][ClubsNext]_clubVars

-----------------------------------------------------------------------------
\* p founded the club with this serial in place n.
Founded(p, n, serial) == [who |-> p, club |-> n, serial |-> serial, by |-> p] \in guests

\* The gold of a club is its founder's to take, and he has no partner: a badge of
\* rank two that counts is the one its bearer founded this very club with,
\* whatever became of the clubs that had the place before.
FounderOnly ==
    \A p \in Fellows : Rank(p) = 2 =>
        /\ Founded(p, badge[p].club, badge[p].serial)
        /\ \A q \in Fellows : Rank(q) = 2 /\ badge[q].club = badge[p].club => q = p

\* How many clubs were closed in a place, and the gold they left behind.
Closed(n) == IF club[n].named THEN club[n].serial - 1 ELSE club[n].serial
Behind(n) == ruins[n] + IF club[n].named THEN 0 ELSE club[n].money

\* Gold only changes hands: what the players have, the clubs have and had, and the
\* fees are what there was.  A closed club takes some with it, less than a fee, for
\* which nobody could keep it open.
ClubBooks ==
    /\ SumFunction(purse) + SumFunction([n \in Places |-> club[n].money + ruins[n]]) + feesPaid
          = Gold * Cardinality(Fellows)
    /\ \A n \in Places : Behind(n) <= (ClubFee - 1) * Closed(n)
=============================================================================
