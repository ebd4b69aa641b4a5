----------------------------- MODULE ClanMembers -----------------------------
(***************************************************************************)
(* Who belongs to which clan (clan.c, clanmaster.c).  A character carries  *)
(* the number of his clan's slot and a serial.  The slot may be disbanded  *)
(* and used again; get_char_clan drops the membership when the serial is   *)
(* not the slot's.  Area 3 keeps the table and stores it; the other areas  *)
(* read it now and then, and judge the members they meet by their copy.    *)
(* A server that starts has an empty table until it has read it; what area *)
(* 3 had not stored is lost when it starts again, or when it reads its     *)
(* table again because an update failed.                                   *)
(***************************************************************************)
EXTENDS Clans

CONSTANTS Chars,
          Ranks,                  \* of 0 .. 4: member to recruiter (2) to leader (4)
          MaxFounded, MaxSlot,    \* bounds: clans founded, the slots they take,
          MaxFaults               \* restarts and failed updates

ASSUME MembersAssumption == Ranks \subseteq 0 .. 4 /\ MaxFounded \in Nat /\ MaxSlot \in Slots /\ MaxFaults \in Nat

VARIABLES clan,    \* area 3's table: which clan a slot holds, and the serial
          row,     \* what is stored of it
          copy,    \* what another area has read
          area,    \* how far the two have got since their start
          missed,  \* an update of area 3 failed after it had been executed
          place,   \* where each character is: "area3", or "other": elsewhere or off
          ch,      \* what he carries: clan, serial, rank
          founder, \* those who have named a clan and may hand over the jewel
          dat,     \* the clan master's memory: the last invitation
          home,    \* history: the clan he founded, or was invited to and joined
          astray,  \* history: those who joined on an invitation out of date
          founded, \* the clans founded are 1 .. founded
          kept,    \* history: of them, those founded before the last update
          lost,    \* history: those founded in a table that was never stored
          faults

tableVars == <<clan, row, copy, area, missed, founded, kept, lost, faults>>
memVars == <<tableVars, place, ch, founder, dat, home, astray>>

Free == 0                        \* a slot without a clan; clans are 1, 2, ..
Nobody == [clan |-> 0, serial |-> 0, rank |-> 0]
NoInvitation == [guest |-> {}, clan |-> 0, name |-> Free]
Areas == {"area3", "other"}

Zeroed == [n \in Slots |-> [name |-> Free, serial |-> 0]]

MemInit ==
    /\ clan = Zeroed /\ row = Zeroed /\ copy = Zeroed
    /\ area \in [Areas -> {"READ"}] /\ missed = FALSE
    /\ place \in [Chars -> {"area3"}]
    /\ ch = [c \in Chars |-> Nobody]
    /\ founder = {} /\ dat = NoInvitation
    /\ home = [c \in Chars |-> Free] /\ astray = {}
    /\ founded = 0 /\ kept = 0 /\ lost = {} /\ faults = 0

Table(c) == IF place[c] = "area3" THEN clan ELSE copy

\* "NEW" until the first answer of the storage, "EMPTY" when that was a failure.
update_done(a) == area[a] # "NEW"

\* Membership as the area the character is in sees it.
get_char_clan(c) ==
    LET n == ch[c].clan IN
    IF n \in Slots /\ (update_done(place[c]) =>
            Table(c)[n].serial = ch[c].serial /\ Table(c)[n].name # Free)
    THEN n ELSE 0

Here(c) == place[c] = "area3"
Leads(c, rank) == Here(c) /\ get_char_clan(c) # 0 /\ ch[c].rank >= rank

\* What looking at them does to the characters of S who are not members any more.
Looked(S) == [c \in Chars |-> IF c \in S /\ get_char_clan(c) = 0 THEN Nobody ELSE ch[c]]

TableUnchanged == UNCHANGED tableVars
PeopleUnchanged == UNCHANGED <<place, ch, founder, dat, home, astray>>

-----------------------------------------------------------------------------
(* The clan master, in area 3 *)

add_member(c, n, rank) == [clan |-> n, serial |-> clan[n].serial, rank |-> rank]

\* "name:", from one who is not a member
NameClan(c) ==
    /\ Here(c) /\ get_char_clan(c) = 0
    /\ ch' = Looked({c})
    /\ founder' = founder \cup {c}
    /\ UNCHANGED <<place, dat, home, astray>> /\ TableUnchanged

\* The jewel, whatever has become of him since: found_clan takes the first
\* free slot with the serial it has.
found_clan(c) ==
    /\ Here(c) /\ c \in founder
    /\ founded < MaxFounded /\ founded' = founded + 1
    /\ \E n \in 1 .. MaxSlot :
         /\ clan[n].name = Free /\ \A m \in 1 .. n - 1 : clan[m].name # Free
         /\ clan' = [clan EXCEPT ![n].name = founded']
         /\ ch' = [ch EXCEPT ![c] = add_member(c, n, 4)]
    /\ founder' = founder \ {c}
    /\ home' = [home EXCEPT ![c] = founded'] /\ astray' = astray \ {c}
    /\ lost' = lost \cup (IF area["area3"] = "READ" THEN {} ELSE {founded'})
    /\ UNCHANGED <<row, copy, area, missed, kept, faults, place, dat>>

\* "accept: guest", from a recruiter or leader
Accept(c, guest) ==
    /\ Leads(c, 2)
    /\ dat' = [guest |-> {guest}, clan |-> get_char_clan(c), name |-> clan[get_char_clan(c)].name]
    /\ UNCHANGED <<place, ch, founder, home, astray>> /\ TableUnchanged

\* "join: host": the clan is the one of the invitation, as it is now, if any.  He keeps
\* the rank he carries, which is 0 once get_char_clan has dropped him.
Join(c) ==
    /\ Here(c) /\ get_char_clan(c) = 0 /\ dat.guest = {c}
    /\ ch' = [ch EXCEPT ![c] = add_member(c, dat.clan, Looked({c})[c].rank)]
    /\ home' = [home EXCEPT ![c] = dat.name]
    /\ astray' = IF dat.name # Free /\ clan[dat.clan].name = dat.name THEN astray \ {c} ELSE astray \cup {c}
    /\ dat' = NoInvitation
    /\ UNCHANGED <<place, founder>> /\ TableUnchanged

\* "leave!", or "fire:" from a leader of the same clan
Leave(c) ==
    /\ Here(c) /\ get_char_clan(c) # 0
    /\ ch' = [ch EXCEPT ![c] = Nobody]
    /\ home' = [home EXCEPT ![c] = Free] /\ astray' = astray \ {c}
    /\ UNCHANGED <<place, founder, dat>> /\ TableUnchanged

Fire(c, other) ==
    /\ c # other /\ Leads(c, 4) /\ get_char_clan(other) = get_char_clan(c)
    /\ Leave(other)

\* "rank:"
SetRank(c, other, rank) ==
    /\ Leads(c, 4) /\ Here(other) /\ get_char_clan(other) = get_char_clan(c)
    /\ ch' = [ch EXCEPT ![other].rank = rank]
    /\ UNCHANGED <<place, founder, dat, home, astray>> /\ TableUnchanged

-----------------------------------------------------------------------------
(* The table *)

\* The steps of tick_clan that pay and save, between two reads.
Running == area["area3"] = "READ" /\ ~missed

\* Mutant: the serial starts again with the slot.
DisbandBare(n) ==
    /\ Running
    /\ clan[n].name # Free
    /\ clan' = [clan EXCEPT ![n] = [name |-> Free, serial |-> 0]]
    /\ UNCHANGED <<row, copy, area, missed, founded, kept, lost, faults>> /\ PeopleUnchanged

\* A clan that is broke (update_treasure).
disband_clan(n) ==
    /\ Running
    /\ clan[n].name # Free
    /\ clan' = [clan EXCEPT ![n] = [name |-> Free, serial |-> @.serial + 1]]
    /\ UNCHANGED <<row, copy, area, missed, founded, kept, lost, faults>> /\ PeopleUnchanged

\* An update fails either before it was executed: then the row has the version
\* area 3 knows, the read that follows brings no data and the table is stored
\* later, as if nothing had been asked for.  Or after it: the repeated update
\* misses, and the read brings back what was stored.
StoreClans(failed) ==
    /\ Running
    /\ row' = clan /\ kept' = founded
    /\ failed => faults < MaxFaults
    /\ missed' = failed /\ faults' = faults + (IF failed THEN 1 ELSE 0)
    /\ UNCHANGED <<clan, copy, area, founded, lost>> /\ PeopleUnchanged

Unstored == kept + 1 .. founded

\* Area 3 reads its table when it starts and after an update that failed: what it
\* has not stored is overwritten.
ReadOwn ==
    /\ ~Running
    /\ clan' = row /\ lost' = lost \cup Unstored
    /\ area' = [area EXCEPT !["area3"] = "READ"] /\ missed' = FALSE
    /\ UNCHANGED <<row, copy, founded, kept, faults>> /\ PeopleUnchanged

ReadClans ==
    /\ copy' = row
    /\ area' = [area EXCEPT !["other"] = "READ"]
    /\ UNCHANGED <<clan, row, missed, founded, kept, lost, faults>> /\ PeopleUnchanged

\* The first read fails, and in area 3 the creation of the row that exists: the
\* area goes on with an empty table until the next read.
ReadFails(a) ==
    /\ area[a] = "NEW"
    /\ area' = [area EXCEPT ![a] = "EMPTY"]
    /\ UNCHANGED <<clan, row, copy, missed, founded, kept, lost, faults>> /\ PeopleUnchanged

\* A server is stopped, which stores its characters, and started again.
Restart(a) ==
    /\ faults < MaxFaults /\ faults' = faults + 1
    /\ area' = [area EXCEPT ![a] = "NEW"]
    /\ IF a = "area3"
       THEN /\ clan' = Zeroed /\ copy' = copy /\ missed' = FALSE /\ dat' = NoInvitation
            /\ lost' = lost \cup Unstored
            /\ place' = [c \in Chars |-> "other"]
       ELSE copy' = Zeroed /\ UNCHANGED <<clan, missed, dat, lost, place>>
    /\ UNCHANGED <<row, founded, kept, ch, home, founder, astray>>

-----------------------------------------------------------------------------
(* The characters come and go, and are looked at now and then.             *)

Look(c) ==
    /\ ch' = Looked({c})
    /\ UNCHANGED <<place, founder, dat, home, astray>> /\ TableUnchanged

Go(c, to) ==
    /\ place[c] # to
    /\ place' = [place EXCEPT ![c] = to]
    /\ UNCHANGED <<ch, founder, dat, home, astray>> /\ TableUnchanged

MemNext ==
    \/ \E failed \in BOOLEAN : StoreClans(failed)
    \/ ReadOwn \/ ReadClans
    \/ \E a \in Areas : ReadFails(a) \/ Restart(a)
    \/ \E n \in Slots : disband_clan(n)
    \/ \E c \in Chars :
         \/ NameClan(c) \/ found_clan(c) \/ Join(c) \/ Leave(c) \/ Look(c)
         \/ \E other \in Chars :
              Accept(c, other) \/ Fire(c, other) \/ \E rank \in Ranks : SetRank(c, other, rank)
         \/ \E to \in Areas : Go(c, to)

-----------------------------------------------------------------------------
(* Properties *)

\* Nobody counts as a member of a clan he did not found or join, however often the
\* slot was disbanded and used again, on whichever server that has read its table,
\* with whatever copy and however long he was away (clan.c:408).  It says nothing
\* of the members of a clan that was founded and lost with the table that held it:
\* the slot's serial may come again, and with it they enter another clan.
NoFalseMember == \A c \in Chars \ astray :
    home[c] \notin lost /\ area[place[c]] = "READ" /\ get_char_clan(c) # 0
        => Table(c)[get_char_clan(c)].name = home[c]

\* A membership he cannot lose by another area's being late: a member of a clan
\* that exists goes on being one until he leaves, is fired, or founds another.
MemberKept == \A c \in Chars :
    home[c] # Free /\ (\E n \in Slots : clan[n].name = home[c])
        => ch[c].clan # 0

MemSpec == MemInit /\ [][MemNext]_memVars
=============================================================================
