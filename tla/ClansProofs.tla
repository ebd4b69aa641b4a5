----------------------------- MODULE ClansProofs -----------------------------
(* Clans for any number of slots and characters: who counts as a member of   *)
(* which clan, what two clans are to each other, and which clan is deleted.  *)
EXTENDS ClanMembers, ClanRelations, ClanTreasury, TLAPS

-----------------------------------------------------------------------------
(* Members                                                                   *)

ClanTables == [Slots -> [name : Nat, serial : Nat]]

MemTypes ==
    /\ clan \in ClanTables /\ row \in ClanTables /\ copy \in ClanTables
    /\ DOMAIN ch = Chars /\ place \in [Chars -> Areas]
    /\ area \in [Areas -> {"NEW", "EMPTY", "READ"}] /\ missed \in BOOLEAN
    /\ \A c \in Chars : ch[c].clan \in Slots \cup {0} /\ ch[c].serial \in Nat
    /\ founded \in Nat /\ kept \in 0 .. founded
    /\ home \in [Chars -> 0 .. founded]
    /\ \A n \in Slots : clan[n].name <= founded /\ row[n].name <= founded

\* What table knows of a slot is of the clan that later knows, or of an earlier
\* serial: where the serial is the same, only the founding can be missing.
Older(table, later) == \A n \in Slots :
    /\ table[n].serial <= later[n].serial
    /\ table[n].serial = later[n].serial /\ table[n].name # Free => table[n].name = later[n].name

\* A table that knows the serial a member carries shows his clan.
TrueIn(table, c) ==
    LET n == ch[c].clan IN table[n].serial = ch[c].serial /\ table[n].name # Free => table[n].name = home[c]

\* Nor will it ever show another: the serial of a slot that is free is carried by
\* nobody, and the next clan there gets that one.
Settled(table, c) ==
    /\ ch[c].serial <= table[ch[c].clan].serial
    /\ table[ch[c].clan].name = Free => ch[c].serial < table[ch[c].clan].serial
    /\ TrueIn(table, c)

Own == area["area3"] = "READ"

TrueMember(c) ==
    ch[c].clan # 0 /\ home[c] \notin lost =>
        /\ TrueIn(row, c) /\ TrueIn(copy, c)
        /\ IF Own THEN Settled(clan, c) ELSE home[c] <= kept
        /\ home[c] <= kept => Settled(row, c)

\* The table of area 3 is ahead of the row, and of the clans founded before the
\* last update it knows what the row knows.
Ahead ==
    IF Own
    THEN Older(row, clan) /\ \A n \in Slots : clan[n].name # Free /\ clan[n].name <= kept => row[n] = clan[n]
    ELSE \A n \in Slots : clan[n].name = Free \/ clan[n].name \in lost

MembersSafe ==
    /\ MemTypes
    /\ Older(copy, row) /\ Ahead
    /\ \A c \in Chars \ astray : TrueMember(c)
    /\ dat = NoInvitation \/ (dat.clan \in Slots /\ dat.name \in 0 .. founded)

\* A step that leaves the tables alone, and gives a character no membership he did
\* not have, except a true one.
LEMMA MembersStay ==
    ASSUME MembersSafe, MemTypes', TableUnchanged,
           \A c \in Chars \ astray' :
               \/ ch'[c].clan = 0
               \/ TrueMember(c)'
               \/ c \notin astray /\ ch'[c].clan = ch[c].clan /\ ch'[c].serial = ch[c].serial /\ home'[c] = home[c],
           dat' = NoInvitation \/ dat' = dat \/ (dat'.clan \in Slots /\ dat'.name \in 0 .. founded)
    PROVE  MembersSafe'
<1>1. UNCHANGED <<clan, row, copy, area, kept, lost, founded>>
  BY DEF TableUnchanged, tableVars
<1>2. Older(copy, row)' /\ Ahead'
  BY <1>1 DEF MembersSafe, Older, Ahead, Own
<1>3. ASSUME NEW c \in Chars \ astray' PROVE TrueMember(c)'
  BY <1>1, <1>3 DEF MembersSafe, TrueMember, Settled, TrueIn, Own
<1> QED
  BY <1>1, <1>2, <1>3 DEF MembersSafe

\* Looking at characters only takes memberships away.
LEMMA LookedTakes ==
    ASSUME MembersSafe, NEW S, ch' = Looked(S)
    PROVE  /\ DOMAIN ch' = Chars
           /\ \A c \in Chars : ch'[c] = ch[c] \/ ch'[c] = Nobody
           /\ Nobody.clan = 0 /\ Nobody.serial = 0
  BY DEF MembersSafe, MemTypes, Looked, Nobody

LEMMA OlderStill ==
    ASSUME NEW t \in ClanTables, NEW u \in ClanTables, NEW v \in ClanTables, Older(t, u), Older(u, v)
    PROVE  Older(t, v)
<1> SUFFICES ASSUME NEW n \in Slots
             PROVE  /\ t[n].serial <= v[n].serial
                    /\ t[n].serial = v[n].serial /\ t[n].name # Free => t[n].name = v[n].name
  BY DEF Older
<1>1. t[n].serial \in Nat /\ u[n].serial \in Nat /\ v[n].serial \in Nat
  BY DEF ClanTables
<1> QED
  BY <1>1 DEF Older

\* A founded clan has a serial nobody carries, and its founder carries it.
LEMMA ClanFounded ==
    ASSUME MembersSafe, NEW c \in Chars, found_clan(c)
    PROVE  MembersSafe'
<1>0. /\ MaxSlot \in Slots /\ MAXCLAN \in Nat
      /\ founded \in Nat /\ kept \in 0 .. founded
  BY MembersAssumption, ClansAssumption DEF MembersSafe, MemTypes
<1>1. PICK n \in Slots :
        /\ clan[n].name = Free
        /\ clan' = [clan EXCEPT ![n].name = founded']
        /\ ch' = [ch EXCEPT ![c] = add_member(c, n, 4)]
  <2>1. 1 .. MaxSlot \subseteq Slots
    BY <1>0 DEF Slots
  <2> QED
    BY <2>1 DEF found_clan
<1>2. /\ founded' = founded + 1 /\ founded' \in Nat /\ founded' # Free /\ founded' > kept
      /\ home' = [home EXCEPT ![c] = founded'] /\ astray' = astray \ {c}
      /\ lost' = lost \cup (IF Own THEN {} ELSE {founded'})
      /\ UNCHANGED <<row, copy, place, dat, area, missed, kept>>
  BY <1>0 DEF found_clan, Free, Own
<1>3. /\ clan' \in ClanTables
      /\ clan'[n].name = founded' /\ \A m \in Slots : clan'[m].serial = clan[m].serial
      /\ \A m \in Slots \ {n} : clan'[m] = clan[m]
  BY <1>1, <1>2 DEF MembersSafe, MemTypes, ClanTables
<1>4. /\ DOMAIN ch' = Chars /\ ch'[c].clan = n /\ ch'[c].serial = clan[n].serial
      /\ \A d \in Chars \ {c} : ch'[d] = ch[d] /\ home'[d] = home[d]
      /\ home'[c] = founded'
  BY <1>1, <1>2 DEF MembersSafe, MemTypes, add_member
<1>5. MemTypes'
  <2>1. home' \in [Chars -> 0 .. founded']
    BY <1>0, <1>2 DEF MembersSafe, MemTypes
  <2>2. \A m \in Slots : clan'[m].name <= founded' /\ row'[m].name <= founded'
    BY <1>0, <1>2, <1>3 DEF MembersSafe, MemTypes, ClanTables
  <2>3. \A d \in Chars : ch'[d].clan \in Slots \cup {0} /\ ch'[d].serial \in Nat
    BY <1>4 DEF MembersSafe, MemTypes, ClanTables
  <2> QED
    BY <1>0, <1>2, <1>3, <1>4, <2>1, <2>2, <2>3 DEF MembersSafe, MemTypes
<1>6. Own' = Own
  BY <1>2 DEF Own
<1>7. Ahead'
  <2>1. CASE Own
    <3>1. Older(row, clan) /\ \A m \in Slots : clan[m].name # Free /\ clan[m].name <= kept => row[m] = clan[m]
      BY <2>1 DEF MembersSafe, Ahead
    <3>2. Older(row, clan)'
      BY <1>1, <1>2, <1>3, <3>1 DEF Older
    <3>3. \A m \in Slots : clan'[m].name # Free /\ clan'[m].name <= kept => row[m] = clan'[m]
      BY <1>0, <1>2, <1>3, <3>1
    <3> QED
      BY <1>2, <1>6, <2>1, <3>2, <3>3 DEF Ahead
  <2>2. CASE ~Own
    BY <1>2, <1>3, <1>6, <2>2 DEF MembersSafe, Ahead
  <2> QED
    BY <2>1, <2>2
<1>8. TrueMember(c)'
  <2>1. CASE ~Own
    BY <1>2, <1>4, <2>1 DEF TrueMember
  <2>2. CASE Own
    <3>1. Older(row, clan) /\ Older(copy, clan)
      BY <2>2, OlderStill DEF MembersSafe, MemTypes, Ahead
    <3>2. TrueIn(row, c)' /\ TrueIn(copy, c)'
      BY <1>1, <1>2, <1>4, <3>1 DEF TrueIn, Older
    <3>3. Settled(clan, c)'
      BY <1>2, <1>3, <1>4 DEF Settled, TrueIn, MembersSafe, MemTypes, ClanTables
    <3>4. ~(home'[c] <= kept')
      BY <1>0, <1>2, <1>4
    <3> QED
      BY <1>6, <2>2, <3>2, <3>3, <3>4 DEF TrueMember
  <2> QED
    BY <2>1, <2>2
<1>9. ASSUME NEW d \in Chars \ astray', d # c PROVE TrueMember(d)'
  <2>1. TrueMember(d) /\ ch'[d] = ch[d] /\ home'[d] = home[d]
    BY <1>2, <1>4, <1>9 DEF MembersSafe
  <2>2. ASSUME ch[d].clan # 0, Settled(clan, d) PROVE Settled(clan, d)'
    <3>1. CASE ch[d].clan = n
      BY <1>1, <1>2, <1>3, <2>1, <2>2, <3>1 DEF MembersSafe, MemTypes, ClanTables, Settled, TrueIn
    <3>2. CASE ch[d].clan # n
      BY <1>3, <2>1, <2>2, <3>2 DEF MembersSafe, MemTypes, Settled, TrueIn
    <3> QED
      BY <3>1, <3>2
  <2>3. TrueIn(row, d)' = TrueIn(row, d) /\ TrueIn(copy, d)' = TrueIn(copy, d) /\ Settled(row, d)' = Settled(row, d)
    BY <1>2, <2>1 DEF TrueIn, Settled
  <2> QED
    BY <1>2, <1>6, <2>1, <2>2, <2>3 DEF TrueMember
<1>10. Older(copy, row)' /\ (dat' = NoInvitation \/ (dat'.clan \in Slots /\ dat'.name \in 0 .. founded'))
  BY <1>0, <1>2 DEF MembersSafe, Older
<1> QED
  BY <1>2, <1>5, <1>7, <1>8, <1>9, <1>10 DEF MembersSafe

\* A disbanded clan leaves its members with a serial that is never used again.
LEMMA ClanDisbanded ==
    ASSUME MembersSafe, NEW n \in Slots, disband_clan(n)
    PROVE  MembersSafe'
<1>1. /\ clan' = [clan EXCEPT ![n] = [name |-> Free, serial |-> @.serial + 1]]
      /\ Own /\ Own'
      /\ UNCHANGED <<row, copy, area, missed, founded, kept, lost, place, ch, dat, home, astray>>
  BY DEF disband_clan, PeopleUnchanged, Running, Own
<1>2. /\ clan' \in ClanTables
      /\ clan'[n].name = Free /\ clan'[n].serial = clan[n].serial + 1
      /\ \A m \in Slots \ {n} : clan'[m] = clan[m]
  BY <1>1 DEF MembersSafe, MemTypes, ClanTables, Free
<1>3. MemTypes'
  <2>1. \A m \in Slots : clan'[m].name <= founded /\ row[m].name <= founded
    BY <1>2 DEF MembersSafe, MemTypes, Free
  <2> QED
    BY <1>1, <1>2, <2>1 DEF MembersSafe, MemTypes
<1>4. Older(row, clan) /\ \A m \in Slots : clan[m].name # Free /\ clan[m].name <= kept => row[m] = clan[m]
  BY <1>1 DEF MembersSafe, Ahead
<1>5. Older(row, clan)'
  BY <1>1, <1>2, <1>4 DEF MembersSafe, MemTypes, ClanTables, Older
<1>6. Ahead'
  BY <1>1, <1>2, <1>4, <1>5 DEF Ahead
<1>7. ASSUME NEW c \in Chars \ astray PROVE TrueMember(c)'
  <2>1. TrueIn(row, c)' = TrueIn(row, c) /\ TrueIn(copy, c)' = TrueIn(copy, c) /\ Settled(row, c)' = Settled(row, c)
    BY <1>1 DEF TrueIn, Settled
  <2>2. ASSUME ch[c].clan # 0, Settled(clan, c) PROVE Settled(clan, c)'
    BY <1>1, <1>2, <2>2 DEF MembersSafe, MemTypes, ClanTables, Settled, TrueIn
  <2> QED
    BY <1>1, <2>1, <2>2 DEF MembersSafe, TrueMember
<1> QED
  BY <1>1, <1>3, <1>6, <1>7 DEF MembersSafe, Older

\* An update stores what area 3 knows; a read brings the others to the row.
LEMMA TableStored ==
    ASSUME MembersSafe, NEW failed \in BOOLEAN, StoreClans(failed)
    PROVE  MembersSafe'
<1>1. /\ row' = clan /\ kept' = founded /\ missed' = failed /\ Own /\ Own'
      /\ UNCHANGED <<clan, copy, area, founded, lost, place, ch, dat, home, astray>>
  BY DEF StoreClans, PeopleUnchanged, Running, Own
<1>2. MemTypes'
  BY <1>1 DEF MembersSafe, MemTypes
<1>3. Older(row, clan) /\ Older(copy, clan)
  BY <1>1, OlderStill DEF MembersSafe, MemTypes, Ahead
<1>4. Older(copy, row)' /\ Ahead'
  BY <1>1, <1>3 DEF MembersSafe, MemTypes, ClanTables, Older, Ahead
<1>5. ASSUME NEW c \in Chars \ astray PROVE TrueMember(c)'
  BY <1>1 DEF MembersSafe, TrueMember, Settled, TrueIn
<1> QED
  BY <1>1, <1>2, <1>4, <1>5 DEF MembersSafe

LEMMA TableRead == MembersSafe /\ ReadClans => MembersSafe'
<1> SUFFICES ASSUME MembersSafe, ReadClans PROVE MembersSafe'
  OBVIOUS
<1>1. /\ copy' = row /\ Own' = Own
      /\ UNCHANGED <<clan, row, missed, founded, kept, lost, place, ch, dat, home, astray>>
  BY DEF ReadClans, PeopleUnchanged, Own, MembersSafe, MemTypes, Areas
<1>2. MemTypes'
  BY <1>1 DEF ReadClans, MembersSafe, MemTypes
<1>3. Older(copy, row)' /\ Ahead'
  BY <1>1 DEF MembersSafe, MemTypes, ClanTables, Older, Ahead
<1>4. ASSUME NEW c \in Chars \ astray PROVE TrueMember(c)'
  BY <1>1 DEF MembersSafe, TrueMember, Settled, TrueIn
<1> QED
  BY <1>1, <1>2, <1>3, <1>4 DEF MembersSafe

\* Whoever's clan is not lost with what was not stored is known to the row.
LEMMA KeptKnown ==
    ASSUME MembersSafe, NEW c \in Chars \ astray, ch[c].clan # 0, home[c] \notin lost \cup Unstored
    PROVE  home[c] <= kept /\ Settled(row, c) /\ TrueIn(row, c) /\ TrueIn(copy, c)
<1>1. home[c] \in 0 .. founded /\ kept \in 0 .. founded /\ founded \in Nat
  BY DEF MembersSafe, MemTypes
<1>2. home[c] <= kept
  BY <1>1 DEF Unstored
<1> QED
  BY <1>2 DEF MembersSafe, TrueMember

LEMMA OwnRead == MembersSafe /\ ReadOwn => MembersSafe'
<1> SUFFICES ASSUME MembersSafe, ReadOwn PROVE MembersSafe'
  OBVIOUS
<1>1. /\ clan' = row /\ lost' = lost \cup Unstored /\ Own' /\ missed' = FALSE
      /\ area' \in [Areas -> {"NEW", "EMPTY", "READ"}]
      /\ UNCHANGED <<row, copy, founded, kept, place, ch, dat, home, astray>>
  BY DEF ReadOwn, PeopleUnchanged, Own, MembersSafe, MemTypes, Areas
<1>2. MemTypes'
  BY <1>1 DEF MembersSafe, MemTypes
<1>3. Older(copy, row)' /\ Ahead'
  BY <1>1 DEF MembersSafe, MemTypes, ClanTables, Older, Ahead
<1>4. ASSUME NEW c \in Chars \ astray PROVE TrueMember(c)'
  <2> SUFFICES ASSUME ch[c].clan # 0, home[c] \notin lost \cup Unstored PROVE TrueMember(c)'
    BY <1>1 DEF TrueMember
  <2> QED
    BY <1>1, KeptKnown DEF TrueMember, Settled, TrueIn
<1> QED
  BY <1>1, <1>2, <1>3, <1>4 DEF MembersSafe

\* A start zeroes the table, and loses what was never stored.
LEMMA AreaStarts ==
    ASSUME MembersSafe, NEW a \in Areas, Restart(a)
    PROVE  MembersSafe'
<1>1. /\ area' = [area EXCEPT ![a] = "NEW"] /\ UNCHANGED <<row, founded, kept, ch, home, astray>>
      /\ area' \in [Areas -> {"NEW", "EMPTY", "READ"}]
  BY DEF Restart, MembersSafe, MemTypes
<1>2. /\ Zeroed \in ClanTables
      /\ \A n \in Slots : Zeroed[n].name = Free /\ Zeroed[n].serial = 0 /\ Zeroed[n].name <= founded
  BY DEF Zeroed, ClanTables, Free, MembersSafe, MemTypes
<1>3. CASE a = "area3"
  <2>1. /\ clan' = Zeroed /\ copy' = copy /\ missed' = FALSE /\ dat' = NoInvitation
        /\ lost' = lost \cup Unstored /\ place' = [c \in Chars |-> "other"]
    BY <1>3 DEF Restart
  <2>2. ~Own'
    BY <1>1, <1>3 DEF Own, MembersSafe, MemTypes, Areas
  <2>3. MemTypes'
    BY <1>1, <1>2, <2>1 DEF MembersSafe, MemTypes, Areas
  <2>4. Older(copy, row)' /\ Ahead'
    BY <1>1, <1>2, <2>1, <2>2 DEF MembersSafe, Older, Ahead
  <2>5. ASSUME NEW c \in Chars \ astray PROVE TrueMember(c)'
    <3> SUFFICES ASSUME ch[c].clan # 0, home[c] \notin lost \cup Unstored PROVE TrueMember(c)'
      BY <1>1, <2>1 DEF TrueMember
    <3> QED
      BY <1>1, <2>1, <2>2, KeptKnown DEF TrueMember, Settled, TrueIn
  <2> QED
    BY <1>1, <2>1, <2>3, <2>4, <2>5 DEF MembersSafe
<1>4. CASE a # "area3"
  <2>1. copy' = Zeroed /\ UNCHANGED <<clan, missed, dat, lost, place>>
    BY <1>4 DEF Restart
  <2>2. Own' = Own
    BY <1>1, <1>4 DEF Own, MembersSafe, MemTypes, Areas
  <2>3. MemTypes'
    BY <1>1, <1>2, <2>1 DEF MembersSafe, MemTypes
  <2>4. Older(copy, row)' /\ Ahead'
    BY <1>1, <1>2, <2>1, <2>2 DEF MembersSafe, MemTypes, ClanTables, Older, Ahead
  <2>5. ASSUME NEW c \in Chars \ astray PROVE TrueMember(c)'
    BY <1>1, <1>2, <2>1, <2>2 DEF MembersSafe, MemTypes, TrueMember, Settled, TrueIn
  <2> QED
    BY <1>1, <2>1, <2>3, <2>4, <2>5 DEF MembersSafe
<1> QED
  BY <1>3, <1>4

LEMMA ReadFailed ==
    ASSUME MembersSafe, NEW a \in Areas, ReadFails(a)
    PROVE  MembersSafe'
<1>1. /\ UNCHANGED <<clan, row, copy, missed, founded, kept, lost, place, ch, dat, home, astray>>
      /\ area' \in [Areas -> {"NEW", "EMPTY", "READ"}] /\ Own' = Own
  BY DEF ReadFails, PeopleUnchanged, MembersSafe, MemTypes, Own, Areas
<1>2. MemTypes'
  BY <1>1 DEF MembersSafe, MemTypes
<1>3. Older(copy, row)' /\ Ahead'
  BY <1>1 DEF MembersSafe, Older, Ahead
<1>4. ASSUME NEW c \in Chars \ astray PROVE TrueMember(c)'
  BY <1>1 DEF MembersSafe, TrueMember, Settled, TrueIn
<1> QED
  BY <1>1, <1>2, <1>3, <1>4 DEF MembersSafe

\* He who joins a clan that is still the one of the invitation carries its serial.
LEMMA GuestJoins ==
    ASSUME MembersSafe, NEW c \in Chars, Join(c)
    PROVE  MembersSafe'
<1>1. dat.clan \in Slots /\ dat.name \in 0 .. founded
  BY DEF Join, MembersSafe, NoInvitation
<1>2. /\ UNCHANGED <<clan, row, copy, area, missed, founded, kept, lost, place>> /\ TableUnchanged
      /\ dat' = NoInvitation
      /\ ch' = [ch EXCEPT ![c] = add_member(c, dat.clan, Looked({c})[c].rank)]
      /\ home' = [home EXCEPT ![c] = dat.name]
      /\ astray' = IF dat.name # Free /\ clan[dat.clan].name = dat.name THEN astray \ {c} ELSE astray \cup {c}
  BY DEF Join, TableUnchanged, tableVars
<1>3. /\ DOMAIN ch' = Chars /\ home' \in [Chars -> 0 .. founded]
      /\ ch'[c].clan = dat.clan /\ ch'[c].serial = clan[dat.clan].serial /\ home'[c] = dat.name
      /\ \A d \in Chars \ {c} : ch'[d] = ch[d] /\ home'[d] = home[d]
  BY <1>1, <1>2 DEF MembersSafe, MemTypes, add_member
<1>4. MemTypes'
  <2>1. ch'[c].clan \in Slots /\ ch'[c].serial \in Nat
    BY <1>1, <1>3 DEF MembersSafe, MemTypes, ClanTables
  <2> QED
    BY <1>2, <1>3, <2>1 DEF MembersSafe, MemTypes
<1>5. c \notin astray' => TrueMember(c)'
  <2> SUFFICES ASSUME dat.name # Free, clan[dat.clan].name = dat.name PROVE TrueMember(c)'
    BY <1>2
  <2>1. CASE ~Own
    BY <1>1, <1>2, <1>3, <2>1 DEF MembersSafe, Ahead, TrueMember
  <2>2. CASE Own
    <3>1. /\ Older(row, clan) /\ Older(copy, clan)
          /\ \A n \in Slots : clan[n].name # Free /\ clan[n].name <= kept => row[n] = clan[n]
      BY <2>2, OlderStill DEF MembersSafe, MemTypes, Ahead
    <3>2. TrueIn(row, c)' /\ TrueIn(copy, c)'
      BY <1>1, <1>2, <1>3, <3>1 DEF TrueIn, Older
    <3>3. Settled(clan, c)'
      BY <1>1, <1>2, <1>3 DEF Settled, TrueIn, MembersSafe, MemTypes, ClanTables
    <3>4. home'[c] <= kept => Settled(row, c)'
      BY <1>1, <1>2, <1>3, <3>1 DEF Settled, TrueIn, MembersSafe, MemTypes, ClanTables
    <3>5. Own'
      BY <1>2, <2>2 DEF Own
    <3> QED
      BY <1>2, <3>2, <3>3, <3>4, <3>5 DEF TrueMember
  <2> QED
    BY <2>1, <2>2
<1> QED
  BY <1>2, <1>3, <1>4, <1>5, MembersStay

\* Members, tables and copies hold across every step.
LEMMA MembersStep == MembersSafe /\ [MemNext]_memVars => MembersSafe'
<1> SUFFICES ASSUME MembersSafe, [MemNext]_memVars PROVE MembersSafe'
  OBVIOUS
<1>1. ASSUME TableUnchanged, UNCHANGED <<ch, home, astray>>, place' \in [Chars -> Areas],
             dat' = dat \/ (dat'.clan \in Slots /\ dat'.name \in 0 .. founded)
      PROVE  MembersSafe'
  <2>1. MemTypes'
    BY <1>1 DEF MembersSafe, MemTypes, TableUnchanged, tableVars
  <2>2. founded' = founded
    BY <1>1 DEF TableUnchanged, tableVars
  <2> QED
    BY <1>1, <2>1, <2>2, MembersStay DEF MembersSafe
<1>4. ASSUME NEW c \in Chars, NameClan(c) \/ Look(c) PROVE MembersSafe'
  <2>1. ch' = Looked({c}) /\ UNCHANGED <<place, dat, home, astray>> /\ TableUnchanged
    BY <1>4 DEF NameClan, Look
  <2>2. \A d \in Chars : ch'[d] = ch[d] \/ (ch'[d].clan = 0 /\ ch'[d].serial = 0)
    BY <2>1, LookedTakes
  <2>3. MemTypes'
    <3>1. DOMAIN ch' = Chars /\ \A d \in Chars : ch'[d].clan \in Slots \cup {0} /\ ch'[d].serial \in Nat
      <4>1. DOMAIN ch' = Chars
        BY <2>1, LookedTakes
      <4>2. \A d \in Chars : ch[d].clan \in Slots \cup {0} /\ ch[d].serial \in Nat
        BY DEF MembersSafe, MemTypes
      <4>3. ASSUME NEW d \in Chars PROVE ch'[d].clan \in Slots \cup {0} /\ ch'[d].serial \in Nat
        BY <2>2, <4>2
      <4> QED
        BY <4>1, <4>3
    <3>2. UNCHANGED <<clan, row, copy, area, missed, founded, kept, home, place>>
      BY <2>1 DEF TableUnchanged, tableVars
    <3> QED
      BY <3>1, <3>2 DEF MembersSafe, MemTypes
  <2> QED
    BY <2>1, <2>2, <2>3, MembersStay
<1>6. ASSUME NEW c \in Chars, Leave(c) PROVE MembersSafe'
  <2>1. /\ ch' = [ch EXCEPT ![c] = Nobody] /\ home' = [home EXCEPT ![c] = Free]
        /\ astray' = astray \ {c} /\ UNCHANGED <<place, dat>> /\ TableUnchanged
    BY <1>6 DEF Leave
  <2>2. /\ ch'[c].clan = 0 /\ ch'[c].serial = 0 /\ home' \in [Chars -> 0 .. founded] /\ DOMAIN ch' = Chars
        /\ \A d \in Chars \ {c} : ch'[d] = ch[d] /\ home'[d] = home[d]
    BY <2>1 DEF MembersSafe, MemTypes, Nobody, Free
  <2>3. MemTypes'
    BY <2>1, <2>2 DEF MembersSafe, MemTypes, TableUnchanged, tableVars
  <2> QED
    BY <2>1, <2>2, <2>3, MembersStay
<1>7. ASSUME NEW c \in Chars, NEW other \in Chars, NEW rank \in Ranks, SetRank(c, other, rank)
      PROVE  MembersSafe'
  <2>1. ch' = [ch EXCEPT ![other].rank = rank] /\ UNCHANGED <<place, dat, home, astray>> /\ TableUnchanged
    BY <1>7 DEF SetRank
  <2>2. DOMAIN ch' = Chars /\ \A d \in Chars : ch'[d].clan = ch[d].clan /\ ch'[d].serial = ch[d].serial
    BY <2>1 DEF MembersSafe, MemTypes
  <2>3. MemTypes'
    BY <2>1, <2>2 DEF MembersSafe, MemTypes, TableUnchanged, tableVars
  <2> QED
    BY <2>1, <2>2, <2>3, MembersStay
<1>8. ASSUME NEW c \in Chars, NEW guest \in Chars, Accept(c, guest) PROVE MembersSafe'
  <2>1. dat'.clan \in Slots /\ dat'.name \in 0 .. founded
    <3>1. get_char_clan(c) \in Slots
      BY <1>8 DEF Accept, Leads, get_char_clan
    <3>2. dat'.clan = get_char_clan(c) /\ dat'.name = clan[get_char_clan(c)].name
      BY <1>8 DEF Accept
    <3> QED
      BY <3>1, <3>2 DEF MembersSafe, MemTypes, ClanTables
  <2>2. place' \in [Chars -> Areas]
    BY <1>8 DEF Accept, MembersSafe, MemTypes
  <2> QED
    BY <1>1, <1>8, <2>1, <2>2 DEF Accept
<1>9. ASSUME NEW c \in Chars, NEW to \in Areas, Go(c, to) PROVE MembersSafe'
  <2>1. place' \in [Chars -> Areas]
    BY <1>9 DEF Go, MembersSafe, MemTypes
  <2> QED
    BY <1>1, <1>9, <2>1 DEF Go
<1>10. CASE UNCHANGED memVars
  <2>1. place' \in [Chars -> Areas]
    BY <1>10 DEF memVars, MembersSafe, MemTypes
  <2> QED
    BY <1>1, <1>10, <2>1 DEF memVars, TableUnchanged
<1> QED
  BY <1>4, <1>6, <1>7, <1>8, <1>9, <1>10, ClanFounded, ClanDisbanded, TableStored, TableRead,
     OwnRead, AreaStarts, ReadFailed, GuestJoins DEF MemNext, Fire

(* Nobody counts as a member of a clan he did not found or join, for any number *)
(* of slots and characters, however late the other areas' copies are, whatever  *)
(* update fails and whichever server starts again; those apart whose clan was   *)
(* founded in a table that was never stored.                                    *)
THEOREM MembersTrue == MemSpec => []NoFalseMember
<1>1. MemInit => MembersSafe
  <2> SUFFICES ASSUME MemInit PROVE MembersSafe
    OBVIOUS
  <2>1. /\ Zeroed \in ClanTables /\ \A n \in Slots : Zeroed[n].name = Free /\ Zeroed[n].serial = 0
        /\ clan = Zeroed /\ row = Zeroed /\ copy = Zeroed
    BY DEF MemInit, Zeroed, ClanTables, Free
  <2>2. \A c \in Chars : ch[c].clan = 0 /\ ch[c].serial = 0 /\ home[c] = 0
    BY DEF MemInit, Nobody, Free
  <2>3. MemTypes
    <3>1. home \in [Chars -> 0 .. founded] /\ place \in [Chars -> Areas] /\ founded = 0 /\ kept = 0
      BY DEF MemInit, Free, Areas
    <3>2. DOMAIN ch = Chars /\ area \in [Areas -> {"NEW", "EMPTY", "READ"}] /\ missed \in BOOLEAN
      BY DEF MemInit
    <3> QED
      BY <2>1, <2>2, <3>1, <3>2 DEF MemTypes, Free
  <2>4. Older(copy, row) /\ Ahead
    BY <2>1 DEF Older, Ahead, Free
  <2> QED
    BY <2>2, <2>3, <2>4 DEF MemInit, MembersSafe, TrueMember
<1>2. MembersSafe => NoFalseMember
  <2> SUFFICES ASSUME MembersSafe, NEW c \in Chars \ astray, home[c] \notin lost,
                      area[place[c]] = "READ", get_char_clan(c) # 0
               PROVE  Table(c)[get_char_clan(c)].name = home[c]
    BY DEF NoFalseMember
  <2>1. /\ get_char_clan(c) = ch[c].clan /\ ch[c].clan # 0
        /\ Table(c)[ch[c].clan].serial = ch[c].serial /\ Table(c)[ch[c].clan].name # Free
    BY DEF get_char_clan, update_done
  <2>2. TrueMember(c)
    BY DEF MembersSafe
  <2> QED
    BY <2>1, <2>2 DEF TrueMember, Settled, TrueIn, Own, Table
<1> QED
  BY <1>1, <1>2, MembersStep, PTL DEF MemSpec

-----------------------------------------------------------------------------
(* Relations                                                                 *)

\* What two clans that exist remember about each other.
Known == [cur : Relations, want : Relations, age : Ages]

\* One step of a relation goes nowhere the two wishes do not allow.
LEMMA StepTaken ==
    ASSUME NEW cur \in Relations, NEW w1 \in Known, NEW w2 \in Known
    PROVE  LET then == RelationStep(cur, w1, w2) IN
           /\ then \in Relations
           /\ then > cur => then \in {2,3,4} /\ (then <= w1.want \/ then <= w2.want)
           /\ then < cur => then \in {2,3,4} /\ (then >= w1.want \/ then >= w2.want)
<1>1. Relations = {1,2,3,4,5}
 BY DEF Relations, CS_ALLIANCE, CS_FEUD
<1>2. w1.want \in {1,2,3,4,5} /\ w2.want \in {1,2,3,4,5}
 BY <1>1 DEF Known
<1> QED
  BY <1>1, <1>2 DEF CS_NEUTRAL, CS_PEACETREATY, CS_FEUD, RelationStep

\* One visit ends with both sides the same, except where it only stopped a raid.
LEMMA VisitBound ==
    ASSUME NEW own \in Known, NEW other \in Known, NEW raided \in BOOLEAN, own.cur = other.cur \/ raided
    PROVE  LET v == Visit(own, other, raided)
               w1 == IF raided THEN own ELSE Capped(own) IN
           /\ v[1] \in Known /\ v[2] \in Known
           /\ v[1].want = w1.want /\ v[1].age = own.age /\ v[2].want = other.want /\ v[2].age = other.age
           /\ v[1].cur = IF w1.want = other.want THEN w1.want ELSE RelationStep(w1.cur, w1, other)
           /\ v[2].cur = v[1].cur \/ (w1.want = other.want /\ v[2].cur = other.cur /\ w1.cur = w1.want)
<1> DEFINE w1 == IF raided THEN own ELSE Capped(own)
           cur == IF w1.want = other.want THEN w1.want ELSE RelationStep(w1.cur, w1, other)
<1>1. Relations = {1,2,3,4,5}
  BY DEF Relations, CS_ALLIANCE, CS_FEUD
<1>2. w1 \in Known /\ w1.age = own.age
  BY <1>1 DEF Known, Capped, Cap, CS_NEUTRAL
<1> HIDE DEF w1
<1>3. cur \in Relations
  BY <1>2, StepTaken DEF Known
<1> HIDE DEF cur
<1>4. Visit(own, other, raided) = IF w1.want = other.want /\ w1.cur = w1.want
        THEN <<w1, other>>
        ELSE <<[w1 EXCEPT !.cur = cur], [other EXCEPT !.cur = cur]>>
  BY DEF Visit, w1, cur
<1>5. [w1 EXCEPT !.cur = cur] \in Known /\ [other EXCEPT !.cur = cur] \in Known
  BY <1>2, <1>3 DEF Known
<1>6. w1.want = other.want => cur = w1.want
  BY DEF cur
<1> QED
  BY <1>2, <1>3, <1>4, <1>5, <1>6 DEF Known, w1, cur

\* A second visit to the same entry is allowed what the first one was.
LEMMA VisitAgain ==
    ASSUME NEW own \in Known, NEW other \in Known
    PROVE  LET v == Visit(own, other, TRUE) IN
           /\ v[1] \in Known /\ v[2] \in Known
           /\ v[1].want = own.want /\ v[2].want = other.want
           /\ own.want = other.want => v[1].cur = own.want /\ v[2].cur \in {own.want, other.cur}
           /\ own.want # other.want => v[1].cur = RelationStep(own.cur, own, other) /\ v[2].cur = v[1].cur
<1> DEFINE v == Visit(own, other, TRUE)
<1>1. /\ v[1] \in Known /\ v[2] \in Known
      /\ v[1].want = own.want /\ v[2].want = other.want
      /\ v[1].cur = IF own.want = other.want THEN own.want ELSE RelationStep(own.cur, own, other)
      /\ v[2].cur = v[1].cur \/ (own.want = other.want /\ v[2].cur = other.cur /\ own.cur = own.want)
  <2>1. TRUE \in BOOLEAN
    OBVIOUS
  <2> HIDE DEF v
  <2>2. v = Visit(own, other, TRUE)
    BY DEF v
  <2> QED
    BY <2>1, <2>2, VisitBound
<1> HIDE DEF v
<1>2. v = Visit(own, other, TRUE)
  BY DEF v
<1>3. CASE own.want = other.want
  BY <1>1, <1>2, <1>3
<1>4. CASE own.want # other.want
  BY <1>1, <1>2, <1>4
<1> QED
  BY <1>3, <1>4

\* What an update does to the two entries of a pair.
LEMMA PairVisited ==
    ASSUME NEW lower \in Known, NEW upper \in Known, NEW raided \in BOOLEAN, lower.cur = upper.cur
    PROVE  LET v == VisitPair[<<lower, upper, raided>>]
               now == lower.cur  then == v[1].cur  w1 == v[1].want  w2 == v[2].want IN
           /\ v[1] \in Known /\ v[2] \in Known /\ v[2].cur = then
           /\ then > now => then <= w1 \/ then <= w2
           /\ then < now => then >= w1 \/ then >= w2
           /\ then \in {CS_ALLIANCE, CS_FEUD} /\ then # now => w1 = then /\ w2 = then
<1> DEFINE first == Visit(lower, upper, raided)
           second == Visit(first[2], first[1], TRUE)
<1>1. VisitPair[<<lower, upper, raided>>] = <<second[2], second[1]>>
  <2>1. lower \in Memories /\ upper \in Memories
    BY DEF Known, Memories
  <2> QED
    BY <2>1 DEF VisitPair
<1>2. first[1] \in Known /\ first[2] \in Known /\ second[1] \in Known /\ second[2] \in Known
  <2>1. first[1] \in Known /\ first[2] \in Known
    BY VisitBound
  <2> HIDE DEF first
  <2> QED
    BY <2>1, VisitAgain
<1> DEFINE w1 == IF raided THEN lower ELSE Capped(lower)
           now == lower.cur
<1>3. /\ w1 \in Known
      /\ raided => w1.cur = now
      /\ ~raided => w1.cur = Cap(now) /\ w1.want <= CS_NEUTRAL
  <2>1. lower.cur \in 1 .. 5 /\ lower.want \in 1 .. 5
    BY DEF Known, Relations, CS_ALLIANCE, CS_FEUD
  <2>2. Capped(lower) \in Known /\ Capped(lower).cur = Cap(now) /\ Capped(lower).want <= CS_NEUTRAL
    <3>1. Capped(lower) = [lower EXCEPT !.cur = Cap(now), !.want = Cap(lower.want)]
      BY DEF Capped, Known
    <3>2. Cap(now) \in 1 .. 5 /\ Cap(lower.want) \in 1 .. 5 /\ Cap(lower.want) <= 3
      BY <2>1 DEF Cap, CS_NEUTRAL
    <3> HIDE DEF now
    <3> QED
      BY <3>1, <3>2 DEF Known, CS_NEUTRAL, Relations, CS_ALLIANCE, CS_FEUD
  <2> QED
    BY <2>2
<1>4. /\ first[1].want = w1.want /\ first[2].want = upper.want
      /\ second[1].want = upper.want /\ second[2].want = w1.want
  <2>1. first[1].want = w1.want /\ first[2].want = upper.want
    BY VisitBound
  <2> HIDE DEF first, w1
  <2> QED
    BY <1>2, <2>1, VisitAgain
<1>7. /\ w1.want = upper.want =>
           second[1].cur = upper.want /\ second[2].cur \in {upper.want, first[1].cur}
      /\ w1.want # upper.want =>
           second[1].cur = RelationStep(first[2].cur, first[2], first[1]) /\ second[2].cur = second[1].cur
  <2>1. first[1].want = w1.want /\ first[2].want = upper.want
    BY <1>4
  <2> HIDE DEF first, w1
  <2>2. /\ first[2].want = first[1].want =>
              second[1].cur = first[2].want /\ second[2].cur \in {first[2].want, first[1].cur}
        /\ first[2].want # first[1].want =>
              second[1].cur = RelationStep(first[2].cur, first[2], first[1]) /\ second[2].cur = second[1].cur
    BY <1>2, VisitAgain
  <2> HIDE DEF second
  <2> QED
    BY <2>1, <2>2
<1>5. CASE w1.want = upper.want
  <2>1. first[1].cur = w1.want
    BY <1>5, VisitBound
  <2> HIDE DEF first, second, w1
  <2>2. second[1].cur = w1.want /\ second[2].cur = w1.want
    BY <1>5, <1>7, <2>1
  <2> HIDE DEF second
  <2>3. w1.want \in 1 .. 5 /\ now \in 1 .. 5
    BY <1>3 DEF Known, Relations, CS_ALLIANCE, CS_FEUD
  <2> QED
    BY <1>1, <1>2, <1>4, <1>5, <2>2, <2>3
<1>6. CASE w1.want # upper.want
  <2> DEFINE x == RelationStep(w1.cur, w1, upper)
             then == RelationStep(x, first[2], first[1])
  <2>1. first[1].cur = x /\ first[2].cur = x
    BY <1>6, VisitBound
  <2>3. w1.cur \in Relations /\ w1.want \in Relations /\ upper.want \in Relations /\ now \in Relations
    BY <1>3 DEF Known
  <2>4. /\ x \in Relations
        /\ x > w1.cur => x \in {2, 3, 4} /\ (x <= w1.want \/ x <= upper.want)
        /\ x < w1.cur => x \in {2, 3, 4} /\ (x >= w1.want \/ x >= upper.want)
    BY <1>3, <2>3, StepTaken
  <2> HIDE DEF first, w1, x
  <2>5. /\ then \in Relations
        /\ then > x => then \in {2, 3, 4} /\ (then <= w1.want \/ then <= upper.want)
        /\ then < x => then \in {2, 3, 4} /\ (then >= w1.want \/ then >= upper.want)
    BY <1>2, <1>4, <2>4, StepTaken
  <2>6. second[1].cur = then /\ second[2].cur = then
    <3> HIDE DEF second
    <3> QED
      BY <1>6, <1>7, <2>1
  <2> HIDE DEF then, second, now
  <2>7. /\ then > now => then <= w1.want \/ then <= upper.want
        /\ then < now => then >= w1.want \/ then >= upper.want
        /\ then \in {CS_ALLIANCE, CS_FEUD} => then = now
    BY <1>3, <2>3, <2>4, <2>5 DEF Cap, Relations, CS_ALLIANCE, CS_FEUD, CS_NEUTRAL
  <2> QED
    BY <1>1, <1>2, <1>4, <2>6, <2>7 DEF now
<1> QED
  BY <1>5, <1>6

-----------------------------------------------------------------------------
RelSafe ==
    /\ named \subseteq Slots
    /\ rel \in [Slots -> [Slots -> Memories]]
    /\ \A n, m \in named : n # m => rel[n][m] \in Known /\ Cur(n, m) = Cur(m, n)

KeptStep ==
    /\ \A n \in named, m \in named : n # m /\ n \in named' /\ m \in named' =>
        LET now == Cur(n, m)  then == rel'[n][m].cur
            w1 == rel'[n][m].want  w2 == rel'[m][n].want
        IN  /\ then > now => then <= w1 \/ then <= w2
            /\ then < now => then >= w1 \/ then >= w2
            /\ then \in {CS_ALLIANCE, CS_FEUD} /\ then # now => w1 = then /\ w2 = then
    /\ \A n, m \in Slots : n \in named' \ named /\ m \in named' /\ n # m
        => rel'[m][n].cur = CS_NEUTRAL /\ rel'[m][n].want = CS_NEUTRAL

\* No clan is new, and what two clans are stays.
LEMMA SameRelations ==
    ASSUME RelSafe, named' \subseteq named, rel' \in [Slots -> [Slots -> Memories]],
           \A n, m \in named' : n # m /\ rel[n][m] \in Known =>
               rel'[n][m] \in Known /\ rel'[n][m].cur = Cur(n, m)
    PROVE  RelSafe' /\ KeptStep
<1>1. ASSUME NEW n \in named, NEW m \in named, n # m, n \in named', m \in named'
      PROVE  /\ rel'[n][m] \in Known /\ rel'[n][m].cur = Cur(n, m)
             /\ Cur(n, m) \in 1 .. 5 /\ Cur(n, m) = Cur(m, n)
  BY <1>1 DEF RelSafe, Known, Relations, CS_ALLIANCE, CS_FEUD, Cur
<1>2. RelSafe'
  BY <1>1 DEF RelSafe, Cur
<1>3. \A n \in Slots, m \in Slots : ~(n \in named' \ named)
  OBVIOUS
<1> QED
  BY <1>1, <1>2, <1>3 DEF KeptStep

\* Slot n is reused or freed.
LEMMA SlotZeroed ==
    ASSUME RelSafe, NEW n \in Slots, NEW entries \in [Slots -> Memories],
           rel' = zero_relation([rel EXCEPT ![n] = entries], n)
    PROVE  /\ rel' \in [Slots -> [Slots -> Memories]]
           /\ \A m \in Slots : rel'[m][n] = Neutral(2)
           /\ \A m, k \in Slots \ {n} : rel'[m][k] = rel[m][k]
           /\ \A m \in Slots \ {n} : rel'[n][m] = entries[m]
<1> DEFINE r == [rel EXCEPT ![n] = entries]
<1>1. r \in [Slots -> [Slots -> Memories]] /\ r[n] = entries /\ \A m \in Slots \ {n} : r[m] = rel[m]
  BY DEF RelSafe
<1>2. Neutral(2) \in Memories
  BY DEF Neutral, Memories, Relations, Ages, CS_NEUTRAL, CS_ALLIANCE, CS_FEUD, Unset
<1> HIDE DEF r
<1>3. rel' = [m \in Slots |-> [r[m] EXCEPT ![n] = Neutral(2)]]
  BY DEF r, zero_relation
<1>4. \A m \in Slots :
        rel'[m] \in [Slots -> Memories] /\ rel'[m][n] = Neutral(2) /\ \A k \in Slots \ {n} : rel'[m][k] = r[m][k]
  <2> TAKE m \in Slots
  <2>1. rel'[m] = [r[m] EXCEPT ![n] = Neutral(2)]
    BY <1>3
  <2>2. r[m] \in [Slots -> Memories]
    BY <1>1
  <2> DEFINE now == r[m]  then == rel'[m]  neutral == Neutral(2)
  <2>3. now \in [Slots -> Memories] /\ then = [now EXCEPT ![n] = neutral] /\ neutral \in Memories
    BY <1>2, <2>1, <2>2
  <2> HIDE DEF now, then, neutral
  <2>4. /\ then \in [Slots -> Memories] /\ then[n] = neutral
        /\ \A k \in Slots \ {n} : then[k] = now[k]
    BY <2>3
  <2> QED
    BY <2>4 DEF now, then, neutral
<1>5. rel' \in [Slots -> [Slots -> Memories]]
  BY <1>3, <1>4
<1> QED
  BY <1>1, <1>4, <1>5

\* Relations stay mutual, and treaties are kept, across every step.
LEMMA RelStep == RelSafe /\ [RelNext]_relVars => RelSafe' /\ KeptStep
<1> SUFFICES ASSUME RelSafe, [RelNext]_relVars PROVE RelSafe' /\ KeptStep
  OBVIOUS
<1> USE DEF Cur
<1>0. /\ CS_ALLIANCE = 1 /\ CS_NEUTRAL = 3 /\ CS_FEUD = 5 /\ Relations = 1 .. 5
      /\ Known \subseteq Memories
  BY DEF CS_ALLIANCE, CS_NEUTRAL, CS_FEUD, Relations, Known, Memories
<1>1. CASE UpdateRelations
  <2>1. named' = named /\ rel' = update_relations
    BY <1>1 DEF UpdateRelations
  <2>2. ASSUME NEW n \in named, NEW m \in named, n < m
        PROVE  /\ rel'[n][m] \in Known /\ rel'[m][n] \in Known
               /\ rel'[n][m].cur = rel'[m][n].cur
               /\ LET now == Cur(n, m)  then == rel'[n][m].cur
                      w1 == rel'[n][m].want  w2 == rel'[m][n].want
                  IN  /\ then > now => then <= w1 \/ then <= w2
                      /\ then < now => then >= w1 \/ then >= w2
                      /\ then \in {CS_ALLIANCE, CS_FEUD} /\ then # now => w1 = then /\ w2 = then
    <3> DEFINE v == VisitPair[<<rel[n][m], rel[m][n], m \in doraid>>]
    <3>1. n \in Slots /\ m \in Slots /\ n \in Int /\ m \in Int /\ n # m /\ ~(m < n)
      BY <2>2 DEF RelSafe, Slots
    <3>2. rel'[n][m] = v[1] /\ rel'[m][n] = v[2]
      BY <2>1, <2>2, <3>1 DEF update_relations
    <3>3. rel[n][m] \in Known /\ rel[m][n] \in Known /\ rel[n][m].cur = rel[m][n].cur
      BY <3>1 DEF RelSafe
    <3>4. (m \in doraid) \in BOOLEAN
      OBVIOUS
    <3> HIDE DEF Cur
    <3>5. /\ v[1] \in Known /\ v[2] \in Known /\ v[2].cur = v[1].cur
          /\ v[1].cur > rel[n][m].cur => v[1].cur <= v[1].want \/ v[1].cur <= v[2].want
          /\ v[1].cur < rel[n][m].cur => v[1].cur >= v[1].want \/ v[1].cur >= v[2].want
          /\ v[1].cur \in {CS_ALLIANCE, CS_FEUD} /\ v[1].cur # rel[n][m].cur
                => v[1].want = v[1].cur /\ v[2].want = v[1].cur
      BY <3>3, <3>4, PairVisited
    <3> HIDE DEF v
    <3> QED
      BY <3>2, <3>5 DEF Cur
  <2>3. ASSUME NEW n \in named, NEW m \in named, n # m PROVE n < m \/ m < n
    BY <2>3 DEF RelSafe, Slots
  <2>4. \A n, m \in named : n # m => rel'[n][m] \in Known /\ rel'[n][m].cur = rel'[m][n].cur
    BY <2>2, <2>3
  <2>5. rel' \in [Slots -> [Slots -> Memories]]
    <3>1. rel' = [n \in Slots |-> [m \in Slots |-> rel'[n][m]]]
      BY <2>1 DEF update_relations
    <3>2. ASSUME NEW n \in Slots, NEW m \in Slots PROVE rel'[n][m] \in Memories
      <4>1. CASE n = m \/ ~({n, m} \subseteq named)
        BY <2>1, <4>1 DEF update_relations, RelSafe
      <4>2. CASE n # m /\ {n, m} \subseteq named
        BY <1>0, <2>2, <2>3, <4>2
      <4> QED
        BY <4>1, <4>2
    <3> QED
      BY <3>1, <3>2
  <2>6. RelSafe'
    BY <2>1, <2>4, <2>5 DEF RelSafe
  <2>7. ASSUME NEW n \in named, NEW m \in named, n < m
        PROVE  LET now == Cur(m, n)  then == rel'[m][n].cur
                   w1 == rel'[m][n].want  w2 == rel'[n][m].want
               IN  /\ then > now => then <= w1 \/ then <= w2
                   /\ then < now => then >= w1 \/ then >= w2
                   /\ then \in {CS_ALLIANCE, CS_FEUD} /\ then # now => w1 = then /\ w2 = then
    <3>1. Cur(m, n) = Cur(n, m)
      BY <2>7 DEF RelSafe, Slots
    <3> QED
      BY <2>2, <2>7, <3>1
  <2> QED
    BY <2>1, <2>2, <2>3, <2>6, <2>7 DEF KeptStep
<1>2. CASE TimePasses
  <2>1. PICK hours \in {1, 2} :
          rel' = [n \in Slots |-> [m \in Slots |-> [rel[n][m] EXCEPT !.age = IF @ < hours THEN hours ELSE @]]]
    BY <1>2 DEF TimePasses
  <2>2. named' = named
    BY <1>2 DEF TimePasses
  <2>3. ASSUME NEW n \in Slots, NEW m \in Slots
        PROVE  /\ rel'[n][m] \in Memories /\ rel'[n][m].cur = rel[n][m].cur
               /\ rel[n][m] \in Known => rel'[n][m] \in Known
    <3>1. rel'[n][m] = [rel[n][m] EXCEPT !.age = IF rel[n][m].age < hours THEN hours ELSE rel[n][m].age]
      BY <2>1
    <3>2. rel[n][m] \in Memories
      BY DEF RelSafe
    <3> QED
      BY <3>1, <3>2 DEF Memories, Known, Ages
  <2>4. rel' \in [Slots -> [Slots -> Memories]]
    BY <2>1, <2>3
  <2> QED
    BY <2>2, <2>3, <2>4, SameRelations DEF RelSafe
<1>3. ASSUME NEW n \in Slots, FoundRelations(n) PROVE RelSafe' /\ KeptStep
  <2>1. n \notin named /\ named' = named \cup {n}
    BY <1>3 DEF FoundRelations
  <2>2. [m \in Slots |-> Neutral(0)] \in [Slots -> Memories] /\ Neutral(0) \in Known /\ Neutral(2) \in Known
    BY <1>0 DEF Neutral, Memories, Ages, Known
  <2>3. /\ rel' \in [Slots -> [Slots -> Memories]]
        /\ \A m \in Slots : rel'[m][n] = Neutral(2)
        /\ \A m, k \in Slots \ {n} : rel'[m][k] = rel[m][k]
        /\ \A m \in Slots \ {n} : rel'[n][m] = Neutral(0)
    BY <1>3, <2>2, SlotZeroed DEF FoundRelations
  <2>4. Neutral(2).cur = CS_NEUTRAL /\ Neutral(2).want = CS_NEUTRAL /\ Neutral(0).cur = CS_NEUTRAL
    BY DEF Neutral
  <2>5. RelSafe'
    <3>1. ASSUME NEW k \in named', NEW m \in named', k # m
          PROVE  rel'[k][m] \in Known /\ rel'[k][m].cur = rel'[m][k].cur
      <4>1. k \in Slots /\ m \in Slots /\ k # m
        BY <2>1, <3>1 DEF RelSafe
      <4>2. CASE n \notin {k, m}
        BY <2>1, <2>3, <4>1, <4>2 DEF RelSafe
      <4>3. CASE n \in {k, m}
        BY <2>2, <2>3, <2>4, <4>1, <4>3
      <4> QED
        BY <4>2, <4>3
    <3> QED
      BY <2>1, <2>3, <3>1 DEF RelSafe
  <2>6. ASSUME NEW k \in named, NEW m \in named, k # m PROVE rel'[k][m] = rel[k][m] /\ Cur(k, m) \in Int
    <3>1. k \in Slots /\ m \in Slots /\ k # n /\ m # n
      BY <2>1, <2>6 DEF RelSafe
    <3>2. rel[k][m].cur \in 1 .. 5
      BY <1>0, <2>6 DEF RelSafe, Known
    <3> QED
      BY <2>3, <3>1, <3>2
  <2>7. \A k, m \in Slots : k \in named' \ named /\ m \in named' /\ k # m
          => rel'[m][k].cur = CS_NEUTRAL /\ rel'[m][k].want = CS_NEUTRAL
    BY <2>1, <2>3, <2>4
  <2> QED
    BY <2>5, <2>6, <2>7 DEF KeptStep
<1>4. ASSUME NEW n \in Slots, DisbandRelations(n) PROVE RelSafe' /\ KeptStep
  <2>1. named' = named \ {n}
    BY <1>4 DEF DisbandRelations
  <2>2. [m \in Slots |-> Cleared] \in [Slots -> Memories]
    BY DEF Cleared, Memories, Ages, Unset
  <2>3. /\ rel' \in [Slots -> [Slots -> Memories]]
        /\ \A m, k \in Slots \ {n} : rel'[m][k] = rel[m][k]
    BY <1>4, <2>2, SlotZeroed DEF DisbandRelations
  <2> QED
    BY <2>1, <2>3, SameRelations DEF RelSafe
<1>5. ASSUME NEW n \in Slots, NEW m \in Slots, NEW want \in Relations, set_clan_relation(n, m, want)
      PROVE  RelSafe' /\ KeptStep
  <2>1. /\ named' = named /\ n # m
        /\ rel' = [rel EXCEPT ![n][m] =
                     [cur |-> @.cur, want |-> want, age |-> IF @.want # want THEN 0 ELSE @.age]]
    BY <1>5 DEF set_clan_relation, Others
  <2> DEFINE age == IF rel[n][m].want # want THEN 0 ELSE rel[n][m].age
             w == [cur |-> rel[n][m].cur, want |-> want, age |-> age]
  <2>2. rel' = [rel EXCEPT ![n] = [rel[n] EXCEPT ![m] = w]]
    BY <2>1
  <2>3. w \in Memories /\ (rel[n][m] \in Known => w \in Known) /\ w.cur = rel[n][m].cur
    <3>1. rel[n][m] \in Memories
      BY <1>5, <2>1 DEF RelSafe, set_clan_relation, Others
    <3>2. age \in Ages
      BY <3>1 DEF Memories, Ages
    <3> HIDE DEF age
    <3> QED
      BY <3>1, <3>2 DEF Memories, Known
  <2> HIDE DEF w
  <2>5. /\ \A k \in Slots : rel'[k] \in [Slots -> Memories]
        /\ rel'[n][m] = w
        /\ \A k, l \in Slots : ~(k = n /\ l = m) => rel'[k][l] = rel[k][l]
    BY <2>2, <2>3 DEF RelSafe
  <2>4. rel' \in [Slots -> [Slots -> Memories]]
    BY <2>2, <2>5 DEF RelSafe
  <2> QED
    BY <2>1, <2>3, <2>4, <2>5, SameRelations DEF RelSafe
<1>6. ASSUME UNCHANGED <<named, rel>> PROVE RelSafe' /\ KeptStep
  BY <1>6, SameRelations DEF RelSafe
<1>7. ASSUME NEW n \in Slots, set_clan_raid_god(n) PROVE RelSafe' /\ KeptStep
  BY <1>6, <1>7 DEF set_clan_raid_god
<1>8. CASE UNCHANGED relVars
  BY <1>6, <1>8 DEF relVars
<1> QED
  BY <1>1, <1>2, <1>3, <1>4, <1>5, <1>7, <1>8 DEF RelNext

(* Two clans are the same to each other, changed only as both or one of them *)
(* may change it, and new clans start neutral, for any number of slots.       *)
THEOREM TreatiesTrue == RelSpec => TreatiesKept
<1>1. RelInit => RelSafe
  BY DEF RelInit, RelSafe, Cleared, Memories, Ages, Unset
<1>2. RelSafe => RelationsMutual
  BY DEF RelSafe, RelationsMutual, Pairs, Known, Cur
<1>3. KeptStep =>
      /\ \A p \in Pairs :
        LET n == p[1]  m == p[2]
            now == Cur(n, m)  then == rel'[n][m].cur
            w1 == rel'[n][m].want  w2 == rel'[m][n].want
        IN  p \in named' \X named' =>
            /\ then > now => then <= w1 \/ then <= w2
            /\ then < now => then >= w1 \/ then >= w2
            /\ then \in {CS_ALLIANCE, CS_FEUD} /\ then # now => w1 = then /\ w2 = then
      /\ \A n, m \in Slots : n \in named' \ named /\ m \in named' /\ n # m
        => rel'[m][n].cur = CS_NEUTRAL /\ rel'[m][n].want = CS_NEUTRAL
  BY DEF KeptStep, Pairs
<1> QED
  BY <1>1, <1>2, <1>3, RelStep, PTL DEF RelSpec, TreatiesKept, WishesRespected, FreshStart

-----------------------------------------------------------------------------
(* Treasuries                                                                *)

TreasurySafe ==
    /\ treasure \in [jewels : Nat, debt : Nat, unpaid : Int]
    /\ bonus \in 0 .. MaxBonus

\* What the quotient of two numbers is.
LEMMA Quotient ==
    ASSUME NEW a \in Nat, NEW b \in Nat \ {0}
    PROVE  a \div b \in Nat /\ b * (a \div b) <= a /\ a < b * (a \div b) + b
  OBVIOUS

\* However many bonuses there are jewels for, a step of the rent takes time.
LEMMA StepPositive ==
    ASSUME NEW levels \in 0 .. MaxBonus
    PROVE  cost(levels) \in Nat \ {0} /\ Week \div cost(levels) \in Nat \ {0}
<1> DEFINE c == cost(levels)
<1>1. levels \in 0 .. 280
  BY TreasuryAssumption
<1>2. c \in Nat \ {0} /\ c <= 285000
  BY <1>1 DEF cost, CLANHALLRENT
<1>3. Week = 604800
  BY DEF Week
<1> HIDE DEF c
<1>4. 604800 \div c \in Nat /\ 604800 < c * (604800 \div c) + c
  BY <1>2, Quotient
<1>5. 604800 \div c = 0 => c * (604800 \div c) = 0
  BY <1>2
<1>6. 604800 \div c # 0
  BY <1>2, <1>4, <1>5
<1> QED
  BY <1>2, <1>3, <1>4, <1>6 DEF c

\* Reduced levels are levels.
LEMMA LevelsReduced ==
    ASSUME TreasurySafe
    PROVE  reduce_clan_bonus(bonus, treasure.jewels) \in 0 .. MaxBonus
<1>1. treasure.jewels \div 4 \in Nat
  BY DEF TreasurySafe
<1> QED
  BY <1>1, TreasuryAssumption DEF TreasurySafe, reduce_clan_bonus, Smaller

\* What the rent of a period does to jewels and debt.
LEMMA RentCharged ==
    ASSUME TreasurySafe
    PROVE  LET t == Charged(treasure, reduce_clan_bonus(bonus, treasure.jewels)) IN
           /\ t \in [jewels : Nat, debt : Nat, unpaid : Int]
           /\ t.jewels = treasure.jewels /\ t.debt = Owes
<1> DEFINE levels == reduce_clan_bonus(bonus, treasure.jewels)
           step == Week \div cost(levels)
           n == treasure.unpaid \div step + 1
<1>1. step \in Nat \ {0}
  BY LevelsReduced, StepPositive
<1>2. Charged(treasure, levels) =
        IF treasure.unpaid > 300
        THEN [treasure EXCEPT !.debt = @ + n, !.unpaid = @ - step * n] ELSE treasure
  BY DEF Charged
<1>3. Owes = treasure.debt + (IF treasure.unpaid > 300 THEN n ELSE 0)
  BY DEF Owes
<1> HIDE DEF step, levels
<1>4. CASE treasure.unpaid > 300
  <2>1. n \in Nat
    BY <1>1, <1>4, Quotient DEF TreasurySafe
  <2>2. step * n \in Int
    BY <1>1, <2>1
  <2> HIDE DEF n
  <2> QED
    <3>1. Charged(treasure, levels) = [treasure EXCEPT !.debt = @ + n, !.unpaid = @ - step * n]
      BY <1>2, <1>4
    <3>2. Owes = treasure.debt + n
      BY <1>3, <1>4
    <3>3. treasure.debt + n \in Nat /\ treasure.unpaid - step * n \in Int
      BY <2>1, <2>2 DEF TreasurySafe
    <3> QED
      BY <3>1, <3>2, <3>3 DEF TreasurySafe, levels
<1>5. CASE ~(treasure.unpaid > 300)
  BY <1>2, <1>3, <1>5 DEF TreasurySafe, levels
<1> QED
  BY <1>4, <1>5

\* Paying leaves no debt a jewel could have paid.
LEMMA DebtPaid ==
    ASSUME NEW t \in [jewels : Nat, debt : Nat, unpaid : Int]
    PROVE  /\ Paid(t) \in [jewels : Nat, debt : Nat, unpaid : Int]
           /\ Paid(t).debt >= 2000 => t.debt >= 2000 + 1000 * t.jewels
<1> DEFINE n == Smaller(t.debt \div 1000, t.jewels)
<1>1. n \in Nat /\ n <= t.jewels /\ n * 1000 <= t.debt /\ (n < t.jewels => t.debt < n * 1000 + 1000)
  BY DEF Smaller
<1>2. Paid(t) = [t EXCEPT !.jewels = @ - n, !.debt = @ - n * 1000]
  BY DEF Paid
<1>3. t.jewels \in Nat /\ t.debt \in Nat /\ t.unpaid \in Int
  OBVIOUS
<1> HIDE DEF n
<1>4. t.jewels - n \in Nat /\ t.debt - n * 1000 \in Nat
  BY <1>1, <1>3
<1>5. Paid(t).debt = t.debt - n * 1000
  BY <1>2
<1>6. Paid(t) \in [jewels : Nat, debt : Nat, unpaid : Int]
  <2> DEFINE j == t.jewels - n
             d == t.debt - n * 1000
  <2>1. Paid(t) = [t EXCEPT !.jewels = j, !.debt = d]
    BY <1>2
  <2>2. j \in Nat /\ d \in Nat
    BY <1>4
  <2> HIDE DEF j, d
  <2> QED
    BY <2>1, <2>2
<1>7. t.debt - n * 1000 >= 2000 => t.debt >= 2000 + 1000 * t.jewels
  BY <1>1, <1>3
<1> QED
  BY <1>5, <1>6, <1>7

\* The treasury stays in shape, and a clan goes broke only with its jewels spent.
LEMMA TreasuryStep ==
    TreasurySafe /\ [TreasuryNext]_treasuryVars =>
        TreasurySafe' /\ (alive /\ ~alive' => 1000 * treasure.jewels + 2000 <= Owes)
<1> SUFFICES ASSUME TreasurySafe, [TreasuryNext]_treasuryVars
             PROVE  TreasurySafe' /\ (alive /\ ~alive' => 1000 * treasure.jewels + 2000 <= Owes)
  OBVIOUS
<1>1. CASE update_treasure
  <2> DEFINE levels == reduce_clan_bonus(bonus, treasure.jewels)
             t == Charged(treasure, levels)
             broke == Paid(t).debt >= 2000
  <2>1. bonus' = levels /\ treasure' = Paid(t) /\ alive' = ~broke
    BY <1>1 DEF update_treasure, Broke
  <2>2. levels \in 0 .. MaxBonus
    BY LevelsReduced
  <2>3. t \in [jewels : Nat, debt : Nat, unpaid : Int] /\ t.jewels = treasure.jewels /\ t.debt = Owes
    BY RentCharged
  <2> HIDE DEF t, levels
  <2>4. TreasurySafe'
    BY <2>1, <2>2, <2>3, DebtPaid DEF TreasurySafe
  <2>5. ~alive' => t.debt >= 2000 + 1000 * t.jewels
    <3>1. broke => t.debt >= 2000 + 1000 * t.jewels
      BY <2>3, DebtPaid
    <3>2. ASSUME ~broke PROVE alive'
      <4>1. broke = FALSE
        BY <3>2
      <4> HIDE DEF broke
      <4> QED
        BY <2>1, <4>1
    <3> QED
      BY <3>1, <3>2
  <2>6. treasure.jewels \in Nat
    BY DEF TreasurySafe
  <2> QED
    BY <2>3, <2>4, <2>5, <2>6
<1>2. CASE Raided
  <2> DEFINE cnt == Smaller(treasure.jewels - 11, 3)
  <2>1. cnt \in Nat /\ treasure' = [treasure EXCEPT !.debt = @ + cnt * 1000 + 1000] /\ UNCHANGED <<bonus, alive>>
    BY <1>2 DEF Raided, Smaller, TreasurySafe
  <2> HIDE DEF cnt
  <2> QED
    BY <2>1 DEF TreasurySafe
<1>3. CASE Won
  BY <1>3 DEF Won, TreasurySafe
<1>4. ASSUME NEW levels \in 0 .. MaxBonus, set_clan_bonus(levels)
      PROVE  TreasurySafe' /\ alive' = alive
  BY <1>4 DEF set_clan_bonus, TreasurySafe
<1>5. ASSUME NEW time \in {301, Week \div 7, 4 * Week}, Passes(time)
      PROVE  TreasurySafe' /\ alive' = alive
  <2>1. time \in Int
    BY DEF Week
  <2> QED
    BY <1>5, <2>1 DEF Passes, TreasurySafe
<1>6. CASE UNCHANGED treasuryVars
  BY <1>6 DEF treasuryVars, TreasurySafe
<1> QED
  BY <1>1, <1>2, <1>3, <1>4, <1>5, <1>6 DEF TreasuryNext

(* A clan that can pay all but two jewels of what it owes is not deleted, with *)
(* any treasure, bonuses and raids, and however long the time not paid is.     *)
THEOREM SolventStays == TreasurySpec => SolventSurvives
<1>1. TreasuryInit => TreasurySafe
  BY TreasuryAssumption DEF TreasuryInit, TreasurySafe
<1> QED
  BY <1>1, TreasuryStep, PTL DEF TreasurySpec, SolventSurvives
=============================================================================
