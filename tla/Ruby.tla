-------------------------------- MODULE Ruby --------------------------------
(***************************************************************************)
(* sidestory.c: Ruby, a lady who wanders the areas.  In each she asks the  *)
(* visitor for a favour, in a story of her own: a table of lines, of which *)
(* the first that fits the state of the story is said.  At her house in    *)
(* Aston she trades the favours for a weapon and forgets everything.       *)
(*                                                                         *)
(* A line: at is the state it is for, test and of say when it fits,        *)
(* answers are the states the answers lead to, next the state it leads to  *)
(* by itself (0: none).                                                    *)
(***************************************************************************)
EXTENDS Integers, Sequences, FiniteSets, FiniteSetsExt

CONSTANTS Visitors, MaxWeapons

VARIABLES stage, quiet, attention, favours, parlour, offer, weapons, tour
rubyVars == <<stage, quiet, attention, favours, parlour, offer, weapons, tour>>

Line(at, test, of, answers, next) ==
    [at |-> at, test |-> test, of |-> of, answers |-> answers, next |-> next]
Asks(at, answers) == Line(at, "always", {}, answers, 0)
Without(at, favour, answers) == Line(at, "notset", favour, answers, 0)
With(at, favour, answers) == Line(at, "isset", favour, answers, 0)
Awaits(at, item, next) == Line(at, "item", {item}, {}, next)
Thanks(at, favour, next) == Line(at, "sets", favour, {}, next)
Farewell(at) == Asks(at, {})

Shrooms == {"ghestroz", "hangot", "ivnan"}

Ruby2 == <<Asks(0, {1}), Asks(1, {2}), Asks(2, {3, 20}), Asks(3, {4, 20}), Asks(4, {5, 20}),
           Awaits(5, "skull", 6), Thanks(6, {"skull"}, 0), Farewell(20)>>
Ruby5 == <<Without(0, {"skull"}, {1}), With(0, {"skull"}, {2}), Asks(1, {3}), Asks(2, {3}),
           Asks(3, {4, 20}), Without(4, {"ghestroz"}, {5, 20}), Without(4, {"hangot"}, {6, 20}),
           Without(4, {"ivnan"}, {7, 20}), Awaits(5, "ghestroz", 8), Awaits(6, "hangot", 9),
           Awaits(7, "ivnan", 10), Thanks(8, {"ghestroz"}, 11), Thanks(9, {"hangot"}, 11),
           Thanks(10, {"ivnan"}, 11), Without(11, Shrooms, {4, 20}), With(11, Shrooms, {}),
           Farewell(20)>>
Simple(item) == <<Asks(0, {1}), Asks(1, {2, 20}), Awaits(2, item, 3), Thanks(3, {item}, 0), Farewell(20)>>
Ruby6 == Simple("orange crystal")
Ruby8 == Simple("red crystal")
Ruby10 == Simple("scroll")
Ruby11 == <<Asks(0, {1}), Asks(1, {2, 20}), Asks(2, {3, 21}), Asks(3, {4, 21}),
            Awaits(4, "ring", 5), Thanks(5, {"ring"}, 0), Farewell(20), Farewell(21)>>
Ruby12 == Simple("torch")
Ruby15 == Simple("head")
Ruby16 == <<Asks(0, {1}), Asks(1, {2, 20}), Asks(2, {3, 20}), Awaits(3, "spade", 4),
            Thanks(4, {"spade"}, 0), Farewell(20)>>
Ruby17 == <<Asks(0, {1}), Asks(1, {2, 3}), Thanks(2, {"recipe"}, 0), Thanks(3, {"wrong recipe"}, 0)>>

Story(area) ==
    CASE area = 2 -> Ruby2 [] area = 5 -> Ruby5 [] area = 6 -> Ruby6 [] area = 8 -> Ruby8
      [] area = 10 -> Ruby10 [] area = 11 -> Ruby11 [] area = 12 -> Ruby12
      [] area = 15 -> Ruby15 [] area = 16 -> Ruby16 [] area = 17 -> Ruby17

StoryAreas == {2, 5, 6, 8, 10, 11, 12, 15, 16, 17}

\* What the favours are worth to her.
Twenties == {"orange crystal", "red crystal", "scroll", "torch", "head", "spade", "recipe"}
Counted(v, S) == Cardinality(favours[v] \cap S)
Debt(v) ==
    10 * Counted(v, Shrooms) + 20 * Counted(v, Twenties)
      + 40 * Counted(v, {"skull"}) + 50 * Counted(v, {"ring"})
Enough == 30

Fits(v, l) ==
    CASE l.test = "sets" -> ~(l.of \subseteq favours[v])
      [] l.test = "isset" -> l.of \subseteq favours[v]
      [] l.test = "notset" -> ~(l.of \subseteq favours[v])
      [] OTHER -> TRUE

\* The lines for the state the story has reached, and the first of them.
Suited(v, a) == {i \in DOMAIN Story(a) : Story(a)[i].at = stage[v][a] /\ Fits(v, Story(a)[i])}
Spoken(v, a) == Story(a)[Min(Suited(v, a))]

RubyInit ==
    /\ stage = [v \in Visitors |-> [a \in tour |-> 0]]
    /\ quiet = [v \in Visitors |-> [a \in tour |-> "no"]]
    /\ attention = [a \in tour |-> {}]
    /\ favours = [v \in Visitors |-> {}]
    /\ parlour = [v \in Visitors |-> 0]
    /\ offer = [v \in Visitors |-> 0]
    /\ weapons = [v \in Visitors |-> 0]

\* She notices a visitor: a question keeps her silent for a minute, a line
\* that waits for something until she is told to repeat herself.
DoStory(v, a) ==
    /\ attention[a] \subseteq {v} /\ quiet[v][a] = "no"
    /\ IF Suited(v, a) = {}
       THEN quiet' = [quiet EXCEPT ![v][a] = "done"] /\ UNCHANGED <<stage, attention, favours>>
       ELSE LET l == Spoken(v, a)
                goesOn == l.answers = {} /\ l.next # 0 /\ l.test # "item"
            IN /\ favours' = IF l.test = "sets" THEN [favours EXCEPT ![v] = @ \cup l.of] ELSE favours
               /\ stage' = IF goesOn THEN [stage EXCEPT ![v][a] = l.next] ELSE stage
               /\ quiet' = [quiet EXCEPT ![v][a] =
                     IF l.answers # {} THEN "minute" ELSE IF goesOn THEN "no" ELSE "done"]
               /\ attention' = [attention EXCEPT ![a] = IF l.answers # {} \/ goesOn THEN {v} ELSE {}]
    /\ UNCHANGED <<parlour, offer, weapons>>

\* The visitor gives one of the answers of a line that fits.
HearStory(v, a) ==
    /\ \E i \in Suited(v, a) : \E next \in Story(a)[i].answers :
           stage' = [stage EXCEPT ![v][a] = next]
    /\ quiet' = [quiet EXCEPT ![v][a] = "no"]
    /\ UNCHANGED <<attention, favours, parlour, offer, weapons>>

SayRepeat(v, a) ==
    /\ quiet' = [quiet EXCEPT ![v][a] = "no"]
    /\ UNCHANGED <<stage, attention, favours, parlour, offer, weapons>>

\* The visitor hands her the item the story waits for; she keeps it.
GiveStory(v, a, item) ==
    /\ \E i \in DOMAIN Story(a) :
          /\ Story(a)[i].at = stage[v][a] /\ Story(a)[i].test = "item" /\ item \in Story(a)[i].of
          /\ stage' = [stage EXCEPT ![v][a] = Story(a)[i].next]
    /\ quiet' = [quiet EXCEPT ![v][a] = "no"]
    /\ UNCHANGED <<attention, favours, parlour, offer, weapons>>

\* A minute passes, or the visitor goes away.
RubyWaits(a) ==
    /\ \/ attention' = [attention EXCEPT ![a] = {}] /\ UNCHANGED quiet
       \/ \E v \in Visitors : /\ quiet[v][a] = "minute"
                              /\ quiet' = [quiet EXCEPT ![v][a] = "no"] /\ UNCHANGED attention
    /\ UNCHANGED <<stage, favours, parlour, offer, weapons>>

\* Her house: what she does in state s when she sees the visitor.
Bargain(v, s) ==
    CASE s = 0 -> {IF Debt(v) >= Enough THEN 3 ELSE 1}
      [] s = 2 -> {IF Debt(v) >= Enough THEN 0 ELSE 2}
      [] s = 4 -> {0, 5}
      [] s \in {7, 9, 12, 14} -> {s}
      [] OTHER -> {s + 1}

\* Five minutes without her make her start over.
RubyAston(v) ==
    \E s \in {0, parlour[v]} :
        /\ s # 15
        /\ \E next \in Bargain(v, s) : parlour' = [parlour EXCEPT ![v] = next]
        /\ offer' = IF s = 11 THEN [offer EXCEPT ![v] = Debt(v)] ELSE offer
        /\ UNCHANGED <<stage, quiet, attention, favours, weapons>>

\* A mutant: the bargain is not closed.
ForgetFavours(v) ==
    /\ favours' = [favours EXCEPT ![v] = {}]
    /\ stage' = [stage EXCEPT ![v] = [a \in tour |-> 0]]
    /\ quiet' = [quiet EXCEPT ![v] = [a \in tour |-> "no"]]
    /\ UNCHANGED parlour
\* She hands over the weapon and forgets all about the visitor, also when the
\* weapon does not fit into a full inventory and is lost.
Forget(v) ==
    /\ favours' = [favours EXCEPT ![v] = {}]
    /\ stage' = [stage EXCEPT ![v] = [a \in tour |-> 0]]
    /\ quiet' = [quiet EXCEPT ![v] = [a \in tour |-> "no"]]
    /\ parlour' = [parlour EXCEPT ![v] = 0]
RubyPays(v) ==
    /\ parlour[v] = 15
    /\ weapons[v] < MaxWeapons
    /\ \E full \in BOOLEAN : weapons' = IF full THEN weapons ELSE [weapons EXCEPT ![v] = @ + 1]
    /\ Forget(v)
    /\ UNCHANGED <<attention, offer>>

RubyAstonText(v) ==
    /\ \/ parlour[v] \in {7, 9} /\ parlour' = [parlour EXCEPT ![v] = @ + 1]
       \/ parlour[v] = 12 /\ \E next \in {13, 15} : parlour' = [parlour EXCEPT ![v] = next]
       \/ parlour' = [parlour EXCEPT ![v] = 0]
    /\ UNCHANGED <<stage, quiet, attention, favours, offer, weapons>>

RubyNext ==
    /\ UNCHANGED tour
    /\ \/ \E v \in Visitors : RubyAston(v) \/ RubyPays(v) \/ RubyAstonText(v)
       \/ \E a \in tour : \/ RubyWaits(a)
                          \/ \E v \in Visitors : \/ DoStory(v, a) \/ HearStory(v, a) \/ SayRepeat(v, a)
                                                 \/ \E item \in Shrooms \cup {"skull", "orange crystal",
                                                        "red crystal", "scroll", "ring", "torch",
                                                        "head", "spade"} : GiveStory(v, a, item)

RubySpec == RubyInit /\ tour \subseteq StoryAreas /\ [][RubyNext]_rubyVars

-----------------------------------------------------------------------------
\* Who bargains with Ruby has done her enough favours, and what she offers is
\* no better than what she owes: a bargain is only opened for enough favours,
\* is left alone by the stories that go on elsewhere meanwhile, and a payment
\* forgets the favours it was for together with the stories that led to them.
RubyOwes ==
    \A v \in Visitors : /\ parlour[v] >= 3 => Debt(v) >= Enough
                        /\ parlour[v] >= 12 => offer[v] <= Debt(v)

\* The stories and the favours agree: a story past its thanks has its favour.
RubyKnows ==
    \A v \in Visitors : \A a \in tour : \A i \in DOMAIN Story(a) :
        (/\ Story(a)[i].test = "sets"
         /\ quiet[v][a] = "done" /\ stage[v][a] = Story(a)[i].at)
            => Story(a)[i].of \subseteq favours[v]

\* What Ruby gives is earned, and what was earned she knows.
RubyFair == RubyOwes /\ RubyKnows
=============================================================================
