-------------------------------- MODULE Timers --------------------------------
(***************************************************************************)
(* timer.c: a list of timers sorted by the tick they are due; a tick fires *)
(* the due ones from the front, and a callback may set new ones meanwhile. *)
(* The callbacks' own rule (timer.c:38) is an assumption here: what they   *)
(* set is due after the current tick.                                      *)
(***************************************************************************)
EXTENDS Integers, Sequences, SequencesExt

CONSTANTS Alarms, LastTick

ASSUME TimersAssumption == LastTick \in Nat

VARIABLES next_t, used_timers, ticker, firing, fired
timerVars == <<next_t, used_timers, ticker, firing, fired>>

\* firing: how many timers of the list this tick has fired, or -1 between ticks.
Resting == -1

TimersInit ==
    /\ next_t = <<>> /\ used_timers = 0
    /\ ticker = 0 /\ firing = Resting
    /\ fired = <<>>                     \* a history: what was called, and when

Unset == Alarms \ ({t.id : t \in ToSet(next_t)} \cup {t.id : t \in ToSet(fired)})

\* A mutant: behind all that are due later, too.
PlaceAtEnd(due) == Len(next_t) + 1
\* The first place that is not due before.
Position(due) ==
    CHOOSE n \in 1 .. Len(next_t) + 1 :
        /\ \A m \in 1 .. n - 1 : next_t[m].due < due
        /\ n <= Len(next_t) => next_t[n].due >= due

set_timer(a, due) ==
    /\ a \in Unset
    /\ firing # Resting => due > ticker
    /\ next_t' = InsertAt(next_t, Position(due), [id |-> a, due |-> due])
    /\ used_timers' = used_timers + 1
    /\ UNCHANGED <<ticker, firing, fired>>

NextTick ==
    /\ firing = Resting /\ ticker < LastTick
    /\ ticker' = ticker + 1 /\ firing' = 0
    /\ UNCHANGED <<next_t, used_timers, fired>>

\* One callback: the list is walked while it grows.
Fire ==
    /\ firing # Resting /\ firing < Len(next_t) /\ next_t[firing + 1].due <= ticker
    /\ fired' = Append(fired, [id |-> next_t[firing + 1].id, due |-> next_t[firing + 1].due, at |-> ticker])
    /\ firing' = firing + 1
    /\ used_timers' = used_timers - 1
    /\ UNCHANGED <<next_t, ticker>>

\* What was fired goes to the free list, the rest is the list.
TickDone ==
    /\ firing # Resting
    /\ firing < Len(next_t) => next_t[firing + 1].due > ticker
    /\ next_t' = SubSeq(next_t, firing + 1, Len(next_t))
    /\ firing' = Resting
    /\ UNCHANGED <<used_timers, ticker, fired>>

TimersNext ==
    \/ NextTick \/ Fire \/ TickDone
    \/ \E a \in Alarms, due \in 0 .. LastTick : set_timer(a, due)

TimersSpec == TimersInit /\ [][TimersNext]_timerVars

-----------------------------------------------------------------------------
\* Every timer is called once, in the first tick that ends with it due: none is
\* called early or twice, none is dropped with those that were fired, and the
\* count of used ones is right whenever a tick is over.
TimersKeep ==
    /\ IsInjective([n \in DOMAIN fired |-> fired[n].id])
    /\ \A n \in DOMAIN fired : fired[n].due <= fired[n].at
    /\ firing = Resting =>
          /\ used_timers = Len(next_t)
          /\ \A n \in DOMAIN next_t : next_t[n].due > ticker \/ next_t[n].id \notin {f.id : f \in ToSet(fired)}
    /\ \A n \in DOMAIN fired : \A m \in DOMAIN fired :
          n < m /\ fired[n].at = fired[m].at => fired[n].due <= fired[m].due
=============================================================================
