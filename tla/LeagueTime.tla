------------------------------- MODULE LeagueTime -------------------------------
(***************************************************************************)
(* Times a member enters on the league's clock (core/competition/           *)
(* league-time.ts): an instant is shown as the wall clock of the league's   *)
(* zone reads, and what is entered is read back to an instant with the      *)
(* zone's offset at that moment, guessed once and corrected once.           *)
(*                                                                         *)
(* A zone is its offset from UTC before and after one change of its clocks. *)
(* Time is counted in half hours; the change is at 0.                       *)
(***************************************************************************)
EXTENDS Integers

CONSTANTS
    Offsets,     \* the offsets of the zones before the change
    Shifts,      \* how far the clocks go forward (or back) at the change
    Span         \* bound: how far from the change the times are

VARIABLES
    zone,        \* [before, after]: the league's
    input,       \* the wall clock entered
    instant,     \* what it was read to last
    saved

vars == <<zone, input, instant, saved>>

Times == -Span .. Span

TypeOK ==
    /\ zone.before \in Offsets /\ zone.after - zone.before \in Shifts
    /\ input \in Int /\ instant \in Int
    /\ saved \in BOOLEAN

\* zoneOffsetMinutes: how far the zone is ahead of UTC at the instant.
ZoneOffset(z, t) == IF t < 0 THEN z.before ELSE z.after

\* toLocalInput, by wallClock.
ToLocalInput(z, t) == t + ZoneOffset(z, t)

\* fromLocalInput: the offset at the wall clock read as UTC, then at the instant that gives.
FromLocalInput(z, wall) ==
    LET first == wall - ZoneOffset(z, wall) IN
    wall - ZoneOffset(z, first)

Zones == {[before |-> o, after |-> o + s] : o \in Offsets, s \in Shifts}

Init ==
    /\ zone \in Zones /\ instant \in Times
    /\ input = ToLocalInput(zone, instant) /\ saved = FALSE

-----------------------------------------------------------------------------
\* The member enters another time, within half a day of the one shown.
Enter ==
    /\ \E wall \in Times : input' = wall + zone.before
    /\ saved' = FALSE
    /\ UNCHANGED <<zone, instant>>

Save ==
    /\ ~saved /\ saved' = TRUE
    /\ instant' = FromLocalInput(zone, input)
    /\ UNCHANGED <<zone, input>>

\* The form opens again with what was saved.
Reopen ==
    /\ saved /\ saved' = FALSE
    /\ input' = ToLocalInput(zone, instant)
    /\ UNCHANGED <<zone, instant>>

\* Another league, whose zone differs, shows the same instant.
ChangeZone ==
    /\ zone' \in Zones
    /\ input' = ToLocalInput(zone', instant) /\ saved' = FALSE
    /\ UNCHANGED instant

Next == Enter \/ Save \/ Reopen \/ ChangeZone

Spec == Init /\ [][Next]_vars

-----------------------------------------------------------------------------
\* The wall clocks a change skips, and those it shows twice.
Skipped(z, wall) == z.before <= wall /\ wall < z.after
Repeated(z, wall) == z.after <= wall /\ wall < z.before

\* A time that the clocks show is saved as a moment at which they show it, and reads the same
\* when the form opens again; one that they skip is saved, on or ahead of Greenwich, as later by
\* what they skip.  An instant that is shown once is the one saved.
TimesReadBack ==
    /\ saved /\ ~Skipped(zone, input) => ToLocalInput(zone, instant) = input
    /\ saved /\ Skipped(zone, input) /\ zone.before >= 0 =>
          ToLocalInput(zone, instant) = input + zone.after - zone.before
    /\ ~saved /\ input = ToLocalInput(zone, instant) /\ ~Repeated(zone, input) =>
          FromLocalInput(zone, input) = instant
=============================================================================
