------------------------------- MODULE TimeMath -------------------------------
(***************************************************************************)
(* How the minutes of a shift and of a trip are counted: the durations a      *)
(* closed shift is paid by (modules/shifts, packages/domain) and the totals of   *)
(* a trip (modules/drivers).  Instants are ticks of a clock, the milliseconds of    *)
(* the code, and durations are rounded to seconds of Second ticks; an open           *)
(* interval ends at Unended.                                                   *)
(***************************************************************************)
EXTENDS Integers, FiniteSets, FiniteSetsExt, Sequences, SequencesExt

CONSTANTS
  Second,     \* ticks of a second: 1000 in the code
  Horizon     \* bound: the instants the definitions are compared over are 0..Horizon

ASSUME HorizonAssumption == Horizon \in Nat /\ Second \in Nat \ {0}

Unended == -1
Instants == 0..Horizon

(* Math.round(ticks / Second): half a second goes up.                            *)
Rounded(ticks) == (2 * ticks + Second) \div (2 * Second)
---------------------------------------------------------------------------
(* mergedIntervalSeconds: in order of their starts, an interval extends the one   *)
(* being measured or starts another.  Those that start together come in any order.  *)

ByStart(intervals) ==
  CHOOSE s \in SetToSeqs(intervals) : \A i, j \in DOMAIN s : i < j => s[i].start <= s[j].start

MutSum(intervals) == Rounded(MapThenSumSet(LAMBDA i : i.end - i.start, intervals))

NoneMeasured == [total |-> 0, start |-> 0, end |-> 0]
CountedIn(m) == m.total + m.end - m.start

Absorb(m, i) ==
  IF i.start <= m.end THEN [m EXCEPT !.end = Max({m.end, i.end})]
  ELSE [total |-> CountedIn(m), start |-> i.start, end |-> i.end]

MergedSeconds(intervals) ==
  Rounded(CountedIn(FoldLeft(Absorb, NoneMeasured, ByStart({i \in intervals : i.end > i.start}))))

Clamped(t, from, to) == IF t < from THEN from ELSE IF t > to THEN to ELSE t
IsDeductible(type) == type \in {"UNPAID", "MEAL"}

ClosedIn(b, from, to) ==
  [id |-> b.id, type |-> b.type, start |-> Clamped(b.start, from, to),
   end |-> Clamped(IF b.end = Unended THEN to ELSE b.end, from, to)]

(* computeShiftDuration: a break still open is closed where the shift ends, and   *)
(* one outside the shift counts for nothing.                                   *)
ShiftDuration(from, to, breaks) ==
  LET closed == {ClosedIn(b, from, to) : b \in breaks}
      unpaid == MergedSeconds({b \in closed : IsDeductible(b.type)})
      elapsed == Rounded(to - from)
      worked == elapsed - unpaid
  IN [elapsed |-> elapsed, break |-> MergedSeconds(closed), unpaid |-> unpaid,
      worked |-> IF worked < 0 THEN 0 ELSE worked]
---------------------------------------------------------------------------
(* listPauses: the TRACKING_PAUSED and TRACKING_RESUMED events of a trip in order  *)
(* of time; a second pause before a resumption says nothing new.  Only pauses of no  *)
(* length can be alike, so that their set counts as their list does.               *)

MutRestartPause(events) ==
  LET take(p, e) ==
        IF e.type = "TRACKING_PAUSED" THEN [p EXCEPT !.since = e.at]
        ELSE IF p.since = Unended THEN p
        ELSE [pauses |-> p.pauses \cup {[start |-> p.since, end |-> e.at]}, since |-> Unended]
      last == FoldLeft(take, [pauses |-> {}, since |-> Unended], events)
  IN last.pauses \cup
       (IF last.since = Unended THEN {} ELSE {[start |-> last.since, end |-> Unended]})

NeverPaused == [pauses |-> {}, since |-> Unended]

Heard(p, e) ==
  IF e.type = "TRACKING_PAUSED"
    THEN IF p.since = Unended THEN [p EXCEPT !.since = e.at] ELSE p
  ELSE IF p.since = Unended THEN p
  ELSE [pauses |-> p.pauses \cup {[start |-> p.since, end |-> e.at]}, since |-> Unended]

ListPauses(events) ==
  LET last == FoldLeft(Heard, NeverPaused, events)
  IN last.pauses \cup
       (IF last.since = Unended THEN {} ELSE {[start |-> last.since, end |-> Unended]})

PausedWithin(p, from, to) ==
  LET end == IF p.end = Unended THEN to ELSE p.end
  IN Max({0, Rounded(Min({end, to}) - Max({p.start, from}))})

(* computeTripTotals: pauses are summed, not merged, and each is rounded.           *)
TripTotals(from, to, pauses, gap) ==
  LET paused == MapThenSumSet(LAMBDA p : PausedWithin(p, from, to), pauses)
      elapsed == Rounded(to - from)
      running == Max({0, elapsed - paused})
  IN [elapsed |-> elapsed, paused |-> paused, duration |-> running,
      untracked |-> Min({gap, running})]
---------------------------------------------------------------------------
(* What the durations have to be, tick by tick, over the bounded instants.          *)

Breaks == {b \in [id : Nat, start : Instants, end : Instants \cup {Unended},
                  type : {"PAID", "UNPAID", "MEAL"}] :
             b.end = Unended \/ b.start <= b.end}
Pauses == [type : {"TRACKING_PAUSED", "TRACKING_RESUMED"}, at : Instants]

(* The ticks of a shift that some break of a set covers, counted one by one.         *)
CoveredTicks(from, to, breaks) ==
  Cardinality({t \in from..(to - 1) :
                 \E b \in breaks : b.start <= t /\ (b.end = Unended \/ t < b.end)})

(* A tick of break is counted once, however the rows overlap, nest, touch, lie          *)
(* outside the shift, repeat each other row for row or were never closed, and what    *)
(* was counted is rounded once, in the end; no shift is shorter than its deduction.    *)
BreaksCountOnce(breaks) ==
  \A from, to \in Instants : from <= to =>
    LET d == ShiftDuration(from, to, breaks) IN
    /\ d.break = Rounded(CoveredTicks(from, to, breaks))
    /\ d.unpaid = Rounded(CoveredTicks(from, to, {x \in breaks : IsDeductible(x.type)}))
    /\ d.worked + d.unpaid = d.elapsed

(* A trip was paused at t when a pause had been logged by then and no resumption    *)
(* since that pause.                                                          *)
PausedAt(events, t) ==
  \E i \in DOMAIN events :
    /\ events[i].type = "TRACKING_PAUSED" /\ events[i].at <= t
    /\ \A j \in DOMAIN events :
         j > i /\ events[j].at <= t => events[j].type = "TRACKING_PAUSED"

(* So many seconds are those ticks, rounded so many times, by half a second at most.   *)
RoundedFrom(seconds, ticks, times) ==
  /\ 2 * (Second * seconds) <= 2 * ticks + Second * times
  /\ 2 * ticks <= 2 * (Second * seconds) + Second * times

(* Summing the pauses of a trip never counts a tick twice, because the log they are    *)
(* read from yields disjoint ones: the trip shows as paused what it was paused, but     *)
(* for half a second a pause, and as running the rest, but for half a second more.       *)
PausesCountOnce(events) ==
  \A from, to \in Instants : from <= to =>
    LET pauses == ListPauses(events)
        d == TripTotals(from, to, pauses, Horizon)
        paused == Cardinality({t \in from..(to - 1) : PausedAt(events, t)})
    IN /\ RoundedFrom(d.paused, paused, Cardinality(pauses))
       /\ RoundedFrom(d.duration, to - from - paused, Cardinality(pauses) + 1)
       /\ d.untracked <= d.duration

(* Running and paused seconds make up the elapsed ones: not so, since every pause is     *)
(* rounded by itself.  Two of half a second in a trip of one are two seconds of pause.     *)
PausesPartition(events) ==
  \A from, to \in Instants : from <= to =>
    LET d == TripTotals(from, to, ListPauses(events), Horizon) IN
    d.paused + d.duration = d.elapsed
=============================================================================
