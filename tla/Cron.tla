-------------------------------- MODULE Cron --------------------------------
(* The background cleanup's clock (internal/schedule/cleanup.go): a five-    *)
(* field crontab expression is parsed, the next time that matches it is      *)
(* searched for step by step, a cleanup pass runs then, and again.           *)
(*                                                                           *)
(* Time is counted in minutes of UTC.  The calendar is a small one: the      *)
(* lengths of hours, days, months and weeks are parameters.  The local clock *)
(* is a whole number of hours ahead of UTC and has no daylight saving; being *)
(* behind UTC by n hours is being ahead by a day less n, but for the date.   *)
EXTENDS Integers, Sequences, FiniteSetsExt

CONSTANTS
  Exprs,           \* expressions: five fields, each a sequence of parts
  Zones,           \* hours by which the local clock may be ahead of UTC
  Starts,          \* minutes at which the server may be started
  MinutesPerHour, HoursPerDay, DaysPerWeek,
  DaysBefore,      \* a year's days before each month, and all of them at the end
  LongestMonth,    \* the last day a day-of-month field may name, 31 in the source
  SearchDays,      \* how far next looks ahead, 4 * 365 in the source
  MaxDelay,        \* bound: minutes by which a pass may end late
  MaxPasses        \* bound: cleanup passes

ASSUME CalendarAssumption ==
  /\ MinutesPerHour \in Nat \ {0} /\ HoursPerDay \in Nat \ {0} /\ DaysPerWeek \in Nat \ {0}
  /\ DaysBefore \in Seq(Nat) /\ Len(DaysBefore) > 1 /\ DaysBefore[1] = 0
  /\ \A m, n \in 1 .. Len(DaysBefore) : m < n => DaysBefore[m] < DaysBefore[n]
  /\ LongestMonth \in Nat \ {0} /\ Zones \subseteq 0 .. HoursPerDay - 1
ASSUME SearchAssumption ==
  /\ Starts \subseteq Nat /\ SearchDays \in Nat \ {0} /\ MaxDelay \in Nat /\ MaxPasses \in Nat

VARIABLES
  expr, zone,  \* the configuration
  pc,          \* "parse", "idle", "search", "wait", or how it ended
  sched,       \* the parsed fields: minute, hour, day of month, month, weekday
  now,         \* time.Now() when the search began
  t, limit,    \* the search
  passes       \* cleanup passes run

vars == <<expr, zone, pc, sched, now, t, limit, passes>>

(***************************************************************************)
(* Parsing.  A part is "*", a number, a range, or one of these with a step.*)
(* No accepted part is empty: {} stands for an error.                      *)
(***************************************************************************)
Span == [form : {"range"}, lo : Int, hi : Int]
Plain == [form : {"star"}] \cup [form : {"lit"}, n : Int]
Part == Plain \cup Span \cup [form : {"step"}, base : Plain \cup Span, step : Int]

\* strings.Split always gives a part.
ASSUME ExprsAssumption == \A e \in Exprs : \A i \in 1 .. 5 : e[i] \in Seq(Part) \ {<<>>}

\* Mutant: the upper end of a range is not checked.
parseRangeOpen(p, min, max) == IF p.lo < min \/ p.lo > p.hi THEN {} ELSE p.lo .. p.hi

parseRange(p, min, max) ==
  IF p.lo < min \/ p.hi > max \/ p.lo > p.hi THEN {} ELSE p.lo .. p.hi

parseLiteralPart(p, min, max) == {p.n} \cap (min .. max)
parseWildcardPart(min, max) == min .. max

\* From the first value in steps of p.step, which counts from 1.
parseStepPart(p, min, max) ==
  LET base == IF p.base.form = "star" THEN min .. max ELSE parseRange(p.base, min, max) IN
  IF p.step <= 0 THEN {} ELSE {v \in base : \E k \in 0 .. max : v = Min(base) + k * p.step}

parseFieldPart(p, min, max) ==
  CASE p.form = "step"  -> parseStepPart(p, min, max)
    [] p.form = "range" -> parseRange(p, min, max)
    [] p.form = "star"  -> parseWildcardPart(min, max)
    [] p.form = "lit"   -> parseLiteralPart(p, min, max)

\* parseRange indexes the second half of a text without "-": "5/10" panics.
Panics(p) == p.form = "step" /\ p.base.form = "lit" /\ p.step > 0

\* The bounds of each field.
Bounds == <<[min |-> 0, max |-> MinutesPerHour - 1], [min |-> 0, max |-> HoursPerDay - 1],
            [min |-> 1, max |-> LongestMonth], [min |-> 1, max |-> Len(DaysBefore) - 1],
            [min |-> 0, max |-> DaysPerWeek - 1]>>

\* What a part comes to: "panic", "error" or "ok".
Verdict(i, p) ==
  IF Panics(p) THEN "panic"
  ELSE IF parseFieldPart(p, Bounds[i].min, Bounds[i].max) = {} THEN "error" ELSE "ok"

parseField(i, parts) ==
  UNION {parseFieldPart(parts[k], Bounds[i].min, Bounds[i].max) : k \in DOMAIN parts}

\* Fields and parts are parsed from left to right and the first failure stands.
Accepted(i, k) == Verdict(i, expr[i][k]) = "ok"
FirstFailure(i, k) ==
  /\ ~ Accepted(i, k)
  /\ \A j \in 1 .. i : \A l \in DOMAIN expr[j] : j < i \/ l < k => Accepted(j, l)

Init ==
  /\ expr \in Exprs /\ zone \in Zones /\ now \in Starts
  /\ pc = "parse" /\ sched = <<>> /\ t = 0 /\ limit = 0 /\ passes = 0

parseCron ==
  /\ pc = "parse"
  /\ \/ /\ \A i \in 1 .. 5 : \A k \in DOMAIN expr[i] : Accepted(i, k)
        /\ pc' = "idle" /\ sched' = [i \in 1 .. 5 |-> parseField(i, expr[i])]
     \/ \E i \in 1 .. 5 : \E k \in DOMAIN expr[i] :
          FirstFailure(i, k) /\ pc' = Verdict(i, expr[i][k]) /\ UNCHANGED sched
  /\ UNCHANGED <<expr, zone, now, t, limit, passes>>

(***************************************************************************)
(* The calendar.                                                           *)
(***************************************************************************)
DayLength == MinutesPerHour * HoursPerDay
Local(u) == u + zone * MinutesPerHour
Day(u) == Local(u) \div DayLength                 \* days since the epoch
Minute(u) == Local(u) % MinutesPerHour
Hour(u) == (Local(u) \div MinutesPerHour) % HoursPerDay
Weekday(u) == Day(u) % DaysPerWeek

Months == 1 .. Len(DaysBefore) - 1
MonthDays(m) == DaysBefore[m + 1] - DaysBefore[m]
DayOfYear(u) == Day(u) % DaysBefore[Len(DaysBefore)]
Month(u) == Max({m \in Months : DaysBefore[m] <= DayOfYear(u)})
DayOfMonth(u) == DayOfYear(u) - DaysBefore[Month(u)] + 1

\* time.Truncate works on absolute time: midnight is that of UTC.
TruncateHour(u) == u - (u % MinutesPerHour)
TruncateDay(u) == u - (u % DayLength)

(***************************************************************************)
(* The search.                                                             *)
(***************************************************************************)
\* StartCleanup takes the time; next starts one minute on.
BeginSearch ==
  /\ pc = "idle" /\ passes < MaxPasses
  /\ t' = now + 1 /\ limit' = t' + SearchDays * DayLength
  /\ pc' = "search"
  /\ UNCHANGED <<expr, zone, sched, now, passes>>

\* Mutant: the month is not advanced.
nextMonthSame(u) == (Day(u) - DayOfMonth(u) + 1) * DayLength - zone * MinutesPerHour

\* The first local minute of the next month.
nextMonth(u) ==
  (Day(u) - DayOfMonth(u) + 1 + MonthDays(Month(u))) * DayLength - zone * MinutesPerHour

\* Mutant: the hours that are left of the day are carried into the next one.
nextDayKept(u) == u + DayLength

nextDay(u) == TruncateDay(u + DayLength)

nextHour(u) == TruncateHour(u) + MinutesPerHour

\* One turn of the loop.
next ==
  /\ pc = "search"
  /\ \/ t >= limit /\ t' = limit /\ pc' = "wait"
     \/ /\ t < limit
        /\ IF Month(t) \notin sched[4] THEN t' = nextMonth(t) /\ UNCHANGED pc
           ELSE IF DayOfMonth(t) \notin sched[3] \/ Weekday(t) \notin sched[5]
           THEN t' = nextDay(t) /\ UNCHANGED pc
           ELSE IF Hour(t) \notin sched[2] THEN t' = nextHour(t) /\ UNCHANGED pc
           ELSE IF Minute(t) \notin sched[1] THEN t' = t + 1 /\ UNCHANGED pc
           ELSE pc' = "wait" /\ UNCHANGED t
  /\ UNCHANGED <<expr, zone, sched, now, limit, passes>>

\* The timer goes off and CleanExpired runs, for a while.
Pass ==
  /\ pc = "wait"
  /\ \E delay \in 0 .. MaxDelay : now' = t + delay
  /\ pc' = "idle" /\ passes' = passes + 1
  /\ UNCHANGED <<expr, zone, sched, t, limit>>

\* ctx.Done.
Stop ==
  /\ pc = "wait" /\ pc' = "stopped"
  /\ UNCHANGED <<expr, zone, sched, now, t, limit, passes>>

StartCleanup == BeginSearch \/ next \/ Pass \/ Stop
Next == parseCron \/ StartCleanup

Spec == Init /\ [][Next]_vars
FairSpec == Spec /\ WF_vars(next)

(***************************************************************************)
(* What is checked.                                                        *)
(***************************************************************************)
\* Types; every accepted field has values, all within the field's bounds, so that
\* each of the comparisons in next can succeed.
TypeOK ==
  /\ expr \in Exprs /\ zone \in Zones
  /\ pc \in {"parse", "idle", "search", "wait", "error", "panic", "stopped"}
  /\ now \in Nat /\ t \in Nat /\ limit \in Nat /\ passes \in 0 .. MaxPasses
  /\ pc \in {"idle", "search", "wait", "stopped"} =>
       \A i \in 1 .. 5 : sched[i] # {} /\ sched[i] \subseteq Bounds[i].min .. Bounds[i].max

\* The reference: what the expression says of a minute.
Matches(u) ==
  /\ Minute(u) \in sched[1] /\ Hour(u) \in sched[2] /\ DayOfMonth(u) \in sched[3]
  /\ Month(u) \in sched[4] /\ Weekday(u) \in sched[5]

\* Is the local time of u before that of UTC's midnight?
BeforeUTCMidnight(u) == Local(u) % DayLength < zone * MinutesPerHour

\* next's comment: "the next time after 'from' that matches the schedule".  Leaping
\* over months, days and hours, the search stops at a later minute that matches, or
\* at its limit, and has passed no matching minute, with one exception: where local
\* time is not UTC, the leap to the next day lands on UTC's midnight, and the minutes
\* of the local day before that are passed over.
OnSchedule ==
  pc = "wait" =>
    /\ t > now /\ (Matches(t) \/ t = limit)
    /\ \A u \in now + 1 .. t - 1 : Matches(u) => BeforeUTCMidnight(u)

\* Every search comes to an end, for a schedule that no day satisfies too.
SearchEnds == pc = "search" ~> pc # "search"
=============================================================================
