----------------------------- MODULE CronProofs -----------------------------
(***************************************************************************)
(* Proofs about Cron, for every calendar, zone and expression.             *)
(*                                                                         *)
(* The search is right because no leap passes over a minute that matches:  *)
(* the minutes it leaps over are in the same hour, day or month as the one *)
(* it leaps from, whose hour, day or month does not match.  The leap over  *)
(* a day is the exception, it may end in the next local day, before the    *)
(* midnight of UTC.  That every day is in a month rests on induction over  *)
(* the table of months, in the form of the least number principle.         *)
(***************************************************************************)
EXTENDS Cron, WellFoundedInduction, TLAPS

-----------------------------------------------------------------------------
(* Arithmetic.                                                             *)

\* Every set of natural numbers has a least element, unless it is empty.
LEMMA Least ==
  ASSUME NEW T \in SUBSET Nat, T # {}
  PROVE  \E x \in T : \A y \in T : x <= y
  <1>1. \E x \in T : \A y \in T : ~ (<<y, x>> \in OpToRel(<, Nat))
    BY NatLessThanWellFounded, WFMin, Zenon
  <1>2. ASSUME NEW x \in Nat, NEW y \in Nat, <<y, x>> \notin OpToRel(<, Nat)
        PROVE  x <= y
    BY <1>2 DEF OpToRel
  <1> QED
    BY <1>1, <1>2

\* Division with remainder.
LEMMA Divided ==
  ASSUME NEW x \in Nat, NEW M \in Nat \ {0}
  PROVE  /\ x \div M \in Nat /\ x % M \in 0 .. M - 1
         /\ x = (x \div M) * M + (x % M)
  OBVIOUS

LEMMA Quotient ==
  ASSUME NEW q \in Nat, NEW M \in Nat \ {0}, NEW r \in 0 .. M - 1, NEW x, x = q * M + r
  PROVE  x \div M = q /\ x % M = r /\ x \in Nat
  OBVIOUS

LEMMA Times ==
  ASSUME NEW a \in Int, NEW b \in Int, NEW M \in Nat, a <= b
  PROVE  a * M <= b * M /\ a * M \in Int /\ b * M \in Int
  OBVIOUS

LEMMA Distributes ==
  ASSUME NEW a \in Int, NEW b \in Int, NEW M \in Int
  PROVE  (a + b) * M = a * M + b * M /\ (a + 1) * M = a * M + M /\ (a - 1) * M = a * M - M
  OBVIOUS

-----------------------------------------------------------------------------
(* The calendar.                                                           *)

\* The local clock is less than a day ahead.
LEMMA ZoneShift ==
  ASSUME zone \in Zones
  PROVE  /\ MinutesPerHour \in Nat \ {0} /\ HoursPerDay \in Nat \ {0} /\ DayLength \in Nat \ {0}
         /\ zone \in Nat /\ zone * MinutesPerHour \in Nat /\ zone * MinutesPerHour < DayLength
         /\ MinutesPerHour <= DayLength
  <1> USE CalendarAssumption
  <1>1. /\ MinutesPerHour \in Nat \ {0} /\ HoursPerDay \in Nat \ {0}
        /\ zone \in Nat /\ zone <= HoursPerDay - 1
    OBVIOUS
  <1> HIDE CalendarAssumption
  <1>2. zone * MinutesPerHour <= (HoursPerDay - 1) * MinutesPerHour
    BY <1>1, Times
  <1>3. (HoursPerDay - 1) * MinutesPerHour = HoursPerDay * MinutesPerHour - MinutesPerHour
    BY <1>1, Distributes
  <1>4. HoursPerDay * MinutesPerHour = MinutesPerHour * HoursPerDay /\ HoursPerDay * MinutesPerHour \in Nat
    BY <1>1
  <1>5. zone * MinutesPerHour \in Nat
    BY <1>1
  <1> QED
    BY <1>1, <1>2, <1>3, <1>4, <1>5 DEF DayLength

\* The hours of UTC and of the local clock begin together.
LEMMA HourKept ==
  ASSUME zone \in Zones, NEW s \in Nat, NEW u \in Nat, s <= u, u < nextHour(s)
  PROVE  Hour(u) = Hour(s)
  <1> DEFINE M == MinutesPerHour
             q == s \div M
  <1>1. M \in Nat \ {0} /\ zone \in Nat
    BY ZoneShift
  <1>2. q \in Nat /\ s % M \in 0 .. M - 1 /\ s = q * M + (s % M)
    BY <1>1, Divided
  <1>3. nextHour(s) = s - (s % M) + M
    BY DEF nextHour, TruncateHour
  <1>4. (q + zone) * M = q * M + zone * M /\ q * M \in Nat /\ zone * M \in Nat /\ q + zone \in Nat
    BY <1>1, <1>2, Distributes
  <1> HIDE DEF M, q
  <1>5. u - q * M \in 0 .. M - 1 /\ u + zone * M = (q + zone) * M + (u - q * M)
    BY <1>1, <1>2, <1>3, <1>4
  <1>6. s + zone * M = (q + zone) * M + (s % M)
    BY <1>1, <1>2, <1>4
  <1>7. PICK p \in Nat : p = q + zone
    BY <1>4
  <1>8. PICK r \in 0 .. M - 1 : r = u - q * M
    BY <1>5
  <1>9. u + zone * M = p * M + r /\ s + zone * M = p * M + (s % M)
    BY <1>5, <1>6, <1>7, <1>8
  <1>10. (u + zone * M) \div M = p /\ (s + zone * M) \div M = p
    BY <1>1, <1>2, <1>9, Quotient
  <1> QED
    BY <1>10 DEF Hour, Local, M

\* The leap to the next day stays in the local day, or ends before UTC's midnight.
LEMMA DayKept ==
  ASSUME zone \in Zones, NEW s \in Nat, NEW u \in Nat, s <= u, u < nextDay(s)
  PROVE  Day(u) = Day(s) \/ BeforeUTCMidnight(u)
  <1> DEFINE D == DayLength
             z == zone * MinutesPerHour
             q == s \div D
  <1>1. D \in Nat \ {0} /\ z \in Nat /\ z < D
    BY ZoneShift
  <1>2. q \in Nat /\ s % D \in 0 .. D - 1 /\ s = q * D + (s % D)
    BY <1>1, Divided
  <1>3. (q + 1) * D = q * D + D /\ q * D \in Nat /\ q + 1 \in Nat
    BY <1>1, <1>2, Distributes
  <1>4. nextDay(s) = (s + D) - ((s + D) % D)
    BY <1>1 DEF nextDay, TruncateDay
  <1> HIDE DEF D, q, z
  <1>5. nextDay(s) = q * D + D
    <2>1. PICK p \in Nat : p = q + 1
      BY <1>3
    <2>2. PICK w \in 0 .. D - 1 : w = s % D
      BY <1>2
    <2>3. PICK x : x = s + D
      OBVIOUS
    <2>4. x = p * D + w
      BY <1>1, <1>2, <1>3, <2>1, <2>2, <2>3
    <2>5. x % D = w
      BY <1>1, <2>4
    <2> QED
      BY <1>1, <1>2, <1>3, <1>4, <2>2, <2>3, <2>5
  <1>6. q * D <= s /\ s <= u /\ u < q * D + D
    BY <1>1, <1>2, <1>3, <1>5
  <1>7. ASSUME NEW v \in Nat, q * D <= v, v + z < q * D + D
        PROVE  (v + z) \div D = q
    <2>1. v + z - q * D \in 0 .. D - 1 /\ v + z = q * D + (v + z - q * D)
      BY <1>1, <1>3, <1>7
    <2> QED
      BY <1>1, <1>2, <2>1, Quotient
  <1>8. ASSUME NEW v \in Nat, v < q * D + D, v + z >= q * D + D
        PROVE  (v + z) % D < z
    <2>1. PICK p \in Nat : p = q + 1
      BY <1>3
    <2>2. p * D = q * D + D
      BY <1>3, <2>1
    <2>3. PICK r \in 0 .. D - 1 : r = v + z - (q * D + D)
      BY <1>1, <1>3, <1>8
    <2>4. PICK x : x = v + z
      OBVIOUS
    <2>5. x = p * D + r
      BY <1>1, <1>3, <2>2, <2>3, <2>4
    <2>6. x % D = r
      BY <1>1, <2>5
    <2> QED
      BY <1>1, <1>3, <1>8, <2>3, <2>4, <2>6
  <1>9. CASE u + z < q * D + D
    <2>1. s + z < q * D + D
      BY <1>1, <1>3, <1>6, <1>9
    <2>2. (u + z) \div D = q /\ (s + z) \div D = q
      BY <1>3, <1>6, <1>7, <1>9, <2>1
    <2> QED
      BY <2>2 DEF Day, Local, D, z
  <1>10. CASE u + z >= q * D + D
    <2>1. (u + z) % D < z
      BY <1>6, <1>8, <1>10
    <2> QED
      BY <2>1 DEF BeforeUTCMidnight, Local, D, z
  <1> QED
    BY <1>1, <1>3, <1>9, <1>10

\* The table of months.
LEMMA Table ==
  /\ DaysBefore[Len(DaysBefore)] \in Nat \ {0} /\ Len(DaysBefore) \in Nat
  /\ \A m \in Months : /\ m \in 1 .. Len(DaysBefore) /\ m + 1 \in 1 .. Len(DaysBefore) /\ m \in Nat
                       /\ DaysBefore[m] \in Nat /\ DaysBefore[m + 1] \in Nat
                       /\ DaysBefore[m] < DaysBefore[m + 1]
                       /\ DaysBefore[m + 1] <= DaysBefore[Len(DaysBefore)]
  <1>1. /\ Len(DaysBefore) \in Nat /\ Len(DaysBefore) > 1 /\ DaysBefore[1] = 0
        /\ \A m \in 1 .. Len(DaysBefore) : DaysBefore[m] \in Nat
        /\ \A m, n \in 1 .. Len(DaysBefore) : m < n => DaysBefore[m] < DaysBefore[n]
    BY CalendarAssumption
  <1>2. 1 \in 1 .. Len(DaysBefore) /\ Len(DaysBefore) \in 1 .. Len(DaysBefore)
    BY <1>1
  <1>3. DaysBefore[Len(DaysBefore)] \in Nat \ {0}
    BY <1>1, <1>2
  <1>4. ASSUME NEW m \in Months
        PROVE  /\ m \in 1 .. Len(DaysBefore) /\ m + 1 \in 1 .. Len(DaysBefore) /\ m \in Nat
               /\ m < m + 1 /\ (m + 1 = Len(DaysBefore) \/ m + 1 < Len(DaysBefore))
    BY <1>1 DEF Months
  <1>5. ASSUME NEW m \in Months
        PROVE  /\ DaysBefore[m] \in Nat /\ DaysBefore[m + 1] \in Nat
               /\ DaysBefore[m] < DaysBefore[m + 1]
               /\ DaysBefore[m + 1] <= DaysBefore[Len(DaysBefore)]
    <2>1. DaysBefore[m] \in Nat /\ DaysBefore[m + 1] \in Nat /\ DaysBefore[m] < DaysBefore[m + 1]
      BY <1>1, <1>4
    <2>2. DaysBefore[m + 1] <= DaysBefore[Len(DaysBefore)]
      <3>1. CASE m + 1 = Len(DaysBefore)
        BY <1>3, <3>1
      <3>2. CASE m + 1 < Len(DaysBefore)
        <4>1. DaysBefore[m + 1] < DaysBefore[Len(DaysBefore)]
          BY <1>1, <1>2, <1>4, <3>2
        <4> QED
          BY <1>3, <2>1, <4>1
      <3> QED
        BY <1>4, <3>1, <3>2
    <2> QED
      BY <2>1, <2>2
  <1> QED
    BY <1>1, <1>3, <1>4, <1>5

\* Every day of the year is in a month.
LEMMA InAMonth ==
  ASSUME NEW d \in 0 .. DaysBefore[Len(DaysBefore)] - 1
  PROVE  \E m \in Months : DaysBefore[m] <= d /\ d < DaysBefore[m + 1]
  <1> DEFINE n == Len(DaysBefore)
             T == {k \in Nat : k \in 1 .. n /\ d < DaysBefore[k]}
  <1>1. n \in Nat /\ n > 1 /\ DaysBefore[1] = 0 /\ DaysBefore[n] \in Nat /\ d \in Nat
        /\ \A k \in 1 .. n : DaysBefore[k] \in Nat
    BY CalendarAssumption, Table
  <1>2. n \in T
    BY <1>1
  <1>3. PICK k \in T : \A y \in T : k <= y
    BY <1>2, Least
  <1>4. k \in 1 .. n /\ k \in Nat /\ d < DaysBefore[k] /\ k # 1
    BY <1>1
  <1>5. k - 1 \in 1 .. n /\ k - 1 \in Nat /\ k - 1 \notin T /\ k - 1 \in Months
    BY <1>1, <1>3, <1>4 DEF Months
  <1>6. ~ (d < DaysBefore[k - 1]) /\ DaysBefore[k - 1] \in Nat /\ (k - 1) + 1 = k
    BY <1>1, <1>4, <1>5
  <1> HIDE DEF T, n
  <1> QED
    BY <1>1, <1>4, <1>5, <1>6

\* Month is the month that holds the day.
LEMMA MonthIs ==
  ASSUME NEW u, NEW m \in Months, DayOfYear(u) \in Nat, DaysBefore[m] <= DayOfYear(u),
         DayOfYear(u) < DaysBefore[m + 1]
  PROVE  Month(u) = m
  <1> DEFINE S == {k \in Months : DaysBefore[k] <= DayOfYear(u)}
  <1>1. m \in S
    OBVIOUS
  <1>2. ASSUME NEW k \in S
        PROVE  k <= m
    <2>1. SUFFICES ASSUME k > m
                   PROVE  FALSE
      BY <1>1, Table DEF Months
    <2>2. k \in Months /\ k \in Nat /\ m \in Nat /\ k \in 1 .. Len(DaysBefore) /\ m + 1 \in 1 .. Len(DaysBefore)
      BY Table
    <2>3. DaysBefore[m + 1] <= DaysBefore[k]
      <3>1. CASE m + 1 = k
        BY <2>2, <3>1, Table
      <3>2. CASE m + 1 < k
        <4>1. DaysBefore[m + 1] < DaysBefore[k] /\ DaysBefore[m + 1] \in Nat /\ DaysBefore[k] \in Nat
          BY <2>2, <3>2, Table, CalendarAssumption
        <4> QED
          BY <4>1
      <3> QED
        BY <2>1, <2>2, <3>1, <3>2
    <2>4. DaysBefore[k] <= DayOfYear(u) /\ DaysBefore[k] \in Nat /\ DaysBefore[m + 1] \in Nat
      BY <2>2, Table
    <2> QED
      BY <2>3, <2>4
  <1>3. \A k \in S : k \in Nat
    BY Table
  <1>4. m \in Nat
    BY Table
  <1> HIDE DEF S
  <1>5. Max(S) \in S /\ \A y \in S : Max(S) >= y
    BY <1>1, <1>2, <1>3, <1>4 DEF Max
  <1>6. PICK x : x = Max(S)
    OBVIOUS
  <1>7. x \in S /\ x >= m /\ x <= m /\ x \in Nat
    BY <1>1, <1>2, <1>3, <1>5, <1>6
  <1> QED
    BY <1>4, <1>6, <1>7 DEF Month, S

\* A leap over a month goes forward and stays in it.
LEMMA MonthKept ==
  ASSUME zone \in Zones, NEW s \in Nat
  PROVE  /\ Month(s) \in Months /\ nextMonth(s) \in Nat /\ s < nextMonth(s)
         /\ \A u \in Nat : s <= u /\ u < nextMonth(s) => Month(u) = Month(s)
  <1> DEFINE D == DayLength
             z == zone * MinutesPerHour
             Y == DaysBefore[Len(DaysBefore)]
             q == Day(s)
             y == q \div Y
             d == DayOfYear(s)
  <1>1. D \in Nat \ {0} /\ z \in Nat
    BY ZoneShift
  <1>2. Y \in Nat \ {0}
    BY Table
  <1>3. \A u \in Nat : Local(u) = u + z /\ Local(u) \in Nat
    BY <1>1 DEF Local
  <1>4. \A u \in Nat : Day(u) \in Nat /\ Day(u) * D <= Local(u) /\ Local(u) < Day(u) * D + D
    <2>1. ASSUME NEW u \in Nat
          PROVE  Day(u) \in Nat /\ Day(u) * D <= Local(u) /\ Local(u) < Day(u) * D + D
      <3>1. PICK x \in Nat : x = Local(u)
        BY <1>3
      <3>2. Day(u) = x \div D
        BY <3>1 DEF Day
      <3>3. /\ x \div D \in Nat /\ x % D \in 0 .. D - 1
            /\ x = (x \div D) * D + (x % D)
        BY <1>1, Divided
      <3>4. PICK p \in Nat : p = x \div D
        BY <3>3
      <3>5. PICK w \in 0 .. D - 1 : w = x % D
        BY <3>3
      <3>6. p * D \in Nat /\ x = p * D + w
        BY <1>1, <3>3, <3>4, <3>5
      <3>7. p * D <= x /\ x < p * D + D
        BY <1>1, <3>6
      <3> QED
        BY <3>1, <3>2, <3>4, <3>7
    <2> QED
      BY <2>1
  <1>5. d = q % Y /\ q \in Nat
    BY <1>4 DEF DayOfYear
  <1> HIDE DEF D, z, q, y
  <1>6. y \in Nat /\ d \in 0 .. Y - 1 /\ q = y * Y + d /\ y * Y \in Nat
    <2>1. /\ q \div Y \in Nat /\ q % Y \in 0 .. Y - 1 /\ q = (q \div Y) * Y + (q % Y)
      BY <1>2, <1>5, Divided
    <2>2. y \in Nat /\ y = q \div Y
      BY <2>1 DEF y
    <2>3. y * Y \in Nat
      BY <1>2, <2>2
    <2> QED
      BY <1>5, <2>1, <2>2, <2>3
  <1>7. PICK m \in Months : DaysBefore[m] <= d /\ d < DaysBefore[m + 1]
    BY <1>6, InAMonth
  <1>8. /\ DaysBefore[m] \in Nat /\ DaysBefore[m + 1] \in Nat /\ DaysBefore[m + 1] <= Y
    BY Table
  <1>9. Month(s) = m
    BY <1>6, <1>7, MonthIs
  <1> HIDE DEF Y, d
  <1>10. PICK X \in Nat : X = y * Y + DaysBefore[m + 1]
    BY <1>6, <1>8
  <1>11. nextMonth(s) = X * D - z
    <2>1. nextMonth(s) = (q - DayOfMonth(s) + 1 + MonthDays(m)) * D - z
      BY <1>9 DEF nextMonth, q, D, z
    <2>2. DayOfMonth(s) = d - DaysBefore[m] + 1
      BY <1>9 DEF DayOfMonth, d
    <2>3. q - DayOfMonth(s) + 1 + MonthDays(m) = X
      BY <1>6, <1>8, <1>10, <2>2 DEF MonthDays
    <2> QED
      BY <2>1, <2>3
  <1>12. X * D \in Nat /\ q + 1 <= X
    BY <1>1, <1>6, <1>7, <1>8, <1>10
  <1>13. (q + 1) * D <= X * D /\ (q + 1) * D = q * D + D /\ q * D \in Nat
    BY <1>1, <1>5, <1>12, Times, Distributes
  <1>14. s + z < X * D
    <2>1. s + z < q * D + D
      BY <1>3, <1>4 DEF q
    <2> QED
      BY <1>1, <1>12, <1>13, <2>1
  <1>15. nextMonth(s) \in Nat /\ s < nextMonth(s)
    BY <1>1, <1>11, <1>12, <1>14
  <1>16. ASSUME NEW u \in Nat, s <= u, u < nextMonth(s)
         PROVE  Month(u) = Month(s)
    <2>1. PICK k \in Nat : k = Day(u)
      BY <1>4
    <2>2. k * D <= u + z /\ u + z < k * D + D /\ k * D \in Nat
      BY <1>1, <1>3, <1>4, <2>1
    <2>3. k < X
      <3>1. SUFFICES ASSUME X <= k
                     PROVE  FALSE
        OBVIOUS
      <3>2. X * D <= k * D
        BY <1>1, <3>1, Times
      <3> QED
        BY <1>1, <1>11, <1>12, <1>16, <2>2, <3>2
    <2>4. q <= k
      <3>1. SUFFICES ASSUME k + 1 <= q
                     PROVE  FALSE
        BY <1>5
      <3>2. (k + 1) * D <= q * D /\ (k + 1) * D = k * D + D
        BY <1>1, <1>5, <3>1, Times, Distributes
      <3>3. q * D <= s + z
        BY <1>3, <1>4 DEF q
      <3> QED
        BY <1>1, <1>13, <1>16, <2>2, <3>2, <3>3
    <2>5. PICK e \in Nat : e = k - y * Y
      BY <1>6, <2>4
    <2>6. e \in 0 .. Y - 1 /\ DaysBefore[m] <= e /\ e < DaysBefore[m + 1] /\ k = y * Y + e
      BY <1>2, <1>6, <1>7, <1>8, <1>10, <2>3, <2>4, <2>5
    <2>7. k % Y = e
      BY <1>2, <1>6, <2>6
    <2>8. DayOfYear(u) = e
      BY <2>1, <2>7 DEF DayOfYear, Y
    <2> QED
      BY <1>9, <2>6, <2>8, MonthIs
  <1> QED
    BY <1>9, <1>15, <1>16

-----------------------------------------------------------------------------
(* Parsing.                                                                *)

\* The values of a range are within the field's bounds.
LEMMA RangeWithin ==
  ASSUME NEW p \in Span, NEW min \in Int, NEW max \in Int
  PROVE  parseRange(p, min, max) \subseteq min .. max
  <1>1. p.lo \in Int /\ p.hi \in Int
    BY DEF Span
  <1> QED
    BY <1>1 DEF parseRange

\* A part that is accepted has values, all within the field's bounds.
LEMMA PartWithin ==
  ASSUME NEW i \in 1 .. 5, NEW p \in Part, Verdict(i, p) = "ok"
  PROVE  /\ parseFieldPart(p, Bounds[i].min, Bounds[i].max) # {}
         /\ parseFieldPart(p, Bounds[i].min, Bounds[i].max) \subseteq Bounds[i].min .. Bounds[i].max
  <1> DEFINE min == Bounds[i].min
             max == Bounds[i].max
  <1>1. min \in Int /\ max \in Int
    <2>1. MinutesPerHour - 1 \in Int /\ HoursPerDay - 1 \in Int /\ LongestMonth \in Int
          /\ Len(DaysBefore) - 1 \in Int /\ DaysPerWeek - 1 \in Int
      BY CalendarAssumption, Table
    <2> QED
      BY <2>1 DEF Bounds
  <1>2. ~ Panics(p) /\ parseFieldPart(p, min, max) # {}
    BY DEF Verdict
  <1> HIDE DEF min, max
  <1>3. p.form \in {"star", "lit", "range", "step"}
    BY DEF Part, Plain, Span
  <1>4. parseFieldPart(p, min, max) \subseteq min .. max
    <2>1. CASE p.form = "star"
      BY <2>1 DEF parseFieldPart, parseWildcardPart
    <2>2. CASE p.form = "lit"
      BY <2>2 DEF parseFieldPart, parseLiteralPart
    <2>3. CASE p.form = "range"
      <3>1. p \in Span
        BY <2>3 DEF Part, Plain, Span
      <3>2. parseFieldPart(p, min, max) = parseRange(p, min, max)
        BY <2>3 DEF parseFieldPart
      <3> QED
        BY <1>1, <3>1, <3>2, RangeWithin
    <2>4. CASE p.form = "step"
      <3>1. p.base \in Plain \cup Span /\ p.step \in Int
        BY <2>4 DEF Part, Plain, Span
      <3>2. parseFieldPart(p, min, max) = parseStepPart(p, min, max)
        BY <2>4 DEF parseFieldPart
      <3>3. p.step > 0
        BY <1>2, <3>1, <3>2 DEF parseStepPart
      <3>4. p.base.form # "lit"
        BY <1>2, <2>4, <3>3 DEF Panics
      <3>5. CASE p.base.form = "star"
        BY <3>2, <3>5 DEF parseStepPart
      <3>6. CASE p.base.form # "star"
        <4>1. p.base \in Span
          BY <3>1, <3>4, <3>6 DEF Plain
        <4>2. parseStepPart(p, min, max) \subseteq parseRange(p.base, min, max)
          BY <3>6 DEF parseStepPart
        <4> QED
          BY <1>1, <3>2, <4>1, <4>2, RangeWithin
      <3> QED
        BY <3>5, <3>6
    <2> QED
      BY <1>3, <2>1, <2>2, <2>3, <2>4
  <1> QED
    BY <1>2, <1>4 DEF min, max

\* What parseCron accepts has values in every field.
LEMMA FieldsWithin ==
  ASSUME expr \in Exprs, NEW i \in 1 .. 5, \A k \in DOMAIN expr[i] : Accepted(i, k)
  PROVE  /\ parseField(i, expr[i]) # {}
         /\ parseField(i, expr[i]) \subseteq Bounds[i].min .. Bounds[i].max
  <1> DEFINE values(k) == parseFieldPart(expr[i][k], Bounds[i].min, Bounds[i].max)
  <1>1. expr[i] \in Seq(Part) /\ expr[i] # <<>>
    BY ExprsAssumption
  <1>2. 1 \in DOMAIN expr[i] /\ \A k \in DOMAIN expr[i] : expr[i][k] \in Part
    BY <1>1
  <1>3. \A k \in DOMAIN expr[i] : values(k) # {} /\ values(k) \subseteq Bounds[i].min .. Bounds[i].max
    BY <1>2, PartWithin DEF Accepted
  <1>4. parseField(i, expr[i]) = UNION {values(k) : k \in DOMAIN expr[i]}
    BY DEF parseField
  <1> HIDE DEF values
  <1> QED
    BY <1>2, <1>3, <1>4

-----------------------------------------------------------------------------
(* The search.                                                             *)

\* Nothing that matches has been passed over, but for the exception.
Passed(n, s) == \A u \in n + 1 .. s - 1 : Matches(u) => BeforeUTCMidnight(u)

Searching ==
  /\ pc \in {"search", "wait"} =>
       now < t /\ now < limit /\ Passed(now, t) /\ passes < MaxPasses
  /\ pc = "wait" => Matches(t) \/ t = limit

IInv == TypeOK /\ Searching

\* The lengths of a search and of a day.
LEMMA Lengths ==
  ASSUME zone \in Zones, NEW s \in Nat
  PROVE  /\ s + SearchDays * DayLength \in Nat /\ s < s + SearchDays * DayLength
         /\ nextHour(s) \in Nat /\ s < nextHour(s)
         /\ nextDay(s) \in Nat /\ s < nextDay(s)
  <1>1. DayLength \in Nat \ {0} /\ MinutesPerHour \in Nat \ {0} /\ SearchDays \in Nat \ {0}
    BY ZoneShift, SearchAssumption
  <1>2. SearchDays * DayLength \in Nat /\ SearchDays * DayLength > 0
    BY <1>1
  <1>3. PICK r \in 0 .. MinutesPerHour - 1 : r = s % MinutesPerHour
    BY <1>1, Divided
  <1>4. r <= s
    BY <1>1, <1>3
  <1>5. PICK x \in Nat : x = s + DayLength
    BY <1>1
  <1>6. PICK w \in 0 .. DayLength - 1 : w = x % DayLength
    BY <1>1, Divided
  <1>7. nextHour(s) = s - r + MinutesPerHour /\ nextDay(s) = x - w
    BY <1>3, <1>5, <1>6 DEF nextHour, TruncateHour, nextDay, TruncateDay
  <1> QED
    BY <1>1, <1>2, <1>3, <1>4, <1>5, <1>6, <1>7

\* A stretch of minutes splits at any number.
LEMMA Split ==
  ASSUME NEW a \in Nat, NEW b \in Nat, NEW c \in Nat
  PROVE  \A u \in a + 1 .. c - 1 : u \in a + 1 .. b - 1 \/ u \in b .. c - 1
  OBVIOUS

LEMMA Between ==
  ASSUME NEW a \in Nat, NEW b \in Nat, NEW u \in a .. b - 1
  PROVE  u \in Nat /\ a <= u /\ u < b
  OBVIOUS

\* One turn of the loop: it ends, or leaps forward over nothing that matches.
LEMMA Turn ==
  ASSUME IInv, next
  PROVE  \/ pc' = "wait" /\ t' = limit /\ limit <= t
         \/ pc' = "wait" /\ t' = t /\ Matches(t)
         \/ /\ pc' = "search" /\ t < limit /\ t' \in Nat /\ t < t'
            /\ \A u \in t .. t' - 1 : Matches(u) => BeforeUTCMidnight(u)
  <1>1. t \in Nat /\ limit \in Nat /\ zone \in Zones /\ pc = "search"
    BY DEF IInv, TypeOK, next
  <1>2. CASE t >= limit /\ t' = limit /\ pc' = "wait"
    BY <1>1, <1>2
  <1>3. CASE t < limit /\ Month(t) \notin sched[4] /\ t' = nextMonth(t) /\ pc' = pc
    <2>1. t' \in Nat /\ t < t' /\ \A u \in Nat : t <= u /\ u < t' => Month(u) = Month(t)
      BY <1>1, <1>3, MonthKept
    <2>2. ASSUME NEW u \in t .. t' - 1
          PROVE  ~ Matches(u)
      <3>1. u \in Nat /\ t <= u /\ u < t'
        BY <1>1, <2>1, Between
      <3> QED
        BY <1>3, <2>1, <3>1 DEF Matches
    <2> QED
      BY <1>1, <1>3, <2>1, <2>2
  <1>4. CASE /\ t < limit /\ t' = nextDay(t) /\ pc' = pc
             /\ Month(t) \in sched[4] /\ (DayOfMonth(t) \notin sched[3] \/ Weekday(t) \notin sched[5])
    <2>1. t' \in Nat /\ t < t'
      BY <1>1, <1>4, Lengths
    <2>2. ASSUME NEW u \in t .. t' - 1, Matches(u)
          PROVE  BeforeUTCMidnight(u)
      <3>1. u \in Nat /\ t <= u /\ u < t'
        BY <1>1, <2>1, Between
      <3>2. Day(u) = Day(t) \/ BeforeUTCMidnight(u)
        BY <1>1, <1>4, <3>1, DayKept
      <3>3. ASSUME Day(u) = Day(t)
            PROVE  DayOfMonth(u) = DayOfMonth(t) /\ Weekday(u) = Weekday(t)
        BY <3>3 DEF DayOfMonth, Month, DayOfYear, Weekday
      <3>4. Day(u) # Day(t)
        BY <1>4, <2>2, <3>3 DEF Matches
      <3> QED
        BY <3>2, <3>4
    <2> QED
      BY <1>1, <1>4, <2>1, <2>2
  <1>5. CASE t < limit /\ Hour(t) \notin sched[2] /\ t' = nextHour(t) /\ pc' = pc
    <2>1. t' \in Nat /\ t < t'
      BY <1>1, <1>5, Lengths
    <2>2. ASSUME NEW u \in t .. t' - 1
          PROVE  ~ Matches(u)
      <3>1. u \in Nat /\ t <= u /\ u < t'
        BY <1>1, <2>1, Between
      <3>2. Hour(u) = Hour(t)
        BY <1>1, <1>5, <3>1, HourKept
      <3> QED
        BY <1>5, <3>2 DEF Matches
    <2> QED
      BY <1>1, <1>5, <2>1, <2>2
  <1>6. CASE t < limit /\ Minute(t) \notin sched[1] /\ t' = t + 1 /\ pc' = pc
    <2>1. \A u \in t .. t' - 1 : u = t
      BY <1>1, <1>6
    <2>2. ~ Matches(t)
      BY <1>6 DEF Matches
    <2> QED
      BY <1>1, <1>6, <2>1, <2>2
  <1>7. CASE /\ t < limit /\ pc' = "wait" /\ t' = t
             /\ Month(t) \in sched[4] /\ DayOfMonth(t) \in sched[3] /\ Weekday(t) \in sched[5]
             /\ Hour(t) \in sched[2] /\ Minute(t) \in sched[1]
    BY <1>7 DEF Matches
  <1> QED
    BY <1>2, <1>3, <1>4, <1>5, <1>6, <1>7 DEF next

\* What a minute matches does not change when expression and zone do not.
LEMMA SameMatches ==
  ASSUME UNCHANGED <<sched, zone>>, NEW u
  PROVE  Matches(u)' = Matches(u) /\ BeforeUTCMidnight(u)' = BeforeUTCMidnight(u)
  <1>1. Local(u)' = Local(u)
    BY DEF Local
  <1>2. Day(u)' = Day(u) /\ Minute(u)' = Minute(u) /\ Hour(u)' = Hour(u)
    BY <1>1 DEF Day, Minute, Hour, Local
  <1>3. Weekday(u)' = Weekday(u) /\ DayOfYear(u)' = DayOfYear(u)
    BY <1>2 DEF Weekday, DayOfYear, Day, Local
  <1>4. Month(u)' = Month(u)
    BY <1>3 DEF Month, DayOfYear, Day, Local
  <1>5. DayOfMonth(u)' = DayOfMonth(u)
    BY <1>3, <1>4 DEF DayOfMonth, Month, DayOfYear, Day, Local
  <1> QED
    BY <1>1, <1>2, <1>3, <1>4, <1>5 DEF Matches, BeforeUTCMidnight

-----------------------------------------------------------------------------
(* The theorems.                                                           *)

LEMMA InitInv ==
  ASSUME Init
  PROVE  IInv
  <1>1. now \in Nat /\ passes \in 0 .. MaxPasses
    BY SearchAssumption DEF Init
  <1> QED
    BY <1>1 DEF Init, IInv, TypeOK, Searching

LEMMA ParseStep ==
  ASSUME IInv, parseCron
  PROVE  IInv'
  <1>1. /\ expr \in Exprs /\ zone \in Zones /\ now \in Nat /\ t \in Nat /\ limit \in Nat
        /\ passes \in 0 .. MaxPasses /\ UNCHANGED <<expr, zone, now, t, limit, passes>>
    BY DEF IInv, TypeOK, parseCron
  <1>2. CASE /\ \A i \in 1 .. 5 : \A k \in DOMAIN expr[i] : Accepted(i, k)
             /\ pc' = "idle" /\ sched' = [i \in 1 .. 5 |-> parseField(i, expr[i])]
    <2>1. \A i \in 1 .. 5 : /\ parseField(i, expr[i]) # {}
                            /\ parseField(i, expr[i]) \subseteq Bounds[i].min .. Bounds[i].max
      BY <1>1, <1>2, FieldsWithin
    <2>2. \A i \in 1 .. 5 : sched'[i] # {} /\ sched'[i] \subseteq Bounds[i].min .. Bounds[i].max
      BY <1>2, <2>1
    <2>3. TypeOK'
      BY <1>1, <1>2, <2>2 DEF TypeOK, Bounds
    <2> QED
      BY <1>2, <2>3 DEF IInv, Searching
  <1>3. ASSUME NEW i \in 1 .. 5, NEW k \in DOMAIN expr[i], FirstFailure(i, k),
               pc' = Verdict(i, expr[i][k]), UNCHANGED sched
        PROVE  IInv'
    <2>1. pc' \in {"panic", "error"}
      BY <1>3 DEF FirstFailure, Accepted, Verdict
    <2>2. TypeOK'
      BY <1>1, <2>1 DEF TypeOK
    <2> QED
      BY <2>1, <2>2 DEF IInv, Searching
  <1> QED
    BY <1>2, <1>3 DEF parseCron

LEMMA BeginStep ==
  ASSUME IInv, BeginSearch
  PROVE  IInv'
  <1>1. /\ zone \in Zones /\ now \in Nat /\ pc = "idle" /\ pc' = "search" /\ passes < MaxPasses
        /\ t' = now + 1 /\ limit' = (now + 1) + SearchDays * DayLength
        /\ UNCHANGED <<expr, zone, sched, now, passes>>
    BY DEF IInv, TypeOK, BeginSearch
  <1>2. now + 1 \in Nat
    BY <1>1
  <1>3. limit' \in Nat /\ now + 1 < limit'
    BY <1>1, <1>2, Lengths
  <1>4. TypeOK'
    BY <1>1, <1>2, <1>3 DEF IInv, TypeOK, Bounds
  <1>5. now' < t' /\ now' < limit' /\ \A u \in now' + 1 .. t' - 1 : FALSE
    BY <1>1, <1>3
  <1> QED
    BY <1>1, <1>4, <1>5 DEF IInv, Searching, Passed

LEMMA TurnStep ==
  ASSUME IInv, next
  PROVE  IInv'
  <1>1. /\ t \in Nat /\ limit \in Nat /\ now \in Nat /\ pc = "search"
        /\ UNCHANGED <<expr, zone, sched, now, limit, passes>>
    BY DEF IInv, TypeOK, next
  <1>2. now < t /\ now < limit /\ Passed(now, t) /\ passes < MaxPasses
    BY <1>1 DEF IInv, Searching
  <1>3. \A u : Matches(u)' = Matches(u) /\ BeforeUTCMidnight(u)' = BeforeUTCMidnight(u)
    BY <1>1, SameMatches
  <1>4. ASSUME NEW s, \A u \in now + 1 .. s - 1 : Matches(u) => BeforeUTCMidnight(u)
        PROVE  \A u \in now + 1 .. s - 1 : Matches(u)' => BeforeUTCMidnight(u)'
    BY <1>3, <1>4
  <1>5. ASSUME t' \in Nat, pc' \in {"search", "wait"}
        PROVE  TypeOK'
    BY <1>1, <1>5 DEF IInv, TypeOK, Bounds
  <1>6. CASE pc' = "wait" /\ t' = limit /\ limit <= t
    <2>1. \A u \in now + 1 .. limit - 1 : u \in now + 1 .. t - 1
      BY <1>1, <1>6
    <2>2. \A u \in now + 1 .. limit - 1 : Matches(u) => BeforeUTCMidnight(u)
      BY <1>2, <2>1 DEF Passed
    <2>3. \A u \in now + 1 .. limit - 1 : Matches(u)' => BeforeUTCMidnight(u)'
      BY <1>4, <2>2
    <2>4. Passed(now, t)'
      BY <1>1, <1>6, <2>3 DEF Passed
    <2> QED
      BY <1>1, <1>2, <1>5, <1>6, <2>4 DEF IInv, Searching
  <1>7. CASE pc' = "wait" /\ t' = t /\ Matches(t)
    <2>1. \A u \in now + 1 .. t - 1 : Matches(u)' => BeforeUTCMidnight(u)'
      BY <1>2, <1>4 DEF Passed
    <2>2. Passed(now, t)'
      BY <1>1, <1>7, <2>1 DEF Passed
    <2>3. Matches(t)'
      <3>1. PICK s : s = t
        OBVIOUS
      <3>2. Matches(s)'
        BY <1>3, <1>7, <3>1
      <3> QED
        BY <1>7, <3>1, <3>2 DEF Matches, Minute, Hour, DayOfMonth, Month, Weekday, DayOfYear, Day, Local
    <2> QED
      BY <1>1, <1>2, <1>5, <1>7, <2>2, <2>3 DEF IInv, Searching
  <1>8. CASE /\ pc' = "search" /\ t < limit /\ t' \in Nat /\ t < t'
             /\ \A u \in t .. t' - 1 : Matches(u) => BeforeUTCMidnight(u)
    <2>1. \A u \in now + 1 .. t' - 1 : u \in now + 1 .. t - 1 \/ u \in t .. t' - 1
      BY <1>1, <1>8, Split
    <2>2. \A u \in now + 1 .. t' - 1 : Matches(u) => BeforeUTCMidnight(u)
      BY <1>2, <1>8, <2>1 DEF Passed
    <2>3. \A u \in now + 1 .. t' - 1 : Matches(u)' => BeforeUTCMidnight(u)'
      BY <1>4, <2>2
    <2>4. Passed(now, t)'
      BY <1>1, <2>3 DEF Passed
    <2>5. now' < t' /\ now' < limit' /\ passes' < MaxPasses
      BY <1>1, <1>2, <1>8
    <2> QED
      BY <1>5, <1>8, <2>4, <2>5 DEF IInv, Searching
  <1> QED
    BY <1>6, <1>7, <1>8, Turn

LEMMA NextInv ==
  ASSUME IInv, [Next]_vars
  PROVE  IInv'
  <1>1. CASE parseCron
    BY <1>1, ParseStep
  <1>2. CASE BeginSearch
    BY <1>2, BeginStep
  <1>3. CASE next
    BY <1>3, TurnStep
  <1>4. CASE Pass
    <2>1. PICK delay \in 0 .. MaxDelay : now' = t + delay
      BY <1>4 DEF Pass
    <2>2. now' \in Nat
      BY <2>1, SearchAssumption DEF IInv, TypeOK
    <2>3. passes' \in 0 .. MaxPasses
      BY <1>4, SearchAssumption DEF Pass, IInv, TypeOK, Searching
    <2>4. pc = "wait" /\ pc' = "idle" /\ UNCHANGED <<expr, zone, sched, t, limit>>
      BY <1>4 DEF Pass
    <2>5. TypeOK'
      BY <2>2, <2>3, <2>4 DEF IInv, TypeOK, Bounds
    <2> QED
      BY <2>4, <2>5 DEF IInv, Searching
  <1>5. CASE Stop
    BY <1>5 DEF Stop, IInv, TypeOK, Searching, Bounds
  <1>6. CASE UNCHANGED vars
    <2>1. UNCHANGED <<expr, zone, pc, sched, now, t, limit, passes>>
      BY <1>6 DEF vars
    <2>2. TypeOK'
      BY <2>1 DEF IInv, TypeOK, Bounds
    <2>3. Searching'
      BY <2>1 DEF IInv, Searching, Passed, Matches, BeforeUTCMidnight, Minute, Hour, DayOfMonth, Month,
                  Weekday, DayOfYear, Day, Local
    <2> QED
      BY <2>2, <2>3 DEF IInv
  <1> QED
    BY <1>1, <1>2, <1>3, <1>4, <1>5, <1>6 DEF Next, StartCleanup

\* The inductive invariant: the search has passed over nothing that matches.
THEOREM InvHolds == Spec => []IInv
  <1>1. Init => IInv
    BY InitInv
  <1>2. IInv /\ [Next]_vars => IInv'
    BY NextInv
  <1> QED
    BY <1>1, <1>2, PTL DEF Spec

\* parseCron accepts only fields with values, all of them within the field's bounds.
THEOREM TypesHold == Spec => []TypeOK
  <1>1. IInv => TypeOK
    BY DEF IInv
  <1> QED
    BY <1>1, InvHolds, PTL

\* next finds the first time that matches, or its limit, for every calendar and every
\* expression, but for the minutes between local midnight and UTC's.
THEOREM OnScheduleHolds == Spec => []OnSchedule
  <1>1. IInv => OnSchedule
    BY DEF IInv, TypeOK, Searching, OnSchedule, Passed
  <1> QED
    BY <1>1, InvHolds, PTL

\* Whatever it leaps over, each turn of the search moves it on or ends it, and none
\* begins at the limit: that is why four years bound it.
SearchAdvances == [][next => pc' = "wait" \/ (t < t' /\ t < limit)]_vars

\* Each turn of next's loop moves it on in time or ends it.
THEOREM SearchAdvancesHolds == Spec => SearchAdvances
  <1>1. IInv /\ next => pc' = "wait" \/ (t < t' /\ t < limit)
    BY Turn
  <1>2. IInv /\ [Next]_vars => [next => pc' = "wait" \/ (t < t' /\ t < limit)]_vars
    BY <1>1
  <1> QED
    BY <1>2, InvHolds, PTL DEF Spec, SearchAdvances

=============================================================================
