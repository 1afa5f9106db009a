------------------------------- MODULE MCCron -------------------------------
(* A small instance of Cron for TLC: hours of two minutes, days of three     *)
(* hours, months of two and three days, weeks of three days.                 *)
EXTENDS Cron

Star == [form |-> "star"]
Lit(n) == [form |-> "lit", n |-> n]
FromTo(lo, hi) == [form |-> "range", lo |-> lo, hi |-> hi]
Every(base, n) == [form |-> "step", base |-> base, step |-> n]

TwoMonths == <<0, 2, 5>>

\* Each field: everything, and something narrower; the days include ones that only
\* the longer month has, so that some expressions match no day at all.
Narrow ==
  {<<m, h, d, mo, w>> :
     m  \in {<<Star>>, <<Lit(1)>>},
     h  \in {<<Every(Star, 2)>>, <<Lit(1)>>, <<FromTo(1, 2)>>},
     d  \in {<<Star>>, <<Lit(1), Lit(3)>>, <<Every(FromTo(3, 3), 1)>>},
     mo \in {<<Star>>, <<Lit(1)>>, <<Lit(2)>>},
     w  \in {<<Star>>, <<Lit(1)>>}}

\* Expressions that are refused, or worse.
Wrong ==
  {[i \in 1 .. 5 |-> IF i = k THEN <<Star, p>> ELSE <<Star>>] :
     k \in {1, 4},
     p \in {Lit(9), FromTo(2, 1), FromTo(1, 4), Every(Star, 0), Every(FromTo(0, 9), 2),
            Every(Lit(1), 2)}}

AllExprs == Narrow \cup Wrong
AllStarts == 6 .. 35
=============================================================================
