---------------------------- MODULE MCSchedule ----------------------------
(* Small instances of ScheduleStore for TLC. *)
EXTENDS ScheduleStore, TLC

Symmetric == Permutations(Workers) \cup Permutations(Files) \cup Permutations(Uploads)

\* Download limits a client may ask for: nonsense, none, one and too many.
AnyLimit == {-1, 0, 1, 3}

\* No limit and a limit of one.
FewLimits == {0, 1}
=============================================================================
