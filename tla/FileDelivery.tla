---------------------------- MODULE FileDelivery ----------------------------
(* What a file transfer promises, whatever happens on the way.  A sender     *)
(* offers one file per attempt.  The receiver may keep it, at most once, in  *)
(* a place that was free, and what it keeps is the offered content, whole.   *)
(* The sender may report success only for a file the receiver has verified.  *)
(* Nothing that was kept is ever changed.                                    *)
CONSTANTS
  Files,       \* the files a sender can offer
  Content(_),  \* the content of a file
  Places,      \* the names under which the receiver can keep a file
  None         \* no file

VARIABLES
  offered,     \* the file of the current attempt, or None
  verified,    \* has the receiver verified it?
  kept,        \* has the receiver kept it?
  store,       \* what the receiver holds under each name
  told         \* has the sender reported success?

vars == <<offered, verified, kept, store, told>>

Init ==
  /\ offered = None /\ verified = FALSE /\ kept = FALSE /\ told = FALSE
  /\ store = [p \in Places |-> None]

Offer(f) ==
  /\ offered' = f
  /\ verified' = FALSE /\ kept' = FALSE /\ told' = FALSE
  /\ store' = store

Verify ==
  /\ offered # None /\ ~verified
  /\ verified' = TRUE
  /\ UNCHANGED <<offered, kept, store, told>>

Keep(p) ==
  /\ offered # None /\ ~kept /\ store[p] = None
  /\ store' = [store EXCEPT ![p] = Content(offered)]
  /\ verified' = TRUE /\ kept' = TRUE
  /\ UNCHANGED <<offered, told>>

Tell ==
  /\ verified /\ ~told
  /\ told' = TRUE
  /\ UNCHANGED <<offered, verified, kept, store>>

Next ==
  \/ \E f \in Files : Offer(f)
  \/ Verify
  \/ \E p \in Places : Keep(p)
  \/ Tell

Spec == Init /\ [][Next]_vars
=============================================================================
