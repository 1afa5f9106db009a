----------------------------- MODULE MCTransfer -----------------------------
(* A small instance of Transfer for TLC. *)
EXTENDS Transfer, TLC

\* Two files of the same name; with chunks of two units the longer one ends in
\* a short chunk.
CONSTANTS f1, f2
TwoSizes == f1 :> 3 @@ f2 :> 1
=============================================================================
