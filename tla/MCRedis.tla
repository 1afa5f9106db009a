------------------------------- MODULE MCRedis ------------------------------
(* A small instance of RedisStore for TLC. *)
EXTENDS RedisStore, TLC

CONSTANTS b1, b2, c1, c2, c3

\* Two processes; the first has two initiators or an initiator and its peer.
MCHome == c1 :> b1 @@ c2 :> b1 @@ c3 :> b2
=============================================================================
