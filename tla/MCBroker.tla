------------------------------ MODULE MCBroker ------------------------------
(* Small instances of Broker for TLC. *)
EXTENDS Broker, TLC

Symmetric == Permutations(Conns) \cup Permutations(Codes)

\* An initiator that asks for two peers or for too many, joiners, and every way to
\* leave.  A slot of two fills while the third client still has its request.
SessionMessages ==
       [type : {"slot.create"}, max : {2, 9}]
  \cup [type : {"slot.join"}, code : Codes]
  \cup [type : {"bye"}]

\* Everything a client can get wrong, and both ways to relay.
ErrorMessages ==
       [type : {"slot.create"}, max : {0}]
  \cup [type : {"slot.join"}, code : Codes \cup {BadCode}]
  \cup [type : {"pong", "bad", "opaque"}]
  \cup [type : {"targeted"}, target : Conns]
=============================================================================
