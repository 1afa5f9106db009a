---------------------------- MODULE MCHandshake -----------------------------
(* Small instances of Handshake for TLC. *)
EXTENDS Handshake, TLC

Pair(c, j) == [create |-> c, join |-> j, n |-> 1]

\* The pairs of entry points that the commands and the pages bring together and
\* that speak the same protocol, and those nobody calls any more.  Left out: a session's
\* joiner with the pages' chat, where each side waits for the other to begin.
SamePairs ==
  {Pair("StartSession", "JoinSession"), Pair("SendBytes", "ReceiveToBytes"),
   Pair("Chat Receiver", "Chat Sender"), Pair("SendBytes", "JoinSession"),
   Pair("Send", "Receive"), Pair("ChatWithCallback Sender", "ChatWithCallback Receiver")}

\* One creator, up to N joiners.
Session(N) == {[create |-> "StartSession", join |-> "JoinSession", n |-> N]}

ScenariosSafe == SamePairs \cup Session(3)
ScenariosOne == Session(1)
=============================================================================
