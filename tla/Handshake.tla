----------------------------- MODULE Handshake ------------------------------
(* How two clients that share a code become connected (internal/peer): the   *)
(* PAKE messages, the signed offer and answer, the ICE candidates, and the   *)
(* opening of the data channel, over the broker's relay.                     *)
(*                                                                           *)
(* Every entry point of the package is a script, a sequence of steps, and a  *)
(* thread runs it: thread <<"j", j>> is joiner j's, thread <<"c", j>> is the *)
(* creator's for j.  The creator of a session runs one thread per joiner:    *)
(* the first alone, the later ones together, all on one dispatcher.          *)
EXTENDS Integers, Sequences, FiniteSets

CONSTANTS
  Creator,     \* the client that created the slot
  MaxJoiners,  \* bound: the clients that join it, numbered as they do
  MaxTargeted, \* bound: a candidate is sent while fewer messages wait for its joiner
  Scenarios,   \* [create : an entry point, join : an entry point, n : joiners at most]
  None

Joiners == 1 .. MaxJoiners

\* The entry points of the package, by role where one function serves both.
Entries ==
  {"Send", "SendBytes", "Receive", "ReceiveToBytes", "Chat Sender", "Chat Receiver",
   "ChatWithCallback Sender", "ChatWithCallback Receiver", "StartSession", "JoinSession"}

ASSUME ConstantsAssumption ==
  /\ MaxJoiners \in Nat \ {0} /\ MaxTargeted \in Nat /\ Creator \notin Joiners
  /\ \A s \in Scenarios : s.create \in Entries /\ s.join \in Entries /\ s.n \in Joiners

Threads == {"c", "j"} \X Joiners
Clients == Joiners \cup {Creator}

\* The client a thread belongs to.
Of(t) == IF t[1] = "c" THEN Creator ELSE t[2]

VARIABLES
  scen,      \* the scenario: which entry points the users have chosen
  code,      \* code[j]: does j know the secret part of the code?
  joined,    \* how many have joined the slot
  waiting,   \* the creator's disp.peerJoined
  status,    \* status[t]: "idle", "running", "done", or why it failed
  step,      \* step[t]: index into the script
  key,       \* key[t]: the PAKE key, or None
  remote,    \* remote[t]: the thread whose description was applied, or None
  gathering, \* threads that have candidates still to send
  box,       \* box[x][ch]: the dispatcher's channels
  errors,    \* clients with an error frame on disp.control
  up         \* threads whose connection is established

vars == <<scen, code, joined, waiting, status, step, key, remote, gathering, box,
          errors, up>>

(***************************************************************************)
(* The entry points.                                                       *)
(***************************************************************************)
\* Say: send by way of the broker, "plain" or "targeted".
Say(type, via) == [op |-> "say", type |-> type, via |-> via]
\* Hear: "control" is dispatcher.waitFor, which fails on an error frame; "any" is
\* targetedDispatcher.waitFor; "raw" is a select that also takes any targeted message.
Hear(type, how) == [op |-> "hear", type |-> type, how |-> how]
\* SetLocalDescription: candidates are gathered from here on and sent as they come.
\* (Plain ones go to disp.ice, where only the pumps read: they are left out.)
Gather(via) == [op |-> "gather", via |-> via]
\* Wait for the data channel: `label` is the one created or looked for, if any.
Open(label, timed) == [op |-> "open", label |-> label, timed |-> timed]

Initiate(via, how, label, timed) ==
  <<Say("pake.a", via), Hear("pake.b", how), Gather(via), Say("offer", via),
    Hear("answer", how), Open(label, timed)>>
Respond(how, label, timed) ==
  <<Hear("pake.a", how), Say("pake.b", "plain"), Hear("offer", how),
    Say("answer", "plain"), Open(label, timed)>>

Send == Initiate("plain", "control", "gmmff", FALSE)
SendBytes == Initiate("plain", "control", "gmmff", FALSE)
Receive == Respond("control", "any", FALSE)
ReceiveToBytes == Respond("control", "any", FALSE)
Chat(role) ==
  IF role = "Receiver" THEN Respond("control", "any", FALSE)
  ELSE Initiate("plain", "control", "gmmff-chat", FALSE)
ChatWithCallback(role) ==
  IF role = "Receiver" THEN Respond("control", "any", FALSE)
  ELSE Initiate("plain", "control", "gmmff-chat", FALSE)
initiatorHandshakeWithPeer == Initiate("targeted", "any", "control", TRUE)
acceptPeer == Initiate("targeted", "any", "control", TRUE)

\* Mutant: the joiner of a session listens only for plain messages.
doSessionHandshakePlain == Respond("control", "control", TRUE)

doSessionHandshake == Respond("raw", "control", TRUE)

Script(entry) ==
  CASE entry = "Send" -> Send
    [] entry = "SendBytes" -> SendBytes
    [] entry = "Receive" -> Receive
    [] entry = "ReceiveToBytes" -> ReceiveToBytes
    [] entry = "Chat Sender" -> Chat("Sender")
    [] entry = "Chat Receiver" -> Chat("Receiver")
    [] entry = "ChatWithCallback Sender" -> ChatWithCallback("Sender")
    [] entry = "ChatWithCallback Receiver" -> ChatWithCallback("Receiver")
    [] entry = "StartSession" -> initiatorHandshakeWithPeer
    [] entry = "JoinSession" -> doSessionHandshake

ScriptOf(t) ==
  IF t[1] = "j" THEN Script(scen.join)
  ELSE IF t[2] = 1 THEN Script(scen.create) ELSE acceptPeer

Op(t) == ScriptOf(t)[step[t]]

(***************************************************************************)
(* The slot, and who starts when.                                          *)
(***************************************************************************)
Channels == {"pake.a", "pake.b", "offer", "answer", "targeted"}

Init ==
  /\ scen \in Scenarios
  /\ code \in [Joiners -> BOOLEAN] /\ \A j \in Joiners : j > scen.n => code[j]
  /\ joined = 0 /\ waiting = <<>>
  /\ status = [t \in Threads |-> "idle"] /\ step = [t \in Threads |-> 1]
  /\ key = [t \in Threads |-> None] /\ remote = [t \in Threads |-> None]
  /\ gathering = {}
  /\ box = [x \in Clients |-> [ch \in Channels |-> <<>>]]
  /\ errors = {} /\ up = {}

Over == {"error", "refused", "timeout", "quit"}

\* A joiner is gone with its thread, the creator with its first thread; a later
\* one that fails is a goroutine that returns.
Gone(x) ==
  IF x = Creator
  THEN \E j \in Joiners :
         \/ status[<<"c", j>>] = "quit"
         \/ j = 1 /\ status[<<"c", j>>] \in Over
  ELSE status[<<"j", x>>] \in Over

\* notifyJoinedPeers: slot.ready to the joiner, whose entry point starts, and
\* peer.joined to the creator.
SlotJoin(j) ==
  /\ j = joined + 1 /\ j <= scen.n
  /\ ~Gone(Creator)
  /\ joined' = j /\ waiting' = Append(waiting, j)
  /\ status' = [status EXCEPT ![<<"j", j>>] = "running"]
  /\ UNCHANGED <<scen, code, step, key, remote, gathering, box, errors, up>>

StartThread(j) ==
  /\ waiting # <<>> /\ j = Head(waiting) /\ ~Gone(Creator)
  /\ waiting' = Tail(waiting)
  /\ status' = [status EXCEPT ![<<"c", j>>] = "running"]
  /\ UNCHANGED <<scen, code, joined, step, key, remote, gathering, box, errors, up>>

\* slot.ready and the first peer.joined: the creator's entry point gets going.
StartSession(j) == StartThread(j) /\ j = 1

\* initiatorAcceptMorePeers: only once the first peer is connected.
initiatorAcceptMorePeers(j) ==
  StartThread(j) /\ j # 1 /\ status[<<"c", 1>>] = "done"

(***************************************************************************)
(* The steps of a thread.                                                  *)
(***************************************************************************)
Running(t, op) == status[t] = "running" /\ Op(t).op = op
Advance(t) ==
  /\ step' = [step EXCEPT ![t] = @ + 1]
  /\ UNCHANGED status
Fail(t, why) ==
  /\ status' = [status EXCEPT ![t] = why]
  /\ UNCHANGED step

\* Mutant: an answer is sorted with the offers.
ChannelMixed(m, via) ==
  IF via = "targeted" THEN "targeted" ELSE IF m.type = "answer" THEN "offer" ELSE m.type

\* dispatcher.run: a channel for each type, one for all that is targeted.
Channel(m, via) == IF via = "targeted" THEN "targeted" ELSE m.type

\* relay: targeted to the joiner; plain from a joiner to the creator, from the
\* creator to the first joiner.  An error frame comes back when nobody is there,
\* but not for a targeted message.
Post(t, m, via) ==
  LET to == IF t[1] = "j" THEN Creator ELSE IF via = "targeted" THEN t[2] ELSE 1
      ch == Channel(m, via) IN
  /\ box' = IF Gone(to) THEN box ELSE [box EXCEPT ![to][ch] = Append(@, m)]
  /\ errors' = IF Gone(to) /\ via = "plain" THEN errors \cup {Of(t)} ELSE errors

\* A PAKE message carries its author's share, a description the key's MAC.
Message(t, type) == [type |-> type, by |-> t, mac |-> key[t]]

say(t) ==
  /\ Running(t, "say")
  /\ Post(t, Message(t, Op(t).type), Op(t).via)
  /\ Advance(t)
  /\ UNCHANGED <<scen, code, joined, waiting, key, remote, gathering, up>>

gather(t) ==
  /\ Running(t, "gather")
  /\ gathering' = IF Op(t).via = "targeted" THEN gathering \cup {t} ELSE gathering
  /\ Advance(t)
  /\ UNCHANGED <<scen, code, joined, waiting, key, remote, box, errors, up>>

\* trickleICETargeted: a candidate is sent when it is found, one or many or none.
candidate(t) ==
  /\ t \in gathering /\ status[t] \in {"running", "done"}
  /\ Len(box[t[2]]["targeted"]) < MaxTargeted
  /\ Post(t, Message(t, "ice"), "targeted")
  /\ UNCHANGED <<scen, code, joined, waiting, status, step, key, remote, gathering, up>>

\* The joiner's collector: candidates go to the buffer, the rest goes back.
collect(j) ==
  LET q == box[j]["targeted"] IN
  /\ scen.join = "JoinSession" /\ status[<<"j", j>>] \in {"running", "done"}
  /\ step[<<"j", j>>] > 2
  /\ q # <<>>
  /\ box' = [box EXCEPT ![j]["targeted"] =
               IF Head(q).type = "ice" THEN Tail(q) ELSE Append(Tail(q), Head(q))]
  /\ UNCHANGED <<scen, code, joined, waiting, status, step, key, remote, gathering,
                 errors, up>>

\* Mutant: the MAC of a description is not checked.
VerifyNothing(t, m) == TRUE

\* VerifyOffer, VerifyAnswer: a candidate taken for a description has no MAC.
Verify(t, m) == m.type # "ice" /\ m.mac = key[t]

\* cpace Exchange and Finish: both shares and the secret.
Secret(t) == t[1] = "c" \/ code[t[2]]
PakeKey(t, m) ==
  IF m.type = "pake.a" THEN <<m.by, t, Secret(t)>> ELSE <<t, m.by, Secret(t)>>

\* What the thread does with the message it has waited for.
Accept(t, m) ==
  IF Op(t).type \in {"pake.a", "pake.b"}
  THEN /\ key' = [key EXCEPT ![t] = PakeKey(t, m)]
       /\ Advance(t)
       /\ UNCHANGED remote
  ELSE /\ UNCHANGED key
       /\ IF Verify(t, m)
          THEN remote' = [remote EXCEPT ![t] = m.by] /\ Advance(t)
          ELSE UNCHANGED remote /\ Fail(t, "refused")

\* The channels a thread waits on.  targetedDispatcher.waitFor looks at nobody's
\* name: it takes the message of any joiner.
Heard(t) == {Op(t).type} \cup IF Op(t).how = "raw" THEN {"targeted"} ELSE {}

hear(t, ch) ==
  /\ Running(t, "hear") /\ ch \in Heard(t)
  /\ box[Of(t)][ch] # <<>>
  /\ Accept(t, Head(box[Of(t)][ch]))
  /\ box' = [box EXCEPT ![Of(t)][ch] = Tail(@)]
  /\ UNCHANGED <<scen, code, joined, waiting, gathering, errors, up>>

\* dispatcher.waitFor: an error frame on disp.control.
hearError(t) ==
  /\ Running(t, "hear") /\ Op(t).how = "control" /\ Of(t) \in errors
  /\ errors' = errors \ {Of(t)}
  /\ Fail(t, "error")
  /\ UNCHANGED <<scen, code, joined, waiting, key, remote, gathering, box, up>>

\* ICE finds a path between two threads that have each other's description.
Connect(t) ==
  LET r == remote[t] IN
  /\ t[1] = "c" /\ t \notin up /\ r # None
  /\ remote[r] = t /\ status[t] = "running" /\ status[r] = "running"
  /\ up' = up \cup {t, r}
  /\ UNCHANGED <<scen, code, joined, waiting, status, step, key, remote, gathering, box,
                 errors>>

\* dcReady: the created channel opens, or one with the right label arrives.
open(t) ==
  /\ Running(t, "open") /\ t \in up
  /\ Op(t).label \in {"any", Op(remote[t]).label} \/ ScriptOf(t)[1].op = "say"
  /\ status' = [status EXCEPT ![t] = "done"]
  /\ UNCHANGED <<scen, code, joined, waiting, step, key, remote, gathering, box, errors,
                 up>>

\* time.After(20 s), where there is a timer.
openTimeout(t) ==
  /\ Running(t, "open") /\ Op(t).timed
  /\ Fail(t, "timeout")
  /\ UNCHANGED <<scen, code, joined, waiting, key, remote, gathering, box, errors, up>>

\* The user gives up while a thread of the client is waiting: ctx is cancelled.
Quit(x) ==
  /\ \E t \in Threads : Of(t) = x /\ status[t] = "running"
  /\ status' = [t \in Threads |->
       IF Of(t) = x /\ status[t] = "running" THEN "quit" ELSE status[t]]
  /\ UNCHANGED <<scen, code, joined, waiting, step, key, remote, gathering, box, errors,
                 up>>

Run(t) ==
  \/ say(t) \/ gather(t) \/ hearError(t) \/ open(t) \/ openTimeout(t)
  \/ \E ch \in Channels : hear(t, ch)

Next ==
  \/ \E j \in Joiners : SlotJoin(j) \/ StartSession(j) \/ initiatorAcceptMorePeers(j)
  \/ \E j \in Joiners : collect(j)
  \/ \E t \in Threads : Run(t) \/ candidate(t) \/ Connect(t)
  \/ \E x \in Clients : Quit(x)

Spec == Init /\ [][Next]_vars

\* The first joiner's and the creator's threads run, and a timer that is running goes
\* off.  Nobody has to join, to gather or to give up, and ICE need not find a path.
FairSpec ==
  /\ Spec
  /\ WF_vars(StartSession(1))
  /\ WF_vars(Run(<<"c", 1>>)) /\ WF_vars(Run(<<"j", 1>>))

(***************************************************************************)
(* What is checked.                                                        *)
(***************************************************************************)
Keys == Threads \X Threads \X BOOLEAN
Messages == [type : (Channels \ {"targeted"}) \cup {"ice"}, by : Threads, mac : Keys \cup {None}]

ASSUME NoneAssumption == None \notin Threads \cup Keys

\* The threads, the keys and the channels are well typed, and nothing but what the
\* dispatcher sorts there is in a channel.
TypeOK ==
  /\ scen \in Scenarios /\ code \in [Joiners -> BOOLEAN]
  /\ joined \in 0 .. MaxJoiners /\ waiting \in Seq(Joiners)
  /\ status \in [Threads -> {"idle", "running", "done"} \cup Over]
  /\ step \in [Threads -> Nat] /\ \A t \in Threads : step[t] \in DOMAIN ScriptOf(t)
  /\ key \in [Threads -> Keys \cup {None}] /\ remote \in [Threads -> Threads \cup {None}]
  /\ gathering \subseteq Threads /\ errors \subseteq Clients /\ up \subseteq Threads
  /\ box \in [Clients -> [Channels -> Seq(Messages)]]
  /\ \A x \in Clients, ch \in Channels :
       ch # "targeted" => \A i \in 1 .. Len(box[x][ch]) : box[x][ch][i].type = ch

\* However the messages of joiners that shake hands at the same time are mixed up
\* (the dispatcher's channels are shared and waitFor takes the first message of
\* its type, whoever sent it), a thread that gets a channel has it to the client
\* it is for, with the same key on both sides, and that client knows the code.
Authentic ==
  \A t \in up \cup {u \in Threads : status[u] = "done"} :
    /\ remote[t] \in Threads /\ remote[t][1] # t[1] /\ remote[t][2] = t[2]
    /\ key[t] = key[remote[t]] /\ code[t[2]]

\* The first joiner waits for its channel, without a timer, and ICE has found no path.
NoPath ==
  LET j == <<"j", 1>> IN
  Running(j, "open") /\ ~ Op(j).timed /\ j \notin up

\* A joiner alone with a creator does not wait for ever: its entry point returns, with
\* a connection or with an error.  Two things excuse it, because nothing in peer.go
\* ends the wait then.  The creator may be gone, for whatever reason (it has given up,
\* failed, refused what it heard, or its timer has gone off): nobody tells the joiner,
\* since waitFor passes over the bye.  And where Send, Receive and Chat wait for dcReady
\* with no timer, ICE may find no path.
Returns ==
  [](scen.n = 1 /\ status[<<"j", 1>>] = "running" =>
       <>(status[<<"j", 1>>] # "running" \/ Gone(Creator) \/ []NoPath))

\* docs/CLI.md: "they all `gmmff join` the same code": who has the code is let in,
\* unless somebody gives up or a connection takes too long.
LetIn ==
  \A j \in Joiners : code[j] => status[<<"j", j>>] # "refused"
=============================================================================
