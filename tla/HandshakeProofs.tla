-------------------------- MODULE HandshakeProofs ---------------------------
(***************************************************************************)
(* Proofs about Handshake, for any number of joiners, any entry points on  *)
(* the two sides, right and wrong codes, and any interleaving.             *)
(*                                                                         *)
(* Who is connected to whom is not inductive.  It follows from three       *)
(* facts: a message of the creator's thread for j is only ever in j's      *)
(* channels and one of a joiner only in the creator's (Delivered); a       *)
(* thread's key is set once, before it looks at any description, and with  *)
(* it the MAC of all it says later (Keyed, Signed); and a description is   *)
(* taken from somebody with the same key only (Paired).                    *)
(*                                                                         *)
(* How long the plain channels become rests on every thread saying what it *)
(* says once (Once), and on counting.  Of candidates there may be any      *)
(* number, and nothing is said of the channel they go through.             *)
(***************************************************************************)
EXTENDS Handshake, SequenceTheorems, FiniteSetTheorems, TLAPS

\* The steps of t's script at which it hears the other's share and description.
Initiates(t) == ScriptOf(t)[1].op = "say"
PakeStep(t) == IF Initiates(t) THEN 2 ELSE 1
DescStep(t) == IF Initiates(t) THEN 5 ELSE 3
LastStep(t) == IF Initiates(t) THEN 6 ELSE 5

\* A message is where its author's messages go.
Delivered(x, m) == x = IF m.by[1] = "c" THEN m.by[2] ELSE Creator

\* A MAC is that of the author's key, for keys k.
Signed(k, m) == m.mac # None => m.mac = k[m.by]

Posted ==
  \A x \in Clients, ch \in Channels : \A i \in 1 .. Len(box[x][ch]) :
    Delivered(x, box[x][ch][i]) /\ Signed(key, box[x][ch][i])

\* A thread has a key from the moment it has heard the other's share.
Keyed ==
  \A t \in Threads :
    /\ key[t] # None <=> step[t] > PakeStep(t)
    /\ key[t] # None => key[t][3] = Secret(t)

\* Whose description a thread has applied.
Paired ==
  \A t \in Threads :
    remote[t] # None =>
      /\ step[t] > DescStep(t)
      /\ remote[t][1] # t[1]
      /\ t[1] = "j" => remote[t] = <<"c", t[2]>>
      /\ key[t] # None /\ key[remote[t]] = key[t]

\* Who is connected, and that nobody is done who is not.
Linked ==
  /\ \A t \in up : remote[t] # None /\ remote[t][2] = t[2]
  /\ \A t \in Threads : status[t] = "done" => t \in up

IInv == TypeOK /\ Posted /\ Keyed /\ Paired /\ Linked

-----------------------------------------------------------------------------
(* The scripts.                                                            *)

\* The steps of one who speaks first.
LEMMA InitiateFact ==
  ASSUME NEW via, NEW how, NEW label, NEW timed
  PROVE  LET s == Initiate(via, how, label, timed) IN
         /\ DOMAIN s = 1 .. 6
         /\ s[1] = Say("pake.a", via) /\ s[2] = Hear("pake.b", how) /\ s[3] = Gather(via)
         /\ s[4] = Say("offer", via) /\ s[5] = Hear("answer", how) /\ s[6] = Open(label, timed)
BY DEF Initiate

\* The steps of one who answers.
LEMMA RespondFact ==
  ASSUME NEW how, NEW label, NEW timed
  PROVE  LET s == Respond(how, label, timed) IN
         /\ DOMAIN s = 1 .. 5
         /\ s[1] = Hear("pake.a", how) /\ s[2] = Say("pake.b", "plain")
         /\ s[3] = Hear("offer", how) /\ s[4] = Say("answer", "plain")
         /\ s[5] = Open(label, timed)
BY DEF Respond

\* Every entry point speaks first or answers.
LEMMA EntryFact ==
  ASSUME NEW e \in Entries
  PROVE  \/ \E via \in {"plain", "targeted"} : \E how, label, timed :
              Script(e) = Initiate(via, how, label, timed)
         \/ \E how, label, timed : Script(e) = Respond(how, label, timed)
<1>1. \/ Script(e) = Initiate("plain", "control", "gmmff", FALSE)
      \/ Script(e) = Initiate("plain", "control", "gmmff-chat", FALSE)
      \/ Script(e) = Initiate("targeted", "any", "control", TRUE)
      \/ Script(e) = Respond("control", "any", FALSE)
      \/ Script(e) = Respond("raw", "control", TRUE)
  BY DEF Entries, Script, Send, SendBytes, Receive, ReceiveToBytes, Chat, ChatWithCallback,
         initiatorHandshakeWithPeer, doSessionHandshake
<1>. QED  BY <1>1

\* What a thread may find at each of its steps; the later threads of the creator
\* speak to their own joiner only.
LEMMA ScriptFact ==
  ASSUME scen \in Scenarios, NEW t \in Threads
  PROVE  \E via \in {"plain", "targeted"} : \E how, label, timed :
           /\ t[1] = "c" /\ t[2] # 1 => via = "targeted" /\ Initiates(t)
           /\ Initiates(t) => ScriptOf(t) = Initiate(via, how, label, timed)
           /\ ~ Initiates(t) => ScriptOf(t) = Respond(how, label, timed)
<1>1. acceptPeer = Initiate("targeted", "any", "control", TRUE)
  BY DEF acceptPeer
<1>2. \A via, how, label, timed : Initiate(via, how, label, timed)[1].op = "say"
  BY DEF Initiate, Say
<1>3. \A how, label, timed : Respond(how, label, timed)[1].op # "say"
  BY DEF Respond, Hear
<1>4. CASE t[1] = "c" /\ t[2] # 1
  <2>1. ScriptOf(t) = Initiate("targeted", "any", "control", TRUE)
    BY <1>1, <1>4 DEF ScriptOf
  <2>. QED  BY <1>2, <2>1 DEF Initiates
<1>5. CASE ~ (t[1] = "c" /\ t[2] # 1)
  <2>1. \E e \in Entries : ScriptOf(t) = Script(e)
    BY <1>5, ConstantsAssumption DEF ScriptOf, Threads
  <2>. QED  BY <1>2, <1>3, <1>5, <2>1, EntryFact DEF Initiates
<1>. QED  BY <1>4, <1>5

\* Each kind of step, by its place in the script.
LEMMA OpFact ==
  ASSUME scen \in Scenarios, NEW t \in Threads, step[t] \in DOMAIN ScriptOf(t)
  PROVE  /\ DOMAIN ScriptOf(t) = 1 .. LastStep(t)
         /\ Op(t).op \in {"say", "gather"} =>
              /\ step[t] # PakeStep(t) /\ step[t] # DescStep(t) /\ step[t] # LastStep(t)
              /\ Op(t).via \in {"plain", "targeted"}
              /\ t[1] = "c" => Op(t).via = "targeted" \/ t[2] = 1
         /\ Op(t).op = "say" => Op(t).type \in Channels \ {"targeted"}
         /\ Op(t).op = "hear" =>
              \/ step[t] = PakeStep(t) /\ Op(t).type \in {"pake.a", "pake.b"}
              \/ step[t] = DescStep(t) /\ Op(t).type \in {"offer", "answer"}
         /\ Op(t).op = "open" => step[t] = LastStep(t)
<1>1. PICK via, how, label, timed :
           /\ via \in {"plain", "targeted"}
           /\ t[1] = "c" /\ t[2] # 1 => via = "targeted" /\ Initiates(t)
           /\ Initiates(t) => ScriptOf(t) = Initiate(via, how, label, timed)
           /\ ~ Initiates(t) => ScriptOf(t) = Respond(how, label, timed)
  BY ScriptFact
<1>2. CASE Initiates(t)
  <2>. DEFINE s == Initiate(via, how, label, timed)
  <2>1. /\ ScriptOf(t) = s /\ DOMAIN s = 1 .. 6 /\ step[t] \in 1 .. 6
        /\ s[1] = Say("pake.a", via) /\ s[2] = Hear("pake.b", how) /\ s[3] = Gather(via)
        /\ s[4] = Say("offer", via) /\ s[5] = Hear("answer", how) /\ s[6] = Open(label, timed)
    BY <1>1, <1>2, InitiateFact
  <2>. HIDE DEF s
  <2>2. step[t] \in {1, 2, 3, 4, 5, 6}
    BY <2>1
  <2>. QED
    BY <1>1, <1>2, <2>1, <2>2
    DEF Op, Say, Hear, Gather, Open, PakeStep, DescStep, LastStep, Channels
<1>3. CASE ~ Initiates(t)
  <2>. DEFINE s == Respond(how, label, timed)
  <2>1. /\ ScriptOf(t) = s /\ DOMAIN s = 1 .. 5 /\ step[t] \in 1 .. 5
        /\ s[1] = Hear("pake.a", how) /\ s[2] = Say("pake.b", "plain")
        /\ s[3] = Hear("offer", how) /\ s[4] = Say("answer", "plain")
        /\ s[5] = Open(label, timed)
    BY <1>1, <1>3, RespondFact
  <2>. HIDE DEF s
  <2>2. step[t] \in {1, 2, 3, 4, 5}
    BY <2>1
  <2>. QED
    BY <1>1, <1>3, <2>1, <2>2
    DEF Op, Say, Hear, Gather, Open, PakeStep, DescStep, LastStep, Channels
<1>. QED  BY <1>2, <1>3

\* The scripts and the secrets stay what they are.
LEMMA SameFact ==
  ASSUME scen' = scen, code' = code
  PROVE  \A t \in Threads :
           /\ ScriptOf(t)' = ScriptOf(t) /\ PakeStep(t)' = PakeStep(t)
           /\ DescStep(t)' = DescStep(t) /\ LastStep(t)' = LastStep(t)
           /\ Secret(t)' = Secret(t)
BY DEF ScriptOf, PakeStep, DescStep, LastStep, Initiates, Secret

\* A thread's steps are numbers, the last after the others.
LEMMA StepsFact ==
  ASSUME NEW t \in Threads
  PROVE  /\ PakeStep(t) \in 1 .. 2 /\ DescStep(t) \in 3 .. 5 /\ LastStep(t) \in 5 .. 6
         /\ PakeStep(t) < DescStep(t) /\ DescStep(t) < LastStep(t)
BY DEF PakeStep, DescStep, LastStep

-----------------------------------------------------------------------------
(* The channels.                                                           *)

\* Replacing one queue leaves the others alone.
LEMMA PutBox ==
  ASSUME box \in [Clients -> [Channels -> Seq(Messages)]],
         NEW x \in Clients, NEW ch \in Channels, NEW q \in Seq(Messages),
         box' = [box EXCEPT ![x][ch] = q]
  PROVE  /\ box' \in [Clients -> [Channels -> Seq(Messages)]]
         /\ \A y \in Clients, c \in Channels :
              box'[y][c] = IF y = x /\ c = ch THEN q ELSE box[y][c]
<1>1. [box[x] EXCEPT ![ch] = q] \in [Channels -> Seq(Messages)]
  OBVIOUS
<1>2. box' = [box EXCEPT ![x] = [box[x] EXCEPT ![ch] = q]]
  OBVIOUS
<1>. QED  BY <1>1, <1>2

\* What a message in a channel is like, for keys k.
Good(k, x, ch, m) ==
  /\ Delivered(x, m) /\ Signed(k, m)
  /\ ch # "targeted" => m.type = ch

\* The channels hold good messages and nothing else.
Boxes(b, k) ==
  /\ b \in [Clients -> [Channels -> Seq(Messages)]]
  /\ \A x \in Clients, ch \in Channels : \A i \in 1 .. Len(b[x][ch]) :
       Good(k, x, ch, b[x][ch][i])

\* Boxes is what TypeOK and Posted say of the channels.
LEMMA BoxesFact ==
  /\ TypeOK /\ Posted => Boxes(box, key)
  /\ Boxes(box, key) => Posted
BY DEF TypeOK, Posted, Boxes, Good

\* A queue is replaced by one of good messages.
LEMMA PutGood ==
  ASSUME NEW k, Boxes(box, k), NEW x \in Clients, NEW ch \in Channels, NEW q \in Seq(Messages),
         box' = [box EXCEPT ![x][ch] = q], \A i \in 1 .. Len(q) : Good(k, x, ch, q[i])
  PROVE  Boxes(box', k)
<1>1. /\ box' \in [Clients -> [Channels -> Seq(Messages)]]
      /\ \A y \in Clients, c \in Channels :
           box'[y][c] = IF y = x /\ c = ch THEN q ELSE box[y][c]
  BY PutBox DEF Boxes
<1>. QED  BY <1>1 DEF Boxes

\* A good message is appended.
LEMMA AppendFact ==
  ASSUME NEW k, Boxes(box, k), NEW x \in Clients, NEW ch \in Channels, NEW m \in Messages,
         Good(k, x, ch, m), box' = [box EXCEPT ![x][ch] = Append(@, m)]
  PROVE  Boxes(box', k)
<1>. DEFINE p == box[x][ch]
            q == Append(p, m)
<1>1. p \in Seq(Messages) /\ \A i \in 1 .. Len(p) : Good(k, x, ch, p[i])
  BY DEF Boxes
<1>2. box' = [box EXCEPT ![x][ch] = q]
  OBVIOUS
<1>. HIDE DEF p
<1>3. /\ q \in Seq(Messages) /\ Len(q) = Len(p) + 1 /\ Len(p) \in Nat
      /\ \A i \in 1 .. Len(p) : q[i] = p[i]
      /\ q[Len(p) + 1] = m
  BY <1>1, AppendProperties, LenProperties
<1>. HIDE DEF q
<1>4. \A i \in 1 .. Len(q) : Good(k, x, ch, q[i])
  <2>. SUFFICES ASSUME NEW i \in 1 .. Len(q) PROVE Good(k, x, ch, q[i])
    OBVIOUS
  <2>1. i \in 1 .. Len(p) \/ i = Len(p) + 1
    BY <1>3
  <2>. QED  BY <1>1, <1>3, <2>1
<1>. QED  BY <1>2, <1>3, <1>4, PutGood

\* The first message is taken.
LEMMA TailFact ==
  ASSUME NEW k, Boxes(box, k), NEW x \in Clients, NEW ch \in Channels, box[x][ch] # <<>>,
         box' = [box EXCEPT ![x][ch] = Tail(@)]
  PROVE  /\ Boxes(box', k)
         /\ Head(box[x][ch]) \in Messages /\ Good(k, x, ch, Head(box[x][ch]))
<1>. DEFINE p == box[x][ch]
            q == Tail(p)
<1>1. p \in Seq(Messages) /\ \A i \in 1 .. Len(p) : Good(k, x, ch, p[i])
  BY DEF Boxes
<1>2. box' = [box EXCEPT ![x][ch] = q] /\ p # <<>>
  OBVIOUS
<1>. HIDE DEF p
<1>3. /\ q \in Seq(Messages) /\ Len(q) = Len(p) - 1 /\ Len(p) \in Nat \ {0}
      /\ \A i \in 1 .. Len(q) : q[i] = p[i + 1]
      /\ Head(p) \in Messages /\ Head(p) = p[1]
  BY <1>1, <1>2, HeadTailProperties, EmptySeq
<1>. HIDE DEF q
<1>4. \A i \in 1 .. Len(q) : Good(k, x, ch, q[i])
  <2>. SUFFICES ASSUME NEW i \in 1 .. Len(q) PROVE Good(k, x, ch, q[i])
    OBVIOUS
  <2>1. i + 1 \in 1 .. Len(p)
    BY <1>3
  <2>. QED  BY <1>1, <1>3, <2>1
<1>5. Good(k, x, ch, Head(p))
  BY <1>1, <1>3
<1>. QED  BY <1>2, <1>3, <1>4, <1>5, PutGood DEF p

\* A thread sends a message: it arrives where its author's messages go.
LEMMA PostFact ==
  ASSUME NEW t \in Threads, NEW type \in (Channels \ {"targeted"}) \cup {"ice"},
         NEW via \in {"plain", "targeted"}, type = "ice" => via = "targeted",
         t[1] = "c" => via = "targeted" \/ t[2] = 1,
         Boxes(box, key), key \in [Threads -> Keys \cup {None}], errors \subseteq Clients,
         Post(t, Message(t, type), via)
  PROVE  Boxes(box', key) /\ errors' \subseteq Clients
<1>. DEFINE m == Message(t, type)
            to == IF t[1] = "j" THEN Creator ELSE IF via = "targeted" THEN t[2] ELSE 1
            ch == Channel(m, via)
<1>1. /\ t[1] \in {"c", "j"} /\ t[2] \in Joiners
      /\ to \in Clients /\ Of(t) \in Clients
  BY ConstantsAssumption DEF Threads, Clients, Of, Joiners
<1>2. m \in Messages /\ m.type = type /\ m.by = t /\ m.mac = key[t]
  BY DEF Messages, Message
<1>3. ch \in Channels /\ (ch # "targeted" => m.type = ch)
  BY <1>2 DEF Channel, Channels
<1>4. Good(key, to, ch, m)
  BY <1>1, <1>2, <1>3 DEF Good, Delivered, Signed
<1>5. /\ box' = IF Gone(to) THEN box ELSE [box EXCEPT ![to][ch] = Append(@, m)]
      /\ errors' \subseteq errors \cup {Of(t)}
  BY DEF Post
<1>. HIDE DEF m, to, ch
<1>. QED  BY <1>1, <1>2, <1>3, <1>4, <1>5, AppendFact
-----------------------------------------------------------------------------
(* Every step preserves the invariant.                                     *)

\* Statuses are all that a thread's start, its end and the user's giving up change.
LEMMA StatusStep ==
  ASSUME IInv, status' \in [Threads -> {"idle", "running", "done"} \cup Over],
         \A t \in Threads : status'[t] = "done" => t \in up,
         joined' \in 0 .. MaxJoiners, waiting' \in Seq(Joiners), errors' \subseteq Clients,
         UNCHANGED <<scen, code, step, key, remote, gathering, box, up>>
  PROVE  IInv'
<1>1. TypeOK'
  BY SameFact DEF IInv, TypeOK
<1>2. Posted' /\ Keyed' /\ Paired'
  BY SameFact DEF IInv, Posted, Keyed, Paired
<1>3. Linked'
  BY DEF IInv, Linked
<1>. QED  BY <1>1, <1>2, <1>3 DEF IInv

\* A client joins the slot.
LEMMA SlotJoinStep ==
  ASSUME IInv, NEW j \in Joiners, SlotJoin(j)
  PROVE  IInv'
<1>1. /\ status \in [Threads -> {"idle", "running", "done"} \cup Over]
      /\ waiting \in Seq(Joiners)
  BY DEF IInv, TypeOK
<1>2. waiting' \in Seq(Joiners) /\ joined' \in 0 .. MaxJoiners
  BY <1>1, AppendProperties DEF SlotJoin, Joiners
<1>3. \A t \in Threads : status'[t] \in {status[t], "running"}
  BY <1>1 DEF SlotJoin
<1>4. status' \in [Threads -> {"idle", "running", "done"} \cup Over]
  BY <1>1, <1>3 DEF SlotJoin
<1>5. errors' \subseteq Clients
  BY DEF IInv, TypeOK, SlotJoin
<1>. QED  BY <1>2, <1>3, <1>4, <1>5, StatusStep DEF SlotJoin, IInv, Linked

\* The creator starts a thread for a joiner.
LEMMA StartThreadStep ==
  ASSUME IInv, NEW j \in Joiners, StartThread(j)
  PROVE  IInv'
<1>1. /\ status \in [Threads -> {"idle", "running", "done"} \cup Over]
      /\ waiting \in Seq(Joiners) /\ waiting # <<>>
  BY DEF IInv, TypeOK, StartThread
<1>2. waiting' \in Seq(Joiners) /\ joined' \in 0 .. MaxJoiners
  BY <1>1, HeadTailProperties DEF StartThread, IInv, TypeOK
<1>3. \A t \in Threads : status'[t] \in {status[t], "running"}
  BY <1>1 DEF StartThread
<1>4. status' \in [Threads -> {"idle", "running", "done"} \cup Over]
  BY <1>1, <1>3 DEF StartThread
<1>5. errors' \subseteq Clients
  BY DEF IInv, TypeOK, StartThread
<1>. QED  BY <1>2, <1>3, <1>4, <1>5, StatusStep DEF StartThread, IInv, Linked

\* A thread fails, for whatever reason.
LEMMA FailStep ==
  ASSUME IInv, NEW t \in Threads, NEW why \in Over, Fail(t, why), errors' \subseteq Clients,
         UNCHANGED <<scen, code, joined, waiting, key, remote, gathering, box, up>>
  PROVE  IInv'
<1>1. status \in [Threads -> {"idle", "running", "done"} \cup Over]
  BY DEF IInv, TypeOK
<1>2. status' \in [Threads -> {"idle", "running", "done"} \cup Over] /\ UNCHANGED step
  BY <1>1 DEF Fail
<1>3. \A u \in Threads : status'[u] = "done" => u \in up
  BY <1>1 DEF Fail, IInv, Linked, Over
<1>4. joined' \in 0 .. MaxJoiners /\ waiting' \in Seq(Joiners)
  BY DEF IInv, TypeOK
<1>. QED  BY <1>2, <1>3, <1>4, StatusStep

\* The data channel opens.
LEMMA OpenStep ==
  ASSUME IInv, NEW t \in Threads, open(t)
  PROVE  IInv'
<1>1. status \in [Threads -> {"idle", "running", "done"} \cup Over]
  BY DEF IInv, TypeOK
<1>2. /\ status' \in [Threads -> {"idle", "running", "done"} \cup Over]
      /\ \A u \in Threads : status'[u] = "done" => u \in up
  BY <1>1 DEF open, IInv, Linked
<1>3. /\ joined' \in 0 .. MaxJoiners /\ waiting' \in Seq(Joiners) /\ errors' \subseteq Clients
  BY DEF IInv, TypeOK, open
<1>. QED  BY <1>2, <1>3, StatusStep DEF open

\* The user gives up.
LEMMA QuitStep ==
  ASSUME IInv, NEW x \in Clients, Quit(x)
  PROVE  IInv'
<1>1. status \in [Threads -> {"idle", "running", "done"} \cup Over]
  BY DEF IInv, TypeOK
<1>2. /\ status' \in [Threads -> {"idle", "running", "done"} \cup Over]
      /\ \A u \in Threads : status'[u] = "done" => u \in up
  BY <1>1 DEF Quit, IInv, Linked, Over
<1>3. /\ joined' \in 0 .. MaxJoiners /\ waiting' \in Seq(Joiners) /\ errors' \subseteq Clients
  BY DEF IInv, TypeOK, Quit
<1>. QED  BY <1>2, <1>3, StatusStep DEF Quit

\* Messages are added, taken or moved and nothing else changes.
LEMMA BoxStep ==
  ASSUME IInv, Boxes(box', key), gathering' \subseteq Threads, errors' \subseteq Clients,
         UNCHANGED <<scen, code, joined, waiting, status, step, key, remote, up>>
  PROVE  IInv'
<1>1. TypeOK'
  <2>1. \A t \in Threads : step'[t] \in DOMAIN ScriptOf(t)'
    BY SameFact DEF IInv, TypeOK
  <2>2. /\ box' \in [Clients -> [Channels -> Seq(Messages)]]
        /\ \A x \in Clients, ch \in Channels :
             ch # "targeted" => \A i \in 1 .. Len(box'[x][ch]) : box'[x][ch][i].type = ch
    BY DEF Boxes, Good
  <2>. QED  BY <2>1, <2>2 DEF IInv, TypeOK
<1>2. Posted'
  BY DEF Posted, Boxes, Good
<1>3. Keyed' /\ Paired'
  BY SameFact DEF IInv, Keyed, Paired
<1>4. Linked'
  BY DEF IInv, Linked
<1>. QED  BY <1>1, <1>2, <1>3, <1>4 DEF IInv

\* A candidate is sent.
LEMMA CandidateStep ==
  ASSUME IInv, NEW t \in Threads, candidate(t)
  PROVE  IInv'
<1>1. Boxes(box, key) /\ key \in [Threads -> Keys \cup {None}] /\ errors \subseteq Clients
  BY BoxesFact DEF IInv, TypeOK
<1>2. Boxes(box', key) /\ errors' \subseteq Clients
  BY <1>1, PostFact DEF candidate
<1>. QED  BY <1>2, BoxStep DEF candidate, IInv, TypeOK

\* The joiner's collector drops a candidate or puts a message back.
LEMMA CollectStep ==
  ASSUME IInv, NEW j \in Joiners, collect(j)
  PROVE  IInv'
<1>. DEFINE p == box[j]["targeted"]
            q == IF Head(p).type = "ice" THEN Tail(p) ELSE Append(Tail(p), Head(p))
<1>1. Boxes(box, key) /\ j \in Clients /\ "targeted" \in Channels
  BY BoxesFact DEF IInv, Clients, Channels
<1>2. p \in Seq(Messages) /\ \A i \in 1 .. Len(p) : Good(key, j, "targeted", p[i])
  BY <1>1 DEF Boxes
<1>3. box' = [box EXCEPT ![j]["targeted"] = q] /\ p # <<>>
  BY DEF collect
<1>. HIDE DEF p
<1>4. /\ Tail(p) \in Seq(Messages) /\ Len(Tail(p)) = Len(p) - 1 /\ Len(p) \in Nat \ {0}
      /\ \A i \in 1 .. Len(Tail(p)) : Tail(p)[i] = p[i + 1]
      /\ Head(p) \in Messages /\ Head(p) = p[1]
  BY <1>2, <1>3, HeadTailProperties, EmptySeq
<1>5. \A i \in 1 .. Len(Tail(p)) : Good(key, j, "targeted", Tail(p)[i])
  <2>. SUFFICES ASSUME NEW i \in 1 .. Len(Tail(p))
                PROVE  Good(key, j, "targeted", Tail(p)[i])
    OBVIOUS
  <2>1. i + 1 \in 1 .. Len(p)
    BY <1>4
  <2>. QED  BY <1>2, <1>4, <2>1
<1>6. q \in Seq(Messages) /\ \A i \in 1 .. Len(q) : Good(key, j, "targeted", q[i])
  <2>. DEFINE r == Append(Tail(p), Head(p))
  <2>1. /\ r \in Seq(Messages) /\ Len(r) = Len(Tail(p)) + 1
        /\ \A i \in 1 .. Len(Tail(p)) : r[i] = Tail(p)[i]
        /\ r[Len(Tail(p)) + 1] = Head(p)
    BY <1>4, AppendProperties
  <2>. HIDE DEF r
  <2>2. Good(key, j, "targeted", Head(p))
    BY <1>2, <1>4
  <2>3. \A i \in 1 .. Len(r) : Good(key, j, "targeted", r[i])
    <3>. SUFFICES ASSUME NEW i \in 1 .. Len(r) PROVE Good(key, j, "targeted", r[i])
      OBVIOUS
    <3>. DEFINE n == Len(Tail(p))
    <3>1. n \in Nat /\ Len(r) = n + 1
      BY <1>4, <2>1
    <3>. HIDE DEF n
    <3>2. i \in 1 .. n \/ i = n + 1
      BY <3>1
    <3>. QED  BY <1>5, <2>1, <2>2, <3>2 DEF n
  <2>. QED  BY <1>4, <1>5, <2>1, <2>3 DEF r
<1>. HIDE DEF q
<1>7. Boxes(box', key)
  BY <1>1, <1>3, <1>6, PutGood
<1>. QED  BY <1>7, BoxStep DEF collect, IInv, TypeOK

\* A thread goes on to its next step, its key and remote being settled.
LEMMA AdvanceFact ==
  ASSUME IInv, NEW t \in Threads, Running(t, Op(t).op), Op(t).op \in {"say", "gather", "hear"},
         Advance(t), scen' = scen
  PROVE  /\ step' \in [Threads -> Nat] /\ step'[t] = step[t] + 1
         /\ \A u \in Threads : u # t => step'[u] = step[u]
         /\ \A u \in Threads : step'[u] \in DOMAIN ScriptOf(u)
         /\ status' = status
<1>1. /\ step \in [Threads -> Nat] /\ scen \in Scenarios
      /\ \A u \in Threads : step[u] \in DOMAIN ScriptOf(u)
  BY DEF IInv, TypeOK
<1>2. /\ step' \in [Threads -> Nat] /\ step'[t] = step[t] + 1 /\ status' = status
      /\ \A u \in Threads : u # t => step'[u] = step[u]
  BY <1>1 DEF Advance
<1>3. DOMAIN ScriptOf(t) = 1 .. LastStep(t) /\ step[t] # LastStep(t)
  BY <1>1, OpFact, StepsFact
<1>4. step'[t] \in DOMAIN ScriptOf(t)
  BY <1>1, <1>2, <1>3, StepsFact
<1>. QED  BY <1>1, <1>2, <1>4

\* A step that is neither of the two at which a thread hears something.
LEMMA SpeakStep ==
  ASSUME IInv, NEW t \in Threads, Running(t, Op(t).op), Op(t).op \in {"say", "gather"},
         Advance(t), Boxes(box', key), gathering' \subseteq Threads, errors' \subseteq Clients,
         UNCHANGED <<scen, code, joined, waiting, key, remote, up>>
  PROVE  IInv'
<1>1. /\ step' \in [Threads -> Nat] /\ step'[t] = step[t] + 1
      /\ \A u \in Threads : u # t => step'[u] = step[u]
      /\ \A u \in Threads : step'[u] \in DOMAIN ScriptOf(u)
      /\ status' = status
  BY AdvanceFact
<1>2. step[t] \in Nat /\ step[t] # PakeStep(t) /\ step[t] # DescStep(t)
  BY OpFact DEF IInv, TypeOK
<1>3. TypeOK'
  BY <1>1, SameFact DEF IInv, TypeOK, Boxes, Good
<1>4. Posted'
  BY DEF Posted, Boxes, Good
<1>5. Keyed'
  BY <1>1, <1>2, SameFact, StepsFact DEF IInv, Keyed
<1>6. Paired'
  BY <1>1, <1>2, SameFact, StepsFact DEF IInv, Paired
<1>7. Linked'
  BY <1>1 DEF IInv, Linked
<1>. QED  BY <1>3, <1>4, <1>5, <1>6, <1>7 DEF IInv

\* A thread sends a share or a description.
LEMMA SayStep ==
  ASSUME IInv, NEW t \in Threads, say(t)
  PROVE  IInv'
<1>1. Boxes(box, key) /\ key \in [Threads -> Keys \cup {None}] /\ errors \subseteq Clients
  BY BoxesFact DEF IInv, TypeOK
<1>2. /\ Op(t).op = "say" /\ Op(t).type \in Channels \ {"targeted"}
      /\ Op(t).via \in {"plain", "targeted"}
      /\ t[1] = "c" => Op(t).via = "targeted" \/ t[2] = 1
  BY OpFact DEF IInv, TypeOK, say, Running
<1>3. Op(t).type # "ice"
  BY <1>2 DEF Channels
<1>4. Boxes(box', key) /\ errors' \subseteq Clients
  BY <1>1, <1>2, <1>3, PostFact DEF say
<1>. QED  BY <1>2, <1>4, SpeakStep DEF say, IInv, TypeOK

\* A thread begins to gather candidates.
LEMMA GatherStep ==
  ASSUME IInv, NEW t \in Threads, gather(t)
  PROVE  IInv'
<1>1. Boxes(box', key)
  BY BoxesFact DEF IInv, gather
<1>2. gathering' \subseteq Threads /\ errors' \subseteq Clients
  BY DEF gather, IInv, TypeOK
<1>. QED  BY <1>1, <1>2, SpeakStep DEF gather, Running

\* A thread hears the other's share: it has its key from now on.
LEMMA HearPakeStep ==
  ASSUME IInv, NEW t \in Threads, Running(t, "hear"), Op(t).type \in {"pake.a", "pake.b"},
         NEW m \in Messages, key' = [key EXCEPT ![t] = PakeKey(t, m)], Advance(t),
         Boxes(box', key),
         UNCHANGED <<scen, code, joined, waiting, remote, gathering, errors, up>>
  PROVE  IInv'
<1>1. /\ step' \in [Threads -> Nat] /\ step'[t] = step[t] + 1
      /\ \A u \in Threads : u # t => step'[u] = step[u]
      /\ \A u \in Threads : step'[u] \in DOMAIN ScriptOf(u)
      /\ status' = status
  BY AdvanceFact DEF Running
<1>2. step[t] \in Nat /\ step[t] = PakeStep(t)
  BY OpFact DEF IInv, TypeOK, Running
<1>3. key[t] = None
  BY <1>2, StepsFact DEF IInv, Keyed
<1>4. PakeKey(t, m) \in Keys /\ PakeKey(t, m)[3] = Secret(t)
  <2>1. m.by \in Threads
    BY DEF Messages
  <2>2. Secret(t) \in BOOLEAN
    BY DEF Secret, IInv, TypeOK, Threads
  <2>. HIDE DEF Secret
  <2>. QED  BY <2>1, <2>2 DEF PakeKey, Keys
<1>5. /\ key' \in [Threads -> Keys \cup {None}] /\ key'[t] = PakeKey(t, m)
      /\ \A u \in Threads : u # t => key'[u] = key[u]
  BY <1>4 DEF IInv, TypeOK
<1>6. key'[t] # None
  BY <1>4, <1>5, NoneAssumption
<1>7. Boxes(box', key')
  <2>. SUFFICES ASSUME NEW x \in Clients, NEW ch \in Channels, NEW i \in 1 .. Len(box'[x][ch])
                PROVE  Good(key', x, ch, box'[x][ch][i])
    BY DEF Boxes
  <2>. DEFINE n == box'[x][ch][i]
  <2>1. Good(key, x, ch, n)
    BY DEF Boxes
  <2>2. n \in Messages
    BY ElementOfSeq DEF Boxes
  <2>3. n.by \in Threads
    BY <2>2 DEF Messages
  <2>. HIDE DEF n
  <2>4. Signed(key', n)
    BY <1>3, <1>5, <2>1, <2>3 DEF Good, Signed
  <2>5. Good(key', x, ch, n)
    BY <2>1, <2>4 DEF Good
  <2>. QED  BY <2>5 DEF n
<1>8. TypeOK'
  BY <1>1, <1>5, <1>7, SameFact DEF IInv, TypeOK, Boxes, Good
<1>9. Posted'
  BY <1>7 DEF Posted, Boxes, Good
<1>10. Keyed'
  BY <1>1, <1>2, <1>4, <1>5, <1>6, SameFact, StepsFact DEF IInv, Keyed
<1>11. Paired'
  BY <1>1, <1>2, <1>3, <1>5, SameFact, StepsFact DEF IInv, Paired, TypeOK
<1>12. Linked'
  BY <1>1 DEF IInv, Linked
<1>. QED  BY <1>8, <1>9, <1>10, <1>11, <1>12 DEF IInv

\* A thread hears a description with the right MAC: its author is the one on the
\* other side, and has the same key.
LEMMA HearDescStep ==
  ASSUME IInv, NEW t \in Threads, Running(t, "hear"), Op(t).type \notin {"pake.a", "pake.b"},
         NEW m \in Messages, Delivered(Of(t), m), Signed(key, m), Verify(t, m),
         remote' = [remote EXCEPT ![t] = m.by], Advance(t), Boxes(box', key),
         UNCHANGED <<scen, code, joined, waiting, key, gathering, errors, up>>
  PROVE  IInv'
<1>1. /\ step' \in [Threads -> Nat] /\ step'[t] = step[t] + 1
      /\ \A u \in Threads : u # t => step'[u] = step[u]
      /\ \A u \in Threads : step'[u] \in DOMAIN ScriptOf(u)
      /\ status' = status
  BY AdvanceFact DEF Running
<1>2. step[t] \in Nat /\ step[t] = DescStep(t)
  BY OpFact DEF IInv, TypeOK, Running
<1>3. key[t] # None /\ remote[t] = None
  BY <1>2, StepsFact DEF IInv, Keyed, Paired
<1>4. m.by \in Threads /\ key[m.by] = key[t]
  BY <1>3 DEF Messages, Verify, Signed
<1>5. m.by[1] # t[1] /\ (t[1] = "j" => m.by = <<"c", t[2]>>)
  BY <1>4, ConstantsAssumption DEF Delivered, Of, Threads
<1>6. /\ remote' \in [Threads -> Threads \cup {None}] /\ remote'[t] = m.by
      /\ \A u \in Threads : u # t => remote'[u] = remote[u]
  BY <1>4 DEF IInv, TypeOK
<1>7. TypeOK'
  BY <1>1, <1>6, SameFact DEF IInv, TypeOK, Boxes, Good
<1>8. Posted'
  BY DEF Posted, Boxes, Good
<1>9. Keyed'
  BY <1>1, <1>2, SameFact, StepsFact DEF IInv, Keyed
<1>10. Paired'
  BY <1>1, <1>2, <1>3, <1>4, <1>5, <1>6, SameFact, StepsFact DEF IInv, Paired
<1>11. Linked'
  BY <1>1, <1>3, <1>6 DEF IInv, Linked, TypeOK
<1>. QED  BY <1>7, <1>8, <1>9, <1>10, <1>11 DEF IInv

\* A thread hears a description with another MAC, or a candidate, and gives up.
LEMMA HearRefusedStep ==
  ASSUME IInv, NEW t \in Threads, Fail(t, "refused"), Boxes(box', key),
         UNCHANGED <<scen, code, joined, waiting, key, remote, gathering, errors, up>>
  PROVE  IInv'
<1>1. /\ status' \in [Threads -> {"idle", "running", "done"} \cup Over] /\ step' = step
      /\ \A u \in Threads : status'[u] = "done" => u \in up
  BY DEF Fail, Over, IInv, TypeOK, Linked
<1>2. TypeOK'
  BY <1>1, SameFact DEF IInv, TypeOK, Boxes, Good
<1>3. Posted'
  BY DEF Posted, Boxes, Good
<1>4. Keyed' /\ Paired'
  BY <1>1, SameFact DEF IInv, Keyed, Paired
<1>5. Linked'
  BY <1>1 DEF IInv, Linked
<1>. QED  BY <1>2, <1>3, <1>4, <1>5 DEF IInv

\* A thread takes a message from a channel.
LEMMA HearStep ==
  ASSUME IInv, NEW t \in Threads, NEW ch \in Channels, hear(t, ch)
  PROVE  IInv'
<1>. DEFINE m == Head(box[Of(t)][ch])
<1>1. Of(t) \in Clients
  BY DEF Of, Threads, Clients
<1>2. Boxes(box', key) /\ m \in Messages /\ Good(key, Of(t), ch, m)
  BY <1>1, BoxesFact, TailFact DEF IInv, hear
<1>3. /\ Running(t, "hear") /\ Accept(t, m)
      /\ UNCHANGED <<scen, code, joined, waiting, gathering, errors, up>>
  BY DEF hear
<1>. HIDE DEF m
<1>4. Delivered(Of(t), m) /\ Signed(key, m)
  BY <1>2 DEF Good
<1>5. CASE Op(t).type \in {"pake.a", "pake.b"}
  <2>1. key' = [key EXCEPT ![t] = PakeKey(t, m)] /\ Advance(t) /\ UNCHANGED remote
    BY <1>3, <1>5 DEF Accept
  <2>. QED  BY <1>2, <1>3, <1>5, <2>1, HearPakeStep
<1>6. CASE Op(t).type \notin {"pake.a", "pake.b"} /\ Verify(t, m)
  <2>1. remote' = [remote EXCEPT ![t] = m.by] /\ Advance(t) /\ UNCHANGED key
    BY <1>3, <1>6 DEF Accept
  <2>. QED  BY <1>2, <1>3, <1>4, <1>6, <2>1, HearDescStep
<1>7. CASE Op(t).type \notin {"pake.a", "pake.b"} /\ ~ Verify(t, m)
  <2>1. Fail(t, "refused") /\ UNCHANGED <<key, remote>>
    BY <1>3, <1>7 DEF Accept
  <2>. QED  BY <1>2, <1>3, <2>1, HearRefusedStep
<1>. QED  BY <1>5, <1>6, <1>7

\* ICE connects two threads that have each other's description.
LEMMA ConnectStep ==
  ASSUME IInv, NEW t \in Threads, Connect(t)
  PROVE  IInv'
<1>. DEFINE r == remote[t]
<1>1. /\ r \in Threads /\ remote[r] = t /\ t[1] = "c" /\ up' = up \cup {t, r}
      /\ UNCHANGED <<scen, code, joined, waiting, status, step, key, remote, gathering, box,
                     errors>>
  BY DEF Connect, IInv, TypeOK
<1>2. remote[t] # None /\ remote[r] # None /\ None \notin Threads
  BY <1>1, NoneAssumption
<1>3. r[1] = "j" /\ t = <<"c", r[2]>>
  BY <1>1, <1>2 DEF IInv, Paired, Threads
<1>4. r[2] = t[2]
  BY <1>3
<1>5. TypeOK'
  BY <1>1, SameFact DEF IInv, TypeOK
<1>6. Posted' /\ Keyed' /\ Paired'
  BY <1>1, SameFact DEF IInv, Posted, Keyed, Paired
<1>7. Linked'
  BY <1>1, <1>2, <1>4 DEF IInv, Linked
<1>. QED  BY <1>5, <1>6, <1>7 DEF IInv

-----------------------------------------------------------------------------
(* The theorems.                                                           *)

\* The invariant holds at first.
LEMMA InitInv == Init => IInv
<1>. SUFFICES ASSUME Init PROVE IInv
  OBVIOUS
<1>1. \A t \in Threads : 1 \in DOMAIN ScriptOf(t)
  <2>. SUFFICES ASSUME NEW t \in Threads PROVE 1 \in DOMAIN ScriptOf(t)
    OBVIOUS
  <2>1. PICK via, how, label, timed :
           \/ ScriptOf(t) = Initiate(via, how, label, timed)
           \/ ScriptOf(t) = Respond(how, label, timed)
    BY ScriptFact DEF Init
  <2>. QED  BY <2>1, InitiateFact, RespondFact
<1>2. box \in [Clients -> [Channels -> Seq(Messages)]]
  BY EmptySeq DEF Init
<1>3. \A x \in Clients, ch \in Channels : Len(box[x][ch]) = 0
  BY EmptySeq DEF Init
<1>4. TypeOK
  BY <1>1, <1>2, <1>3, ConstantsAssumption DEF Init, TypeOK
<1>5. Posted
  BY <1>3 DEF Posted
<1>6. Keyed /\ Paired
  BY StepsFact DEF Init, Keyed, Paired
<1>7. Linked
  BY DEF Init, Linked
<1>. QED  BY <1>4, <1>5, <1>6, <1>7 DEF IInv

\* Every step keeps it.
LEMMA NextInv == IInv /\ [Next]_vars => IInv'
<1>. SUFFICES ASSUME IInv, [Next]_vars PROVE IInv'
  OBVIOUS
<1>1. CASE \E j \in Joiners : SlotJoin(j) \/ StartSession(j) \/ initiatorAcceptMorePeers(j)
  BY <1>1, SlotJoinStep, StartThreadStep DEF StartSession, initiatorAcceptMorePeers
<1>2. CASE \E j \in Joiners : collect(j)
  BY <1>2, CollectStep
<1>3. CASE \E t \in Threads : Run(t) \/ candidate(t) \/ Connect(t)
  <2>1. PICK t \in Threads : Run(t) \/ candidate(t) \/ Connect(t)
    BY <1>3
  <2>2. CASE candidate(t) \/ Connect(t)
    BY <2>2, CandidateStep, ConnectStep
  <2>3. CASE say(t) \/ gather(t) \/ open(t) \/ \E ch \in Channels : hear(t, ch)
    BY <2>3, SayStep, GatherStep, OpenStep, HearStep
  <2>4. CASE hearError(t)
    <3>1. errors' \subseteq Clients
      BY <2>4 DEF hearError, IInv, TypeOK
    <3>. QED  BY <2>4, <3>1, FailStep DEF hearError, Over
  <2>5. CASE openTimeout(t)
    <3>1. errors' \subseteq Clients
      BY <2>5 DEF openTimeout, IInv, TypeOK
    <3>. QED  BY <2>5, <3>1, FailStep DEF openTimeout, Over
  <2>. QED  BY <2>1, <2>2, <2>3, <2>4, <2>5 DEF Run
<1>4. CASE \E x \in Clients : Quit(x)
  BY <1>4, QuitStep
<1>5. CASE UNCHANGED vars
  <2>1. TypeOK' /\ Posted'
    BY <1>5, SameFact, SMTT(30) DEF vars, IInv, TypeOK, Posted
  <2>2. Keyed' /\ Paired' /\ Linked'
    BY <1>5, SameFact, SMTT(30) DEF vars, IInv, Keyed, Paired, Linked
  <2>. QED  BY <2>1, <2>2 DEF IInv
<1>. QED  BY <1>1, <1>2, <1>3, <1>4, <1>5 DEF Next

\* Connected threads are those of one joiner, with one key and the right code.
LEMMA AuthenticFact == IInv => Authentic
<1>. SUFFICES ASSUME IInv, NEW t \in up \cup {u \in Threads : status[u] = "done"}
              PROVE  /\ remote[t] \in Threads /\ remote[t][1] # t[1] /\ remote[t][2] = t[2]
                     /\ key[t] = key[remote[t]] /\ code[t[2]]
  BY DEF Authentic
<1>1. t \in up /\ t \in Threads
  BY DEF IInv, Linked, TypeOK
<1>2. /\ remote[t] \in Threads /\ remote[t] # None /\ remote[t][2] = t[2] /\ remote[t][1] # t[1]
      /\ key[t] # None /\ key[remote[t]] = key[t]
  BY <1>1 DEF IInv, Linked, Paired, TypeOK
<1>3. key[t][3] = Secret(t) /\ key[remote[t]][3] = Secret(remote[t])
  BY <1>1, <1>2 DEF IInv, Keyed
<1>4. Secret(t) = Secret(remote[t])
  BY <1>2, <1>3
<1>5. code[t[2]]
  BY <1>1, <1>2, <1>4 DEF Secret, Threads
<1>. QED  BY <1>2, <1>5

-----------------------------------------------------------------------------
(* The plain channels.  A thread says everything once: what it has said is *)
(* behind it in its script (Later), so that no channel holds two messages  *)
(* of one author and type (Single).  The channel of the candidates is left *)
(* out: the joiner's collector puts messages back there.                   *)

\* Where in its script a thread says a message of the type.
Place(type) == IF type = "pake.a" THEN 1 ELSE IF type = "pake.b" THEN 2 ELSE 4

\* Two messages in a queue differ in their author or their type.
Single(q) ==
  \A i, k \in 1 .. Len(q) : q[i].by = q[k].by /\ q[i].type = q[k].type => i = k

\* The authors of the messages are past saying them, for steps s.
Later(q, s) == \A i \in 1 .. Len(q) : Place(q[i].type) < s[q[i].by]

Orderly(q, s) == Single(q) /\ Later(q, s)

Plain == Channels \ {"targeted"}

Once == \A x \in Clients, ch \in Plain : Orderly(box[x][ch], step)

\* What a thread says, by its place in the script.
LEMMA PlaceFact ==
  ASSUME scen \in Scenarios, NEW t \in Threads, step[t] \in DOMAIN ScriptOf(t)
  PROVE  Op(t).op = "say" => step[t] = Place(Op(t).type)
<1>1. PICK via, how, label, timed :
           /\ Initiates(t) => ScriptOf(t) = Initiate(via, how, label, timed)
           /\ ~ Initiates(t) => ScriptOf(t) = Respond(how, label, timed)
  BY ScriptFact
<1>2. CASE Initiates(t)
  <2>. DEFINE s == Initiate(via, how, label, timed)
  <2>1. /\ ScriptOf(t) = s /\ step[t] \in 1 .. 6
        /\ s[1] = Say("pake.a", via) /\ s[2] = Hear("pake.b", how) /\ s[3] = Gather(via)
        /\ s[4] = Say("offer", via) /\ s[5] = Hear("answer", how) /\ s[6] = Open(label, timed)
    BY <1>1, <1>2, InitiateFact
  <2>. HIDE DEF s
  <2>2. step[t] \in {1, 2, 3, 4, 5, 6}
    BY <2>1
  <2>. QED  BY <2>1, <2>2 DEF Op, Say, Hear, Gather, Open, Place
<1>3. CASE ~ Initiates(t)
  <2>. DEFINE s == Respond(how, label, timed)
  <2>1. /\ ScriptOf(t) = s /\ step[t] \in 1 .. 5
        /\ s[1] = Hear("pake.a", how) /\ s[2] = Say("pake.b", "plain")
        /\ s[3] = Hear("offer", how) /\ s[4] = Say("answer", "plain")
        /\ s[5] = Open(label, timed)
    BY <1>1, <1>3, RespondFact
  <2>. HIDE DEF s
  <2>2. step[t] \in {1, 2, 3, 4, 5}
    BY <2>1
  <2>. QED  BY <2>1, <2>2 DEF Op, Say, Hear, Gather, Open, Place
<1>. QED  BY <1>2, <1>3

\* The places are numbers.
LEMMA PlaceNat == \A type : Place(type) \in 1 .. 4
BY DEF Place

\* A queue without its first message.
LEMMA OrderlyTail ==
  ASSUME NEW p \in Seq(Messages), p # <<>>, NEW s, Orderly(p, s)
  PROVE  Tail(p) \in Seq(Messages) /\ Orderly(Tail(p), s)
<1>. DEFINE q == Tail(p)
<1>1. /\ q \in Seq(Messages) /\ Len(q) = Len(p) - 1 /\ Len(p) \in Nat \ {0}
      /\ \A i \in 1 .. Len(q) : q[i] = p[i + 1]
  BY HeadTailProperties, EmptySeq
<1>. HIDE DEF q
<1>2. \A i \in 1 .. Len(q) : i + 1 \in 1 .. Len(p)
  BY <1>1
<1>3. Single(q)
  <2>. SUFFICES ASSUME NEW i \in 1 .. Len(q), NEW k \in 1 .. Len(q),
                       q[i].by = q[k].by, q[i].type = q[k].type
                PROVE  i = k
    BY DEF Single
  <2>1. i + 1 = k + 1
    BY <1>1, <1>2 DEF Orderly, Single
  <2>. QED  BY <2>1
<1>4. Later(q, s)
  BY <1>1, <1>2 DEF Orderly, Later
<1>. QED  BY <1>1, <1>3, <1>4 DEF q, Orderly

\* A queue with a message more.
LEMMA OrderlyAppend ==
  ASSUME NEW p \in Seq(Messages), NEW m \in Messages, NEW s, Orderly(p, s),
         \A i \in 1 .. Len(p) : ~ (p[i].by = m.by /\ p[i].type = m.type),
         Place(m.type) < s[m.by]
  PROVE  Append(p, m) \in Seq(Messages) /\ Orderly(Append(p, m), s)
<1>. DEFINE q == Append(p, m)
<1>1. /\ q \in Seq(Messages) /\ Len(q) = Len(p) + 1 /\ Len(p) \in Nat
      /\ \A i \in 1 .. Len(p) : q[i] = p[i]
      /\ q[Len(p) + 1] = m
  BY AppendProperties, LenProperties
<1>. HIDE DEF q
<1>2. \A i \in 1 .. Len(q) : i \in 1 .. Len(p) \/ i = Len(p) + 1
  BY <1>1
<1>3. Single(q)
  <2>. SUFFICES ASSUME NEW i \in 1 .. Len(q), NEW k \in 1 .. Len(q),
                       q[i].by = q[k].by, q[i].type = q[k].type
                PROVE  i = k
    BY DEF Single
  <2>1. CASE i \in 1 .. Len(p) /\ k \in 1 .. Len(p)
    BY <1>1, <2>1 DEF Orderly, Single
  <2>2. CASE i = Len(p) + 1 /\ k = Len(p) + 1
    BY <2>2
  <2>3. CASE i \in 1 .. Len(p) /\ k = Len(p) + 1
    BY <1>1, <2>3
  <2>4. CASE i = Len(p) + 1 /\ k \in 1 .. Len(p)
    BY <1>1, <2>4
  <2>. QED  BY <1>2, <2>1, <2>2, <2>3, <2>4
<1>4. Later(q, s)
  BY <1>1, <1>2 DEF Orderly, Later
<1>. QED  BY <1>1, <1>3, <1>4 DEF q, Orderly

\* Threads go on.
LEMMA OrderlyOn ==
  ASSUME NEW p \in Seq(Messages), NEW s \in [Threads -> Nat], NEW s2 \in [Threads -> Nat],
         Orderly(p, s), \A t \in Threads : s[t] <= s2[t]
  PROVE  Orderly(p, s2)
<1>1. ASSUME NEW i \in 1 .. Len(p)
      PROVE  Place(p[i].type) < s2[p[i].by]
  <2>1. p[i].by \in Threads
    <3>1. p[i] \in Messages
      BY ElementOfSeq
    <3>. QED  BY <3>1 DEF Messages
  <2>2. PICK n \in Nat : n = Place(p[i].type)
    BY PlaceNat
  <2>3. PICK t \in Threads : t = p[i].by
    BY <2>1
  <2>4. n < s[t] /\ s[t] \in Nat /\ s2[t] \in Nat /\ s[t] <= s2[t]
    BY <2>2, <2>3 DEF Orderly, Later
  <2>. QED  BY <2>2, <2>3, <2>4
<1>. QED  BY <1>1 DEF Orderly, Later

\* The queues stay in order when threads go on.
LEMMA OnceOn ==
  ASSUME IInv, Once, step' \in [Threads -> Nat], \A t \in Threads : step[t] <= step'[t]
  PROVE  \A y \in Clients, c \in Plain : Orderly(box[y][c], step')
<1>. SUFFICES ASSUME NEW y \in Clients, NEW c \in Plain
              PROVE  Orderly(box[y][c], step')
  OBVIOUS
<1>1. box[y][c] \in Seq(Messages) /\ step \in [Threads -> Nat]
  BY DEF IInv, TypeOK, Plain
<1>2. Orderly(box[y][c], step)
  BY DEF Once
<1>. QED  BY <1>1, <1>2, OrderlyOn

\* One queue is replaced, by one that is in order if it is a plain one.
LEMMA OncePut ==
  ASSUME IInv, NEW x \in Clients, NEW ch \in Channels, NEW q \in Seq(Messages),
         box' = [box EXCEPT ![x][ch] = q],
         \A y \in Clients, c \in Plain : Orderly(box[y][c], step'),
         ch # "targeted" => Orderly(q, step')
  PROVE  Once'
<1>1. \A y \in Clients, c \in Channels :
        box'[y][c] = IF y = x /\ c = ch THEN q ELSE box[y][c]
  BY PutBox DEF IInv, TypeOK
<1>2. \A y \in Clients, c \in Plain : Orderly(box'[y][c], step')
  BY <1>1 DEF Plain
<1>. QED  BY <1>2 DEF Once, Orderly, Single, Later

\* No queue is touched.
LEMMA OnceKept ==
  ASSUME box' = box, \A y \in Clients, c \in Plain : Orderly(box[y][c], step')
  PROVE  Once'
BY DEF Once, Orderly, Single, Later

\* A message is sent, which its author has not sent before unless it is targeted.
LEMMA OncePost ==
  ASSUME IInv, NEW t \in Threads, NEW type \in Plain \cup {"ice"},
         NEW via \in {"plain", "targeted"}, type = "ice" => via = "targeted",
         t[1] = "c" => via = "targeted" \/ t[2] = 1,
         Post(t, Message(t, type), via),
         \A y \in Clients, c \in Plain : Orderly(box[y][c], step'),
         via = "plain" =>
           /\ Place(type) < step'[t]
           /\ \A y \in Clients, c \in Plain : \A i \in 1 .. Len(box[y][c]) :
                ~ (box[y][c][i].by = t /\ box[y][c][i].type = type)
  PROVE  Once'
<1>. DEFINE m == Message(t, type)
            to == IF t[1] = "j" THEN Creator ELSE IF via = "targeted" THEN t[2] ELSE 1
            ch == Channel(m, via)
<1>1. to \in Clients
  BY ConstantsAssumption DEF Threads, Clients, Joiners
<1>2. m \in Messages /\ m.type = type /\ m.by = t
  BY DEF Messages, Message, IInv, TypeOK, Plain
<1>3. ch \in Channels /\ (ch # "targeted" => via = "plain" /\ ch \in Plain)
  BY <1>2 DEF Channel, Channels, Plain
<1>4. box' = IF Gone(to) THEN box ELSE [box EXCEPT ![to][ch] = Append(@, m)]
  BY DEF Post
<1>. HIDE DEF m, to, ch
<1>5. CASE Gone(to)
  BY <1>4, <1>5, OnceKept
<1>6. CASE ~ Gone(to)
  <2>. DEFINE p == box[to][ch]
  <2>1. p \in Seq(Messages)
    BY <1>1, <1>3 DEF IInv, TypeOK
  <2>2. box' = [box EXCEPT ![to][ch] = Append(p, m)]
    BY <1>4, <1>6
  <2>3. ch # "targeted" =>
          /\ \A i \in 1 .. Len(p) : ~ (p[i].by = m.by /\ p[i].type = m.type)
          /\ Orderly(p, step') /\ Place(m.type) < step'[m.by]
    BY <1>1, <1>2, <1>3
  <2>. HIDE DEF p
  <2>4. Append(p, m) \in Seq(Messages)
    BY <1>2, <2>1, AppendProperties
  <2>5. ch # "targeted" => Orderly(Append(p, m), step')
    BY <1>2, <2>1, <2>3, OrderlyAppend
  <2>. QED  BY <1>1, <1>3, <2>2, <2>4, <2>5, OncePut
<1>. QED  BY <1>5, <1>6

\* Neither queues nor steps are touched.
LEMMA OnceSame ==
  ASSUME Once, UNCHANGED <<box, step>>
  PROVE  Once'
BY DEF Once, Orderly, Single, Later

LEMMA OnceSay ==
  ASSUME IInv, Once, NEW t \in Threads, say(t)
  PROVE  Once'
<1>. DEFINE type == Op(t).type
            via == Op(t).via
<1>1. scen \in Scenarios /\ step[t] \in DOMAIN ScriptOf(t) /\ step \in [Threads -> Nat]
  BY DEF IInv, TypeOK
<1>2. Op(t).op = "say" /\ Running(t, Op(t).op) /\ Advance(t) /\ scen' = scen
  BY DEF say, Running
<1>3. /\ type \in Plain /\ via \in {"plain", "targeted"}
      /\ t[1] = "c" => via = "targeted" \/ t[2] = 1
  BY <1>1, <1>2, OpFact DEF Plain
<1>4. step[t] = Place(type) /\ type # "ice"
  BY <1>1, <1>2, <1>3, PlaceFact DEF Plain, Channels
<1>5. Post(t, Message(t, type), via)
  BY DEF say
<1>. HIDE DEF type, via
<1>6. /\ step' \in [Threads -> Nat] /\ step'[t] = step[t] + 1
      /\ \A u \in Threads : u # t => step'[u] = step[u]
  BY <1>2, AdvanceFact
<1>7. \A u \in Threads : step[u] <= step'[u]
  BY <1>1, <1>6
<1>8. \A y \in Clients, c \in Plain : Orderly(box[y][c], step')
  BY <1>6, <1>7, OnceOn
<1>9. \A y \in Clients, c \in Plain : \A i \in 1 .. Len(box[y][c]) :
        ~ (box[y][c][i].by = t /\ box[y][c][i].type = type)
  BY <1>4, PlaceNat DEF Once, Orderly, Later
<1>10. Place(type) < step'[t]
  BY <1>4, <1>6, PlaceNat
<1>. QED  BY <1>3, <1>4, <1>5, <1>8, <1>9, <1>10, OncePost

LEMMA OnceGather ==
  ASSUME IInv, Once, NEW t \in Threads, gather(t)
  PROVE  Once'
<1>1. step \in [Threads -> Nat]
  BY DEF IInv, TypeOK
<1>2. Op(t).op = "gather" /\ Running(t, Op(t).op) /\ Advance(t) /\ scen' = scen /\ box' = box
  BY DEF gather, Running
<1>3. /\ step' \in [Threads -> Nat] /\ step'[t] = step[t] + 1
      /\ \A u \in Threads : u # t => step'[u] = step[u]
  BY <1>2, AdvanceFact
<1>4. \A u \in Threads : step[u] <= step'[u]
  BY <1>1, <1>3
<1>. QED  BY <1>2, <1>3, <1>4, OnceOn, OnceKept

LEMMA OnceCandidate ==
  ASSUME IInv, Once, NEW t \in Threads, candidate(t)
  PROVE  Once'
<1>1. Post(t, Message(t, "ice"), "targeted") /\ step' = step
  BY DEF candidate
<1>2. \A y \in Clients, c \in Plain : Orderly(box[y][c], step')
  BY <1>1 DEF Once
<1>3. PICK type \in Plain \cup {"ice"} : type = "ice"
  OBVIOUS
<1>4. PICK via \in {"plain", "targeted"} : via = "targeted"
  OBVIOUS
<1>5. Post(t, Message(t, type), via) /\ via # "plain"
  BY <1>1, <1>3, <1>4
<1>. QED  BY <1>2, <1>4, <1>5, OncePost

LEMMA OnceCollect ==
  ASSUME IInv, Once, NEW j \in Joiners, collect(j)
  PROVE  Once'
<1>. DEFINE p == box[j]["targeted"]
            q == IF Head(p).type = "ice" THEN Tail(p) ELSE Append(Tail(p), Head(p))
<1>1. j \in Clients /\ "targeted" \in Channels /\ p \in Seq(Messages)
  BY DEF IInv, TypeOK, Clients, Channels
<1>2. box' = [box EXCEPT ![j]["targeted"] = q] /\ p # <<>> /\ step' = step
  BY DEF collect
<1>. HIDE DEF p
<1>3. Tail(p) \in Seq(Messages) /\ Head(p) \in Messages
  BY <1>1, <1>2, HeadTailProperties
<1>4. q \in Seq(Messages)
  BY <1>3, AppendProperties
<1>. HIDE DEF q
<1>5. \A y \in Clients, c \in Plain : Orderly(box[y][c], step')
  BY <1>2 DEF Once
<1>. QED  BY <1>1, <1>2, <1>4, <1>5, OncePut

LEMMA OnceHear ==
  ASSUME IInv, Once, NEW t \in Threads, NEW ch \in Channels, hear(t, ch)
  PROVE  Once'
<1>. DEFINE p == box[Of(t)][ch]
<1>1. Of(t) \in Clients /\ p \in Seq(Messages) /\ step \in [Threads -> Nat]
  BY DEF IInv, TypeOK, Of, Threads, Clients
<1>2. /\ Running(t, "hear") /\ p # <<>> /\ Accept(t, Head(p))
      /\ box' = [box EXCEPT ![Of(t)][ch] = Tail(p)] /\ scen' = scen
  BY DEF hear
<1>3. (Advance(t) \/ Fail(t, "refused")) /\ Op(t).op = "hear" /\ Running(t, Op(t).op)
  BY <1>2 DEF Accept, Running
<1>4. step' \in [Threads -> Nat] /\ \A u \in Threads : step[u] <= step'[u]
  <2>1. CASE Advance(t)
    <3>1. /\ step' \in [Threads -> Nat] /\ step'[t] = step[t] + 1
          /\ \A u \in Threads : u # t => step'[u] = step[u]
      BY <1>2, <1>3, <2>1, AdvanceFact
    <3>. QED  BY <1>1, <3>1
  <2>2. CASE Fail(t, "refused")
    BY <1>1, <2>2 DEF Fail
  <2>. QED  BY <1>3, <2>1, <2>2
<1>5. \A y \in Clients, c \in Plain : Orderly(box[y][c], step')
  BY <1>4, OnceOn
<1>6. ch # "targeted" => Orderly(p, step')
  BY <1>1, <1>5 DEF Plain
<1>. HIDE DEF p
<1>7. Tail(p) \in Seq(Messages)
  BY <1>1, <1>2, HeadTailProperties
<1>8. ch # "targeted" => Orderly(Tail(p), step')
  BY <1>1, <1>2, <1>6, OrderlyTail
<1>. QED  BY <1>1, <1>2, <1>5, <1>7, <1>8, OncePut

\* Nothing is in a channel at first.
LEMMA InitOnce == Init => Once
<1>. SUFFICES ASSUME Init PROVE Once
  OBVIOUS
<1>1. \A x \in Clients, ch \in Channels : Len(box[x][ch]) = 0
  BY EmptySeq DEF Init
<1>. QED  BY <1>1 DEF Plain, Once, Orderly, Single, Later

\* Every step keeps the channels so.
LEMMA NextOnce == IInv /\ Once /\ [Next]_vars => Once'
<1>. SUFFICES ASSUME IInv, Once, [Next]_vars PROVE Once'
  OBVIOUS
<1>1. CASE \E j \in Joiners : SlotJoin(j) \/ StartSession(j) \/ initiatorAcceptMorePeers(j)
  BY <1>1, OnceSame DEF SlotJoin, StartSession, initiatorAcceptMorePeers, StartThread
<1>2. CASE \E j \in Joiners : collect(j)
  BY <1>2, OnceCollect
<1>3. CASE \E t \in Threads : Run(t) \/ candidate(t) \/ Connect(t)
  <2>1. PICK t \in Threads : Run(t) \/ candidate(t) \/ Connect(t)
    BY <1>3
  <2>2. CASE say(t) \/ gather(t) \/ candidate(t) \/ \E ch \in Channels : hear(t, ch)
    BY <2>2, OnceSay, OnceGather, OnceCandidate, OnceHear
  <2>3. CASE hearError(t) \/ open(t) \/ openTimeout(t) \/ Connect(t)
    BY <2>3, OnceSame DEF hearError, open, openTimeout, Connect, Fail
  <2>. QED  BY <2>1, <2>2, <2>3 DEF Run
<1>4. CASE \E x \in Clients : Quit(x)
  BY <1>4, OnceSame DEF Quit
<1>5. CASE UNCHANGED vars
  BY <1>5, OnceSame DEF vars
<1>. QED  BY <1>1, <1>2, <1>3, <1>4, <1>5 DEF Next

\* Messages in one plain channel with the same joiner and type are one.
LEMMA OneOfEach ==
  ASSUME IInv, Once, NEW x \in Clients, NEW ch \in Plain,
         NEW i \in 1 .. Len(box[x][ch]), NEW k \in 1 .. Len(box[x][ch]),
         box[x][ch][i].by[2] = box[x][ch][k].by[2], box[x][ch][i].type = box[x][ch][k].type
  PROVE  i = k
<1>. DEFINE m == box[x][ch][i]
            n == box[x][ch][k]
<1>1. m \in Messages /\ n \in Messages /\ Delivered(x, m) /\ Delivered(x, n)
  BY ElementOfSeq DEF IInv, TypeOK, Posted, Plain
<1>2. /\ m.by \in Threads /\ n.by \in Threads /\ m.by[2] = n.by[2]
      /\ x = IF m.by[1] = "c" THEN m.by[2] ELSE Creator
      /\ x = IF n.by[1] = "c" THEN n.by[2] ELSE Creator
  BY <1>1 DEF Messages, Delivered
<1>. HIDE DEF m, n
<1>3. m.by[1] = n.by[1]
  BY <1>2, ConstantsAssumption DEF Threads
<1>4. m.by = n.by
  BY <1>2, <1>3 DEF Threads
<1>. QED  BY <1>4 DEF m, n, Once, Orderly, Single

\* A queue whose messages have distinct numbers up to b is no longer than b.
LEMMA Numbered ==
  ASSUME NEW n \in Nat, NEW b \in Nat, NEW f \in [1 .. n -> 1 .. b],
         \A i, k \in 1 .. n : f[i] = f[k] => i = k
  PROVE  n <= b
<1>1. /\ IsFiniteSet(1 .. n) /\ Cardinality(1 .. n) = n
      /\ IsFiniteSet(1 .. b) /\ Cardinality(1 .. b) = b
  BY FS_Interval
<1>2. SUFFICES ASSUME b < n PROVE FALSE
  OBVIOUS
<1>. QED  BY <1>1, <1>2, FS_PigeonHole

\* A plain channel holds one message of each joiner.
LEMMA CapacityFact ==
  ASSUME IInv, Once, NEW x \in Clients, NEW ch \in Plain
  PROVE  Len(box[x][ch]) <= MaxJoiners
<1>. DEFINE q == box[x][ch]
            n == Len(q)
            f == [i \in 1 .. n |-> q[i].by[2]]
<1>1. q \in Seq(Messages) /\ n \in Nat /\ MaxJoiners \in Nat
  BY LenProperties, ConstantsAssumption DEF IInv, TypeOK, Plain
<1>2. \A i \in 1 .. n : q[i].by[2] \in 1 .. MaxJoiners
  <2>1. \A i \in 1 .. n : q[i] \in Messages
    BY <1>1, ElementOfSeq
  <2>. HIDE DEF q, n
  <2>2. \A i \in 1 .. n : q[i].by \in {"c", "j"} \X (1 .. MaxJoiners)
    BY <2>1 DEF Messages, Threads, Joiners
  <2>. QED  BY <2>2
<1>3. \A i, k \in 1 .. n : q[i].by[2] = q[k].by[2] /\ q[i].type = q[k].type => i = k
  BY OneOfEach
<1>4. \A i \in 1 .. n : q[i].type = ch
  BY DEF IInv, TypeOK, Plain
<1>. HIDE DEF q, n
<1>5. f \in [1 .. n -> 1 .. MaxJoiners] /\ \A i, k \in 1 .. n : f[i] = f[k] => i = k
  BY <1>2, <1>3, <1>4
<1>. HIDE DEF f
<1>6. n <= MaxJoiners
  BY <1>1, <1>5, Numbered
<1>. QED  BY <1>6 DEF n, q

\* The threads, the keys and the dispatcher's channels are always well typed, for
\* any pair of entry points (peer.go, dispatcher.run).
THEOREM TypesHold == Spec => []TypeOK
<1>1. IInv => TypeOK
  BY DEF IInv
<1>. QED  BY <1>1, InitInv, NextInv, PTL DEF Spec

\* Whoever gets a data channel has it to the client it is for, with the same PAKE
\* key on both sides, and that client knows the code: for any number of joiners
\* whose messages are mixed up on the creator's shared channels.
THEOREM AuthenticHolds == Spec => []Authentic
BY InitInv, NextInv, AuthenticFact, PTL DEF Spec

\* However many joiners there are, and however their messages are mixed up, a plain
\* channel of the dispatcher (pakeA, pakeB, offer, answer) holds at most one message of
\* each joiner: with up to four joiners the four places newDispatcher gives it suffice.
THEOREM ChannelsBounded ==
  Spec => [](\A x \in Clients, ch \in Channels \ {"targeted"} : Len(box[x][ch]) <= MaxJoiners)
<1>1. IInv /\ Once =>
        \A x \in Clients, ch \in Channels \ {"targeted"} : Len(box[x][ch]) <= MaxJoiners
  BY CapacityFact DEF Plain
<1>. QED  BY <1>1, InitInv, NextInv, InitOnce, NextOnce, PTL DEF Spec
=============================================================================
