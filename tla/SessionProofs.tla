--------------------------- MODULE SessionProofs ----------------------------
(***************************************************************************)
(* Proofs about Session, for any finite set of joiners and any number of   *)
(* texts and names.                                                        *)
(*                                                                         *)
(* That texts arrive once and in order is a statement about the way from   *)
(* their author to the screen: what has been shown precedes what is in the *)
(* channel from the initiator, and that precedes what is still on its way  *)
(* to him (Texts).  That the roster names nobody who has left needs that a *)
(* joiner says nothing after his leave (Leaving); that it names all others *)
(* needs that a name is entered or on its way at every moment (Naming).    *)
(* That a Close reaches everybody needs that its frame stays in the        *)
(* channel until it is handled (Closing).                                  *)
(***************************************************************************)
EXTENDS Session, FiniteSetTheorems, SequenceTheorems, TLAPS

In(f, s) == \E i \in 1 .. Len(s) : s[i] = f

\* The texts among the frames in s, and what the sequence m of texts holds.
IsText(f) == f.type \in {"msg", "relay"}
Bodies(s) == {s[i].body : i \in {k \in 1 .. Len(s) : IsText(s[k])}}
Elems(m) == {m[i] : i \in 1 .. Len(m)}

\* Of every author, the texts in A come before those in B.
Precedes(A, B) == \A a \in A, b \in B : a[1] = b[1] => a[2] < b[2]

\* Of every author, the texts are in the order in which they were sent.
Ordered(s) ==
  \A i \in 1 .. Len(s) : IsText(s[i]) =>
    \A k \in 1 .. i - 1 : IsText(s[k]) => Precedes({s[k].body}, {s[i].body})
InOrder(m) == \A i \in 1 .. Len(m) : \A k \in 1 .. i - 1 : Precedes({m[k]}, {m[i]})

\* Texts on their way from their author to everybody's screen.
Texts ==
  /\ \A y \in Joiners : /\ Ordered(toI[y])
                        /\ \A b \in Bodies(toI[y]) : b[1] = y /\ b[2] <= sent[y]
  /\ \A x \in Joiners : /\ Ordered(toJ[x])
                        /\ \A b \in Bodies(toJ[x]) : b[1] # x /\ b[2] <= sent[b[1]]
                        /\ \A y \in Joiners : Precedes(Bodies(toJ[x]), Bodies(toI[y]))
                        /\ Precedes(Elems(shown[x]), Bodies(toJ[x]))
  /\ \A x \in Everyone : /\ InOrder(shown[x])
                         /\ \A b \in Elems(shown[x]) : b[1] # x /\ b[2] <= sent[b[1]]
                         /\ \A y \in Joiners : Precedes(Elems(shown[x]), Bodies(toI[y]))

\* Who is where: who has been taken out of s.peers is gone for good and silent.
Members ==
  /\ wired = {} <=> state[Initiator] = "out"
  /\ peers \subseteq wired /\ closed \subseteq wired
  /\ \A j \in Joiners :
       /\ j \notin peers => toI[j] = <<>> /\ ~ busy[j]
       /\ j \in wired \ peers => state[j] \in {"idle", "ended", "gone"}
       /\ j \in peers => j \notin closed
       /\ state[j] = "out" => j \notin named

\* A joiner sends nothing after his leave.
LastLeave ==
  \A j \in Joiners : \A i \in 1 .. Len(toI[j]) :
    toI[j][i].type = "leave" => i = Len(toI[j]) /\ state[j] \in {"idle", "ended", "gone"}

\* The initiator is in the s.peers of those who are in the session, as long as he is.
HubThere ==
  \A j \in Joiners :
    /\ state[j] = "out" => toJ[j] = <<>>
    /\ state[j] = "in" /\ state[Initiator] \in {"out", "in"} =>
         hub[j] /\ \A i \in 1 .. Len(toJ[j]) : toJ[j][i].type # "leave"

Leaving == Members /\ LastLeave /\ HubThere

NameOf(x) == [type |-> "name", of |-> x]

\* The initiator's name is on its way to j, alone or with the others.
Coming(j) ==
  \/ In(NameOf(Initiator), toJ[j])
  \/ \E i \in 1 .. Len(toJ[j]) : toJ[j][i].type = "roster" /\ Initiator \in toJ[j][i].names

\* A name is entered, or on its way: to the initiator, or in a reply to a joiner.
Naming ==
  /\ roster \subseteq peers \cup {Initiator} \cup closed
  /\ Initiator \in named => Initiator \in roster
  /\ \A j \in Joiners : j \in named /\ j \notin wired => j \in missed
  /\ \A j \in Joiners : j \in named /\ Present(j) =>
       /\ j \in roster \/ busy[j] \/ In(NameOf(j), toI[j])
       /\ j \in knows[Initiator] \/ Initiator \in slow \/ In(NameOf(j), toI[j])
       /\ Initiator \in named =>
            Initiator \in knows[j] \/ j \in slow \/ busy[j] \/ In(NameOf(j), toI[j]) \/ Coming(j)

\* A Close that has not been handled is in the channel.
Closing ==
  \A j \in closing : j \notin missed =>
    state[j] # "out" /\ (state[j] = "in" => In([type |-> "close"], toJ[j]))

IInv == TypeOK /\ Texts /\ Leaving /\ Naming /\ Closing

-----------------------------------------------------------------------------
(* Frames and sequences of frames.                                         *)

\* What the fields of a frame hold.
LEMMA FrameFields ==
  ASSUME NEW f \in Frame
  PROVE  /\ f.type \in {"msg", "relay", "name", "roster", "count", "left", "leave", "close"}
         /\ IsText(f) => f.body \in Everyone \X Nat
         /\ f.type = "name" => f.of \in Everyone
         /\ f.type = "roster" => f.names \subseteq Everyone
         /\ f.type = "count" => f.n \in Nat \ {0}
  BY DEF Frame, IsText

\* The frames that are sent, and which of them are texts.
LEMMA FrameMade ==
  ASSUME NEW x \in Everyone, NEW k \in Nat
  PROVE  /\ [type |-> "msg", body |-> <<x, k>>] \in Frame
         /\ NameOf(x) \in Frame /\ ~ IsText(NameOf(x)) /\ NameOf(x).type = "name" /\ NameOf(x).of = x
         /\ IsText([type |-> "msg", body |-> <<x, k>>])
         /\ [type |-> "msg", body |-> <<x, k>>].body = <<x, k>>
         /\ [type |-> "msg", body |-> <<x, k>>].type = "msg"
  BY DEF Frame, IsText, NameOf

LEMMA RelayMade ==
  ASSUME NEW j \in Joiners, NEW b \in Everyone \X Nat
  PROVE  /\ [type |-> "relay", from |-> j, body |-> b] \in Frame
         /\ IsText([type |-> "relay", from |-> j, body |-> b])
         /\ [type |-> "relay", from |-> j, body |-> b].body = b
         /\ [type |-> "relay", from |-> j, body |-> b].type = "relay"
  BY DEF Frame, IsText

LEMMA NoteMade ==
  ASSUME NEW t \in {"left", "leave", "close"}
  PROVE  /\ [type |-> t] \in Frame /\ ~ IsText([type |-> t])
         /\ [type |-> t].type = t
  BY DEF Frame, IsText

LEMMA RosterMade ==
  ASSUME NEW N \in SUBSET Everyone
  PROVE  /\ [type |-> "roster", names |-> N] \in Frame
         /\ ~ IsText([type |-> "roster", names |-> N])
         /\ [type |-> "roster", names |-> N].type = "roster"
         /\ [type |-> "roster", names |-> N].names = N
  BY DEF Frame, IsText

LEMMA CountMade ==
  ASSUME NEW n \in Nat \ {0}
  PROVE  /\ [type |-> "count", n |-> n] \in Frame
         /\ ~ IsText([type |-> "count", n |-> n])
         /\ [type |-> "count", n |-> n].type = "count"
  BY DEF Frame, IsText

\* One frame.
LEMMA One ==
  ASSUME NEW f \in Frame
  PROVE  /\ <<f>> \in Seq(Frame) /\ Len(<<f>>) = 1 /\ <<f>>[1] = f
         /\ \A i \in 1 .. Len(<<f>>) : <<f>>[i] = f
  OBVIOUS

\* The two frames of a departure.
LEMMA LeaveFramesMade ==
  ASSUME NEW n \in Nat \ {0}
  PROVE  /\ LeaveFrames(n) \in Seq(Frame)
         /\ \A i \in 1 .. Len(LeaveFrames(n)) :
              ~ IsText(LeaveFrames(n)[i]) /\ LeaveFrames(n)[i].type \in {"count", "left"}
  <1> DEFINE a == [type |-> "count", n |-> n]
             b == [type |-> "left"]
  <1>1. a \in Frame /\ ~ IsText(a) /\ a.type = "count"
    BY CountMade
  <1>2. b \in Frame /\ ~ IsText(b) /\ b.type = "left"
    BY NoteMade
  <1>3. LeaveFrames(n) = <<a, b>>
    BY DEF LeaveFrames
  <1> HIDE DEF a, b
  <1> QED
    BY <1>1, <1>2, <1>3

\* The elements of s \o t.
LEMMA Joined ==
  ASSUME NEW S, NEW s \in Seq(S), NEW t \in Seq(S)
  PROVE  /\ s \o t \in Seq(S) /\ Len(s \o t) = Len(s) + Len(t)
         /\ Len(s) \in Nat /\ Len(t) \in Nat
         /\ \A i \in 1 .. Len(s) : (s \o t)[i] = s[i]
         /\ \A i \in 1 .. Len(t) : (s \o t)[Len(s) + i] = t[i]
         /\ \A i \in 1 .. Len(s) + Len(t) : i > Len(s) => (s \o t)[i] = t[i - Len(s)] /\ i - Len(s) \in 1 .. Len(t)
  OBVIOUS

\* The elements of Tail(s).
LEMMA Dropped ==
  ASSUME NEW S, NEW s \in Seq(S), s # <<>>
  PROVE  /\ Tail(s) \in Seq(S) /\ Len(Tail(s)) = Len(s) - 1 /\ Len(s) \in Nat \ {0}
         /\ Head(s) = s[1] /\ s[1] \in S
         /\ \A i \in 1 .. Len(s) - 1 : Tail(s)[i] = s[i + 1]
  OBVIOUS

\* A frame that is not at the head stays, and frames that are added are there.
LEMMA InTail ==
  ASSUME NEW s \in Seq(Frame), s # <<>>, NEW f, In(f, s), Head(s) # f
  PROVE  In(f, Tail(s))
  <1>1. PICK i \in 1 .. Len(s) : s[i] = f
    BY DEF In
  <1>2. i # 1
    BY <1>1, Dropped
  <1>3. i - 1 \in 1 .. Len(Tail(s)) /\ Tail(s)[i - 1] = s[i]
    BY <1>2, Dropped
  <1> QED
    BY <1>1, <1>3 DEF In

LEMMA InJoined ==
  ASSUME NEW s \in Seq(Frame), NEW t \in Seq(Frame), NEW f, In(f, s) \/ In(f, t)
  PROVE  In(f, s \o t)
  <1>1. CASE In(f, s)
    <2>1. PICK i \in 1 .. Len(s) : s[i] = f
      BY <1>1 DEF In
    <2>2. i \in 1 .. Len(s \o t) /\ (s \o t)[i] = f
      BY <2>1, Joined
    <2> QED
      BY <2>2 DEF In
  <1>2. CASE In(f, t)
    <2>1. PICK i \in 1 .. Len(t) : t[i] = f
      BY <1>2 DEF In
    <2>2. Len(s) + i \in 1 .. Len(s \o t) /\ (s \o t)[Len(s) + i] = f
      BY <2>1, Joined
    <2> QED
      BY <2>2 DEF In
  <1> QED
    BY <1>1, <1>2

LEMMA InOne ==
  ASSUME NEW f \in Frame
  PROVE  In(f, <<f>>)
  <1>1. 1 \in 1 .. Len(<<f>>) /\ <<f>>[1] = f
    BY One
  <1> QED
    BY <1>1 DEF In

\* A channel from which texts were taken, none added.
Quieter(s, t) == Bodies(t) \subseteq Bodies(s) /\ (Ordered(s) => Ordered(t))

LEMMA QuietSame ==
  ASSUME NEW s
  PROVE  Quieter(s, s)
  BY DEF Quieter

LEMMA QuietEmpty ==
  ASSUME NEW s
  PROVE  Quieter(s, <<>>)
  BY DEF Quieter, Bodies, Ordered

LEMMA QuietTail ==
  ASSUME NEW s \in Seq(Frame), s # <<>>
  PROVE  Quieter(s, Tail(s))
  <1>1. ASSUME NEW i \in 1 .. Len(Tail(s))
        PROVE  i + 1 \in 1 .. Len(s) /\ Tail(s)[i] = s[i + 1] /\ i \in Nat
    BY Dropped
  <1>2. Bodies(Tail(s)) \subseteq Bodies(s)
    BY <1>1 DEF Bodies
  <1>3. ASSUME Ordered(s)
        PROVE  Ordered(Tail(s))
    <2> SUFFICES ASSUME NEW i \in 1 .. Len(Tail(s)), IsText(Tail(s)[i]),
                        NEW k \in 1 .. i - 1, IsText(Tail(s)[k])
                 PROVE  Precedes({Tail(s)[k].body}, {Tail(s)[i].body})
      BY DEF Ordered
    <2>1. k \in 1 .. Len(Tail(s))
      BY Dropped
    <2>2. k + 1 \in 1 .. (i + 1) - 1
      BY <1>1
    <2>3. Tail(s)[i] = s[i + 1] /\ Tail(s)[k] = s[k + 1] /\ i + 1 \in 1 .. Len(s)
      BY <1>1, <2>1
    <2> QED
      BY <1>3, <2>2, <2>3 DEF Ordered
  <1> QED
    BY <1>2, <1>3 DEF Quieter

LEMMA QuietJoined ==
  ASSUME NEW s \in Seq(Frame), NEW t \in Seq(Frame), \A i \in 1 .. Len(t) : ~ IsText(t[i])
  PROVE  Quieter(s, s \o t)
  <1>1. ASSUME NEW i \in 1 .. Len(s \o t), IsText((s \o t)[i])
        PROVE  i \in 1 .. Len(s) /\ (s \o t)[i] = s[i]
    BY <1>1, Joined
  <1>2. Bodies(s \o t) \subseteq Bodies(s)
    BY <1>1 DEF Bodies
  <1>3. ASSUME Ordered(s)
        PROVE  Ordered(s \o t)
    <2> SUFFICES ASSUME NEW i \in 1 .. Len(s \o t), IsText((s \o t)[i]),
                        NEW k \in 1 .. i - 1, IsText((s \o t)[k])
                 PROVE  Precedes({(s \o t)[k].body}, {(s \o t)[i].body})
      BY DEF Ordered
    <2>1. i \in 1 .. Len(s) /\ (s \o t)[i] = s[i]
      BY <1>1
    <2>2. k \in 1 .. Len(s) /\ (s \o t)[k] = s[k]
      BY <2>1, Joined
    <2> QED
      BY <1>3, <2>1, <2>2 DEF Ordered
  <1> QED
    BY <1>2, <1>3 DEF Quieter

\* A text that is added comes after those of its author that are there.
LEMMA TextJoined ==
  ASSUME NEW s \in Seq(Frame), NEW f \in Frame, IsText(f), Ordered(s), Precedes(Bodies(s), {f.body})
  PROVE  Bodies(s \o <<f>>) = Bodies(s) \cup {f.body} /\ Ordered(s \o <<f>>)
  <1> DEFINE u == s \o <<f>>
  <1>1. /\ Len(u) = Len(s) + 1 /\ Len(s) \in Nat /\ u[Len(s) + 1] = f
        /\ \A i \in 1 .. Len(s) : u[i] = s[i]
    BY One, Joined
  <1> HIDE DEF u
  <1>2. Bodies(u) = Bodies(s) \cup {f.body}
    <2>1. ASSUME NEW b \in Bodies(u)
          PROVE  b \in Bodies(s) \cup {f.body}
      <3>1. PICK i \in 1 .. Len(u) : IsText(u[i]) /\ b = u[i].body
        BY DEF Bodies
      <3>2. i = Len(s) + 1 \/ i \in 1 .. Len(s)
        BY <1>1
      <3> QED
        BY <1>1, <3>1, <3>2 DEF Bodies
    <2>2. ASSUME NEW b \in Bodies(s)
          PROVE  b \in Bodies(u)
      <3>1. PICK i \in 1 .. Len(s) : IsText(s[i]) /\ b = s[i].body
        BY DEF Bodies
      <3>2. i \in 1 .. Len(u)
        BY <1>1
      <3> QED
        BY <1>1, <3>1, <3>2 DEF Bodies
    <2>3. f.body \in Bodies(u)
      <3>1. Len(s) + 1 \in 1 .. Len(u)
        BY <1>1
      <3> QED
        BY <1>1, <3>1 DEF Bodies
    <2> QED
      BY <2>1, <2>2, <2>3
  <1>3. Ordered(u)
    <2> SUFFICES ASSUME NEW i \in 1 .. Len(u), IsText(u[i]), NEW k \in 1 .. i - 1, IsText(u[k])
                 PROVE  Precedes({u[k].body}, {u[i].body})
      BY DEF Ordered
    <2>1. k \in 1 .. Len(s) /\ u[k] = s[k]
      BY <1>1
    <2>2. CASE i \in 1 .. Len(s)
      BY <1>1, <2>1, <2>2 DEF Ordered
    <2>3. CASE i = Len(s) + 1
      <3>1. s[k].body \in Bodies(s)
        BY <2>1 DEF Bodies
      <3> QED
        BY <1>1, <2>1, <2>3, <3>1 DEF Precedes
    <2> QED
      BY <1>1, <2>2, <2>3
  <1> QED
    BY <1>2, <1>3 DEF u

\* The text at the head comes before those behind it.
LEMMA TextTaken ==
  ASSUME NEW s \in Seq(Frame), s # <<>>, IsText(Head(s)), Ordered(s)
  PROVE  Head(s).body \in Bodies(s) /\ Precedes({Head(s).body}, Bodies(Tail(s)))
  <1>1. Head(s) = s[1] /\ 1 \in 1 .. Len(s)
    BY Dropped
  <1>2. Head(s).body \in Bodies(s)
    BY <1>1 DEF Bodies
  <1>3. ASSUME NEW b \in Bodies(Tail(s))
        PROVE  Precedes({Head(s).body}, {b})
    <2>1. PICK i \in 1 .. Len(Tail(s)) : IsText(Tail(s)[i]) /\ b = Tail(s)[i].body
      BY DEF Bodies
    <2>2. i + 1 \in 1 .. Len(s) /\ Tail(s)[i] = s[i + 1] /\ 1 \in 1 .. (i + 1) - 1
      BY Dropped
    <2> QED
      BY <1>1, <2>1, <2>2 DEF Ordered
  <1> QED
    BY <1>2, <1>3 DEF Precedes

\* A text that is shown.
LEMMA TextShown ==
  ASSUME NEW m \in Seq(Everyone \X Nat), NEW b \in Everyone \X Nat, InOrder(m),
         Precedes(Elems(m), {b})
  PROVE  Elems(Append(m, b)) = Elems(m) \cup {b} /\ InOrder(Append(m, b))
  <1> DEFINE u == Append(m, b)
  <1>1. /\ Len(u) = Len(m) + 1 /\ Len(m) \in Nat /\ u[Len(m) + 1] = b
        /\ \A i \in 1 .. Len(m) : u[i] = m[i]
    OBVIOUS
  <1> HIDE DEF u
  <1>2. Elems(u) = Elems(m) \cup {b}
    <2>1. ASSUME NEW i \in 1 .. Len(u)
          PROVE  u[i] \in Elems(m) \cup {b}
      <3>1. i = Len(m) + 1 \/ i \in 1 .. Len(m)
        BY <1>1
      <3> QED
        BY <1>1, <3>1 DEF Elems
    <2>2. ASSUME NEW i \in 1 .. Len(m)
          PROVE  m[i] \in Elems(u)
      <3>1. i \in 1 .. Len(u)
        BY <1>1
      <3> QED
        BY <1>1, <3>1 DEF Elems
    <2>3. b \in Elems(u)
      <3>1. Len(m) + 1 \in 1 .. Len(u)
        BY <1>1
      <3> QED
        BY <1>1, <3>1 DEF Elems
    <2> QED
      BY <2>1, <2>2, <2>3 DEF Elems
  <1>3. InOrder(u)
    <2> SUFFICES ASSUME NEW i \in 1 .. Len(u), NEW k \in 1 .. i - 1
                 PROVE  Precedes({u[k]}, {u[i]})
      BY DEF InOrder
    <2>1. k \in 1 .. Len(m)
      BY <1>1
    <2>2. u[k] = m[k]
      BY <1>1, <2>1
    <2>3. CASE i \in 1 .. Len(m)
      BY <1>1, <2>1, <2>2, <2>3 DEF InOrder
    <2>4. CASE i = Len(m) + 1
      <3>1. m[k] \in Elems(m)
        BY <2>1 DEF Elems
      <3> QED
        BY <1>1, <2>2, <2>4, <3>1 DEF Precedes
    <2> QED
      BY <1>1, <2>3, <2>4
  <1> QED
    BY <1>2, <1>3 DEF u

-----------------------------------------------------------------------------
(* What sending does to the channels, and types.                           *)

\* Everything that is taken from TypeOK.
LEMMA Typing ==
  ASSUME TypeOK, NEW j \in Joiners
  PROVE  /\ toI[j] \in Seq(Frame) /\ toJ[j] \in Seq(Frame) /\ toJ \in [Joiners -> Seq(Frame)]
         /\ toI \in [Joiners -> Seq(Frame)] /\ j \in Everyone /\ Initiator \in Everyone /\ j # Initiator
         /\ missed \subseteq Joiners
  BY InitiatorAssumption DEF TypeOK, Everyone

\* SendTo adds the frames to the channels of those who are in the session; who has
\* not wired his end misses them.
LEMMA SendToEffect ==
  ASSUME TypeOK, NEW js \in SUBSET Joiners, NEW frames \in Seq(Frame), SendTo(js, frames)
  PROVE  /\ toJ' \in [Joiners -> Seq(Frame)] /\ missed' \subseteq Joiners /\ missed \subseteq missed'
         /\ \A j \in Joiners : \/ toJ'[j] = toJ[j]
                               \/ toJ'[j] = toJ[j] \o frames /\ j \in js /\ state[j] \in {"in", "idle"}
         /\ \A j \in js : state[j] = "in" => toJ'[j] = toJ[j] \o frames
         /\ \A j \in js : state[j] = "out" => j \in missed'
  <1>1. \A j \in Joiners : toJ[j] \o frames \in Seq(Frame) /\ toJ[j] \in Seq(Frame)
    BY Joined, Typing
  <1>2. missed \subseteq Joiners
    BY DEF TypeOK
  <1> QED
    BY <1>1, <1>2 DEF SendTo, Active

\* SendHub adds the frame to the sender's channel if the initiator listens, and clears
\* or keeps the sender's own inbox.
LEMMA SendHubEffect ==
  ASSUME TypeOK, NEW j \in Joiners, NEW f \in Frame, NEW inbox \in {toJ[j], <<>>}, SendHub(j, f, inbox)
  PROVE  /\ toJ' \in [Joiners -> Seq(Frame)] /\ toI' \in [Joiners -> Seq(Frame)]
         /\ missed' \subseteq Joiners /\ missed \subseteq missed'
         /\ j \notin wired => j \in missed'
         /\ toJ'[j] = inbox /\ \A k \in Joiners : k # j => toJ'[k] = toJ[k] /\ toI'[k] = toI[k]
         /\ \/ toI'[j] = toI[j] /\ ~ (hub[j] /\ Live(Initiator) /\ j \in wired)
            \/ toI'[j] = toI[j] \o <<f>> /\ j \in wired
  <1>1. toI \in [Joiners -> Seq(Frame)] /\ toJ \in [Joiners -> Seq(Frame)] /\ missed \subseteq Joiners
    BY DEF TypeOK
  <1>2. toI[j] \in Seq(Frame)
    BY <1>1
  <1>3. Append(toI[j], f) = toI[j] \o <<f>> /\ Append(toI[j], f) \in Seq(Frame)
    BY <1>2
  <1>4. inbox \in Seq(Frame)
    BY <1>1, EmptySeq
  <1>5. toJ' = [toJ EXCEPT ![j] = inbox] /\ missed' = IF j \in wired THEN missed ELSE missed \cup {j}
    BY DEF SendHub
  <1>6. CASE hub[j] /\ Live(Initiator) /\ j \in wired
    <2>1. toI' = [toI EXCEPT ![j] = Append(toI[j], f)]
      BY <1>6 DEF SendHub
    <2> QED
      BY <1>1, <1>3, <1>4, <1>5, <1>6, <2>1
  <1>7. CASE ~ (hub[j] /\ Live(Initiator) /\ j \in wired)
    <2>1. toI' = toI
      BY <1>7 DEF SendHub
    <2> QED
      BY <1>1, <1>4, <1>5, <1>7, <2>1
  <1> QED
    BY <1>6, <1>7

\* A step by which no text is added anywhere, sent or shown.
LEMMA QuietTexts ==
  ASSUME Texts, UNCHANGED <<shown, sent>>,
         \A j \in Joiners : Quieter(toI[j], toI'[j]) /\ Quieter(toJ[j], toJ'[j])
  PROVE  Texts'
  <1>1. \A j \in Joiners : /\ Bodies(toI'[j]) \subseteq Bodies(toI[j]) /\ Bodies(toJ'[j]) \subseteq Bodies(toJ[j])
                           /\ Ordered(toI[j]) => Ordered(toI'[j])
                           /\ Ordered(toJ[j]) => Ordered(toJ'[j])
    BY DEF Quieter
  <1>2. ASSUME NEW A, NEW B, NEW C, NEW D, Precedes(A, B), C \subseteq A, D \subseteq B
        PROVE  Precedes(C, D)
    BY <1>2 DEF Precedes
  <1>3. ASSUME NEW y \in Joiners
        PROVE  /\ Ordered(toI'[y])
               /\ \A b \in Bodies(toI'[y]) : b[1] = y /\ b[2] <= sent'[y]
    BY <1>1 DEF Texts
  <1>4. ASSUME NEW x \in Joiners
        PROVE  /\ Ordered(toJ'[x])
               /\ \A b \in Bodies(toJ'[x]) : b[1] # x /\ b[2] <= sent'[b[1]]
               /\ Precedes(Elems(shown'[x]), Bodies(toJ'[x]))
    BY <1>1, <1>2 DEF Texts
  <1>5. ASSUME NEW x \in Joiners, NEW y \in Joiners
        PROVE  Precedes(Bodies(toJ'[x]), Bodies(toI'[y]))
    BY <1>1, <1>2 DEF Texts
  <1>6. ASSUME NEW x \in Everyone
        PROVE  /\ InOrder(shown'[x])
               /\ \A b \in Elems(shown'[x]) : b[1] # x /\ b[2] <= sent'[b[1]]
               /\ \A y \in Joiners : Precedes(Elems(shown'[x]), Bodies(toI'[y]))
    BY <1>1, <1>2 DEF Texts
  <1> QED
    BY <1>3, <1>4, <1>5, <1>6 DEF Texts

\* The counterparts of QuietTexts for the two ways to send.
LEMMA QuietSendTo ==
  ASSUME TypeOK, NEW js \in SUBSET Joiners, NEW frames \in Seq(Frame), SendTo(js, frames),
         \A i \in 1 .. Len(frames) : ~ IsText(frames[i]), NEW j \in Joiners
  PROVE  Quieter(toJ[j], toJ'[j])
  <1>1. Quieter(toJ[j], toJ[j]) /\ Quieter(toJ[j], toJ[j] \o frames)
    BY Typing, QuietSame, QuietJoined
  <1>2. toJ'[j] = toJ[j] \/ toJ'[j] = toJ[j] \o frames
    BY SendToEffect
  <1> QED
    BY <1>1, <1>2

LEMMA QuietSendHub ==
  ASSUME TypeOK, NEW j \in Joiners, NEW f \in Frame, ~ IsText(f), NEW inbox \in {toJ[j], <<>>},
         SendHub(j, f, inbox), NEW k \in Joiners
  PROVE  Quieter(toI[k], toI'[k]) /\ Quieter(toJ[k], toJ'[k])
  <1>1. CASE k # j
    BY <1>1, SendHubEffect, QuietSame
  <1>2. CASE k = j
    <2>1. Quieter(toJ[k], toJ'[k])
      BY <1>2, SendHubEffect, QuietSame, QuietEmpty
    <2>2. Quieter(toI[j], toI[j] \o <<f>>)
      BY QuietJoined, One, Typing
    <2> QED
      BY <1>2, <2>1, <2>2, SendHubEffect, QuietSame
  <1> QED
    BY <1>1, <1>2

\* Frames are not lost from a channel to which others are added.
LEMMA StillIn ==
  ASSUME TypeOK, NEW js \in SUBSET Joiners, NEW frames \in Seq(Frame), SendTo(js, frames),
         NEW j \in Joiners, NEW f, In(f, toJ[j])
  PROVE  In(f, toJ'[j])
  <1>1. In(f, toJ[j] \o frames)
    BY Typing, InJoined
  <1>2. toJ'[j] = toJ[j] \/ toJ'[j] = toJ[j] \o frames
    BY SendToEffect
  <1> QED
    BY <1>1, <1>2

\* The number of peers a step takes away from is at least one.
LEMMA AtLeast ==
  ASSUME NEW n \in Int
  PROVE  AtLeastOne(n) \in Nat \ {0}
  BY DEF AtLeastOne

-----------------------------------------------------------------------------
(* Events.                                                                 *)

\* A name is known, or its event is dropped: then the session of x is over or its
\* Events were full.
LEMMA LearnEffect ==
  ASSUME TypeOK, NEW x \in Everyone, NEW who \in SUBSET Everyone, Learn(x, who)
  PROVE  /\ knows' \in [Everyone -> SUBSET Everyone] /\ \A y \in Everyone : knows[y] \subseteq knows'[y]
         /\ slow' \in SUBSET Everyone /\ slow \subseteq slow'
         /\ state[x] \in {"in", "idle"} => who \subseteq knows'[x] \/ x \in slow'
  <1>1. knows \in [Everyone -> SUBSET Everyone] /\ slow \subseteq Everyone
    BY DEF TypeOK
  <1>2. \/ knows' = [knows EXCEPT ![x] = knows[x] \cup who] /\ slow' = slow
        \/ knows' = knows /\ slow' = slow /\ state[x] \notin {"in", "idle"}
        \/ knows' = knows /\ slow' = slow \cup {x}
    BY DEF Learn, Drop, Active
  <1> QED
    BY <1>1, <1>2

\* A text is shown, or its event is dropped.
LEMMA ShowEffect ==
  ASSUME TypeOK, NEW x \in Everyone, NEW m, Show(x, m)
  PROVE  /\ slow' \in SUBSET Everyone /\ slow \subseteq slow'
         /\ shown' = shown \/ shown' = [shown EXCEPT ![x] = Append(shown[x], m)]
  <1>1. slow \subseteq Everyone
    BY DEF TypeOK
  <1> QED
    BY <1>1 DEF Show, Drop

-----------------------------------------------------------------------------
(* A joiner takes a frame.                                                 *)

\* The frame is taken from his channel and nothing else moves.
LEMMA TakesEffect ==
  ASSUME TypeOK, NEW j \in Joiners, NEW t, Takes(j, t)
  PROVE  /\ toJ' \in [Joiners -> Seq(Frame)] /\ toJ[j] # <<>> /\ state[j] \in {"in", "idle"}
         /\ toJ'[j] = Tail(toJ[j]) /\ \A k \in Joiners : k # j => toJ'[k] = toJ[k]
         /\ Head(toJ[j]) \in Frame /\ Head(toJ[j]).type = t /\ Head(toJ[j]) = toJ[j][1]
         /\ \A k \in Joiners : Quieter(toI[k], toI'[k]) /\ Quieter(toJ[k], toJ'[k])
         /\ UNCHANGED <<toI, missed, pend, first, wired, closed, peers, busy, roster, sent, named, closing>>
  <1>1. /\ toJ' = [toJ EXCEPT ![j] = Tail(toJ[j])] /\ toJ[j] # <<>> /\ state[j] \in {"in", "idle"}
        /\ Head(toJ[j]).type = t
        /\ UNCHANGED <<toI, missed, pend, first, wired, closed, peers, busy, roster, sent, named, closing>>
    BY DEF Takes, Active
  <1>2. /\ Tail(toJ[j]) \in Seq(Frame) /\ Head(toJ[j]) \in Frame /\ Head(toJ[j]) = toJ[j][1]
        /\ toJ \in [Joiners -> Seq(Frame)]
    BY <1>1, Typing, Dropped
  <1>3. Quieter(toJ[j], Tail(toJ[j]))
    BY <1>1, Typing, QuietTail
  <1>4. /\ toJ' \in [Joiners -> Seq(Frame)]
        /\ toJ'[j] = Tail(toJ[j]) /\ \A k \in Joiners : k # j => toJ'[k] = toJ[k]
    BY <1>1, <1>2
  <1>5. \A k \in Joiners : Quieter(toI[k], toI'[k]) /\ Quieter(toJ[k], toJ'[k])
    BY <1>1, <1>3, <1>4, QuietSame
  <1> QED
    BY <1>1, <1>2, <1>4, <1>5

\* What the joiner's handlers have in common: only a close ends his session, only a
\* leave takes the initiator out, and names that arrive are known.
LEMMA JoinerStep ==
  ASSUME IInv, NEW j \in Joiners, NEW t, Takes(j, t),
         state' = [state EXCEPT ![j] = IF t = "close" THEN "ended" ELSE @],
         hub' = [hub EXCEPT ![j] = IF t = "leave" THEN FALSE ELSE @],
         count' \in [Everyone -> Nat \ {0}],
         knows' \in [Everyone -> SUBSET Everyone], \A x \in Everyone : knows[x] \subseteq knows'[x],
         slow' \in SUBSET Everyone, slow \subseteq slow',
         t = "name" => Head(toJ[j]).of \in knows'[j] \/ j \in slow',
         t = "roster" => Head(toJ[j]).names \subseteq knows'[j] \/ j \in slow',
         shown' \in [Everyone -> Seq(Everyone \X Nat)]
  PROVE  TypeOK' /\ Leaving' /\ Naming' /\ Closing'
  <1> USE DEF IInv
  <1>1. /\ toJ' \in [Joiners -> Seq(Frame)] /\ toJ[j] # <<>> /\ state[j] \in {"in", "idle"}
        /\ toJ'[j] = Tail(toJ[j]) /\ \A k \in Joiners : k # j => toJ'[k] = toJ[k]
        /\ Head(toJ[j]) \in Frame /\ Head(toJ[j]).type = t /\ Head(toJ[j]) = toJ[j][1]
        /\ UNCHANGED <<toI, missed, pend, first, wired, closed, peers, busy, roster, sent, named, closing>>
    BY TakesEffect
  <1>2. /\ state \in [Everyone -> {"out", "in", "idle", "ended", "gone"}] /\ j \in Everyone /\ Initiator \in Everyone
        /\ j # Initiator /\ hub \in [Joiners -> BOOLEAN] /\ toJ[j] \in Seq(Frame)
    BY Typing DEF TypeOK
  <1>3. /\ state' \in [Everyone -> {"out", "in", "idle", "ended", "gone"}] /\ hub' \in [Joiners -> BOOLEAN]
        /\ state'[Initiator] = state[Initiator] /\ \A x \in Everyone : x # j => state'[x] = state[x]
        /\ state'[j] = IF t = "close" THEN "ended" ELSE state[j]
        /\ hub'[j] = (hub[j] /\ t # "leave") /\ \A k \in Joiners : k # j => hub'[k] = hub[k]
    BY <1>1, <1>2
  <1>4. /\ Len(toJ'[j]) = Len(toJ[j]) - 1 /\ Len(toJ[j]) \in Nat \ {0}
        /\ \A i \in 1 .. Len(toJ'[j]) : toJ'[j][i] = toJ[j][i + 1] /\ i + 1 \in 1 .. Len(toJ[j])
    BY <1>1, <1>2, Dropped
  <1>5. ASSUME NEW f, In(f, toJ[j]), f # toJ[j][1]
        PROVE  In(f, toJ'[j])
    BY <1>1, <1>2, <1>5, InTail
  <1>6. Joiners \subseteq Everyone
    BY DEF Everyone
  <1>7. TypeOK'
    BY <1>1, <1>3 DEF TypeOK, Frame
  <1>8. Leaving'
    <2>1. ASSUME NEW k \in Joiners
          PROVE  /\ state[k] \in {"idle", "ended", "gone"} => state'[k] \in {"idle", "ended", "gone"}
                 /\ state'[k] = "out" => state[k] = "out" /\ k # j
      BY <1>1, <1>3, <1>6
    <2>2. Members' /\ LastLeave'
      BY <1>1, <1>3, <2>1 DEF Leaving, Members, LastLeave
    <2>3. ASSUME NEW k \in Joiners, state'[k] = "in", state'[Initiator] \in {"out", "in"}
          PROVE  hub'[k] /\ \A i \in 1 .. Len(toJ'[k]) : toJ'[k][i].type # "leave"
      <3>1. CASE k = j
        <4>1. hub[j] /\ \A i \in 1 .. Len(toJ[j]) : toJ[j][i].type # "leave"
          BY <1>1, <1>3, <2>3, <3>1 DEF Leaving, HubThere
        <4>2. 1 \in 1 .. Len(toJ[j])
          BY <1>4
        <4>3. t # "leave"
          BY <1>1, <4>1, <4>2
        <4>4. \A i \in 1 .. Len(toJ'[j]) : toJ'[j][i].type # "leave"
          BY <1>4, <4>1
        <4> QED
          BY <1>3, <3>1, <4>1, <4>3, <4>4
      <3>2. CASE k # j
        <4>1. state[k] = "in" /\ state[Initiator] \in {"out", "in"} /\ hub'[k] = hub[k] /\ toJ'[k] = toJ[k]
          BY <1>1, <1>3, <1>6, <2>3, <3>2
        <4> QED
          BY <4>1 DEF Leaving, HubThere
      <3> QED
        BY <3>1, <3>2
    <2>4. ASSUME NEW k \in Joiners, state'[k] = "out"
          PROVE  toJ'[k] = <<>>
      BY <1>1, <2>1, <2>4 DEF Leaving, HubThere
    <2> QED
      BY <2>2, <2>3, <2>4 DEF Leaving, HubThere
  <1>9. Naming'
    <2>1. ASSUME NEW k \in Joiners, k \in named', Present(k)'
          PROVE  Present(k)
      BY <1>1, <1>3, <1>6, <2>1 DEF Present
    <2>2. ASSUME NEW k \in Joiners, k \in named', Present(k)', Initiator \in named'
          PROVE  Initiator \in knows'[k] \/ k \in slow' \/ busy'[k] \/ In(NameOf(k), toI'[k]) \/ Coming(k)'
      <3>1. Initiator \in knows[k] \/ k \in slow \/ busy[k] \/ In(NameOf(k), toI[k]) \/ Coming(k)
        BY <1>1, <2>1, <2>2 DEF Naming
      <3>2. CASE k # j
        BY <1>1, <1>6, <3>1, <3>2 DEF Coming
      <3>3. CASE k = j /\ (Initiator \in knows[k] \/ k \in slow \/ busy[k] \/ In(NameOf(k), toI[k]))
        BY <1>1, <1>2, <3>3
      <3>4. CASE k = j /\ In(NameOf(Initiator), toJ[k])
        <4>1. CASE toJ[j][1] = NameOf(Initiator)
          BY <1>1, <3>4, <4>1 DEF NameOf
        <4>2. CASE toJ[j][1] # NameOf(Initiator)
          BY <1>5, <3>4, <4>2 DEF Coming
        <4> QED
          BY <4>1, <4>2
      <3>5. CASE k = j /\ \E i \in 1 .. Len(toJ[k]) : toJ[k][i].type = "roster" /\ Initiator \in toJ[k][i].names
        <4>1. PICK i \in 1 .. Len(toJ[j]) : toJ[j][i].type = "roster" /\ Initiator \in toJ[j][i].names
          BY <3>5
        <4>2. CASE i = 1
          BY <1>1, <3>5, <4>1, <4>2
        <4>3. CASE i # 1
          <5>1. i - 1 \in 1 .. Len(toJ'[j]) /\ (i - 1) + 1 = i
            BY <1>4, <4>3
          <5>2. toJ'[j][i - 1] = toJ[j][i]
            BY <1>4, <5>1
          <5> QED
            BY <3>5, <4>1, <5>1, <5>2 DEF Coming
        <4> QED
          BY <4>2, <4>3
      <3> QED
        BY <3>1, <3>2, <3>3, <3>4, <3>5 DEF Coming
    <2>3. ASSUME NEW k \in Joiners, k \in named', Present(k)'
          PROVE  /\ k \in roster' \/ busy'[k] \/ In(NameOf(k), toI'[k])
                 /\ k \in knows'[Initiator] \/ Initiator \in slow' \/ In(NameOf(k), toI'[k])
      BY <1>1, <1>2, <2>1, <2>3 DEF Naming
    <2> QED
      BY <1>1, <2>2, <2>3 DEF Naming
  <1>10. Closing'
    <2> SUFFICES ASSUME NEW k \in closing, k \notin missed
                 PROVE  state'[k] # "out" /\ (state'[k] = "in" => In([type |-> "close"], toJ'[k]))
      BY <1>1 DEF Closing
    <2>1. k \in Joiners /\ state[k] # "out" /\ (state[k] = "in" => In([type |-> "close"], toJ[k]))
      BY DEF Closing, TypeOK
    <2>2. CASE k # j
      BY <1>1, <1>3, <1>6, <2>1, <2>2
    <2>3. CASE k = j
      <3>1. CASE t = "close"
        BY <1>3, <2>3, <3>1
      <3>2. CASE t # "close"
        <4>1. [type |-> "close"] # toJ[j][1]
          BY <1>1, <3>2
        <4>2. state[j] = "in" => In([type |-> "close"], toJ[j])
          BY <2>1, <2>3
        <4>3. state[j] = "in" => In([type |-> "close"], toJ'[j])
          BY <1>5, <4>1, <4>2
        <4> QED
          BY <1>3, <2>1, <2>3, <3>2, <4>3
      <3> QED
        BY <3>1, <3>2
    <2> QED
      BY <2>2, <2>3
  <1> QED
    BY <1>7, <1>8, <1>9, <1>10

LEMMA SameAt ==
  ASSUME NEW A, NEW B, NEW f \in [A -> B], NEW a \in A
  PROVE  [f EXCEPT ![a] = f[a]] = f
  OBVIOUS

\* The forms of state and hub that JoinerStep asks for, where they do not change.
LEMMA SameRoom ==
  ASSUME TypeOK, NEW j \in Joiners, NEW t
  PROVE  /\ t # "close" => state = [state EXCEPT ![j] = IF t = "close" THEN "ended" ELSE @]
         /\ t # "leave" => hub = [hub EXCEPT ![j] = IF t = "leave" THEN FALSE ELSE @]
  <1>1. state \in [Everyone -> {"out", "in", "idle", "ended", "gone"}] /\ hub \in [Joiners -> BOOLEAN] /\ j \in Everyone
    BY Typing DEF TypeOK
  <1>2. [state EXCEPT ![j] = state[j]] = state
    BY <1>1, SameAt
  <1>3. [hub EXCEPT ![j] = hub[j]] = hub
    BY <1>1, SameAt
  <1> QED
    BY <1>2, <1>3

\* The text at the head of a joiner's channel is shown.
LEMMA JoinerTextStep ==
  ASSUME IInv, NEW j \in Joiners, JoinerText(j)
  PROVE  IInv'
  <1> USE DEF IInv
  <1>1. PICK t \in {"msg", "relay"} : Takes(j, t)
    BY DEF JoinerText
  <1>2. /\ toJ' \in [Joiners -> Seq(Frame)] /\ toJ[j] # <<>> /\ state[j] \in {"in", "idle"}
        /\ toJ'[j] = Tail(toJ[j]) /\ \A k \in Joiners : k # j => toJ'[k] = toJ[k]
        /\ Head(toJ[j]) \in Frame /\ Head(toJ[j]).type = t
        /\ \A k \in Joiners : Quieter(toJ[k], toJ'[k])
        /\ toI' = toI /\ sent' = sent
    BY <1>1, TakesEffect
  <1> DEFINE b == Head(toJ[j]).body
  <1>3. IsText(Head(toJ[j])) /\ b \in Everyone \X Nat
    BY <1>2, FrameFields DEF IsText
  <1>4. /\ toJ[j] \in Seq(Frame) /\ j \in Everyone /\ Joiners \subseteq Everyone
        /\ shown \in [Everyone -> Seq(Everyone \X Nat)]
        /\ knows \in [Everyone -> SUBSET Everyone] /\ count \in [Everyone -> Nat \ {0}]
    BY Typing DEF TypeOK, Everyone
  <1>5. /\ shown' = shown \/ shown' = [shown EXCEPT ![j] = Append(shown[j], b)]
        /\ slow' \in SUBSET Everyone /\ slow \subseteq slow'
        /\ UNCHANGED <<state, hub, count, knows>>
    BY <1>4, ShowEffect DEF JoinerText
  <1>6. b \in Bodies(toJ[j]) /\ Precedes({b}, Bodies(toJ'[j]))
    BY <1>2, <1>3, <1>4, TextTaken DEF Texts
  <1>7. \A y \in Joiners : Precedes({b}, Bodies(toI[y]))
    BY <1>6 DEF Texts, Precedes
  <1>8. b[1] # j /\ b[2] <= sent[b[1]] /\ Precedes(Elems(shown[j]), {b})
    BY <1>6 DEF Texts, Precedes
  <1> HIDE DEF b
  <1>9. /\ shown' \in [Everyone -> Seq(Everyone \X Nat)]
        /\ shown' # shown => shown'[j] = Append(shown[j], b)
        /\ \A x \in Everyone : x # j => shown'[x] = shown[x]
    <2>1. Append(shown[j], b) \in Seq(Everyone \X Nat)
      BY <1>3, <1>4, AppendProperties
    <2> QED
      BY <1>4, <1>5, <2>1
  <1>10. TypeOK' /\ Leaving' /\ Naming' /\ Closing'
    <2>1. /\ state' = [state EXCEPT ![j] = IF t = "close" THEN "ended" ELSE @]
          /\ hub' = [hub EXCEPT ![j] = IF t = "leave" THEN FALSE ELSE @]
      BY <1>5, SameRoom
    <2> QED
      BY <1>1, <1>4, <1>5, <1>9, <2>1, JoinerStep
  <1>15. CASE shown' = shown
    <2>1. \A k \in Joiners : Quieter(toI[k], toI'[k])
      BY <1>2, QuietSame
    <2>2. Texts'
      BY <1>2, <1>15, <2>1, QuietTexts
    <2> QED
      BY <1>10, <2>2
  <1> SUFFICES ASSUME shown' # shown
               PROVE  IInv'
    BY <1>15
  <1>11. Elems(shown'[j]) = Elems(shown[j]) \cup {b} /\ InOrder(shown'[j])
    <2>1. shown[j] \in Seq(Everyone \X Nat) /\ InOrder(shown[j])
      BY <1>4 DEF Texts
    <2>2. b \in Everyone \X Nat /\ Precedes(Elems(shown[j]), {b})
      BY <1>3, <1>8
    <2>3. Elems(Append(shown[j], b)) = Elems(shown[j]) \cup {b} /\ InOrder(Append(shown[j], b))
      BY <2>1, <2>2, TextShown
    <2> QED
      BY <1>9, <2>3
  <1>12. ASSUME NEW A, NEW B, NEW C, NEW D, Precedes(A, B), C \subseteq A, D \subseteq B
         PROVE  Precedes(C, D)
    BY <1>12 DEF Precedes
  <1>13. ASSUME NEW A, NEW B, Precedes(A, B), Precedes({b}, B)
         PROVE  Precedes(A \cup {b}, B)
    BY <1>13 DEF Precedes
  <1>14. Texts'
    <2>1. ASSUME NEW x \in Joiners
          PROVE  /\ Ordered(toJ'[x])
                 /\ \A a \in Bodies(toJ'[x]) : a[1] # x /\ a[2] <= sent'[a[1]]
                 /\ \A y \in Joiners : Precedes(Bodies(toJ'[x]), Bodies(toI'[y]))
      BY <1>2, <1>12 DEF Texts, Quieter
    <2>2. ASSUME NEW x \in Joiners
          PROVE  Precedes(Elems(shown'[x]), Bodies(toJ'[x]))
      <3>1. Precedes(Elems(shown[x]), Bodies(toJ'[x]))
        BY <1>2, <1>12 DEF Texts, Quieter
      <3>2. CASE x = j
        BY <1>6, <1>11, <1>13, <3>1, <3>2
      <3>3. CASE x # j
        BY <1>4, <1>9, <3>1, <3>3
      <3> QED
        BY <3>2, <3>3
    <2>3. ASSUME NEW x \in Everyone
          PROVE  /\ InOrder(shown'[x])
                 /\ \A a \in Elems(shown'[x]) : a[1] # x /\ a[2] <= sent'[a[1]]
                 /\ \A y \in Joiners : Precedes(Elems(shown'[x]), Bodies(toI'[y]))
      <3>1. CASE x = j
        <4>1. \A y \in Joiners : Precedes(Elems(shown[x]), Bodies(toI[y]))
          BY DEF Texts
        <4>2. \A a \in Elems(shown[x]) : a[1] # x /\ a[2] <= sent[a[1]]
          BY DEF Texts
        <4> QED
          BY <1>2, <1>7, <1>8, <1>11, <1>13, <3>1, <4>1, <4>2
      <3>2. CASE x # j
        BY <1>2, <1>9, <3>2 DEF Texts
      <3> QED
        BY <3>1, <3>2
    <2>4. \A y \in Joiners : Ordered(toI'[y]) /\ \A a \in Bodies(toI'[y]) : a[1] = y /\ a[2] <= sent'[y]
      BY <1>2 DEF Texts
    <2> QED
      BY <2>1, <2>2, <2>3, <2>4 DEF Texts
  <1> QED
    BY <1>10, <1>14

\* Names, counts, the note of a departure, the end: no text.
LEMMA JoinerQuietStep ==
  ASSUME IInv, NEW j \in Joiners,
         JoinerName(j) \/ JoinerCount(j) \/ JoinerLeft(j) \/ JoinerClose(j) \/ JoinerHubLeaves(j)
  PROVE  IInv'
  <1> USE DEF IInv
  <1>1. /\ j \in Everyone /\ shown \in [Everyone -> Seq(Everyone \X Nat)]
        /\ knows \in [Everyone -> SUBSET Everyone] /\ count \in [Everyone -> Nat \ {0}]
        /\ AtLeastOne(count[j] - 1) \in Nat \ {0} /\ slow \in SUBSET Everyone
    <2>1. j \in Everyone /\ count \in [Everyone -> Nat \ {0}]
      BY Typing DEF TypeOK
    <2>2. count[j] - 1 \in Int
      BY <2>1
    <2> QED
      BY <2>1, <2>2, AtLeast DEF TypeOK
  <1>2. ASSUME NEW t, Takes(j, t), shown' = shown, TypeOK' /\ Leaving' /\ Naming' /\ Closing'
        PROVE  IInv'
    <2>1. sent' = sent /\ \A k \in Joiners : Quieter(toI[k], toI'[k]) /\ Quieter(toJ[k], toJ'[k])
      BY <1>2, TakesEffect
    <2> QED
      BY <1>2, <2>1, QuietTexts
  <1>3. CASE JoinerName(j)
    <2>1. PICK t \in {"name", "roster"} :
            /\ Takes(j, t) /\ UNCHANGED <<state, hub, count, shown>>
            /\ t = "name" => Learn(j, {Head(toJ[j]).of})
            /\ t = "roster" => Learn(j, Head(toJ[j]).names)
      BY <1>3 DEF JoinerName
    <2>2. /\ state[j] \in {"in", "idle"} /\ Head(toJ[j]) \in Frame /\ Head(toJ[j]).type = t
      BY <2>1, TakesEffect
    <2>3. /\ t = "name" => Head(toJ[j]).of \in Everyone
          /\ t = "roster" => Head(toJ[j]).names \subseteq Everyone
      BY <2>2, FrameFields
    <2>4. PICK who \in SUBSET Everyone : /\ Learn(j, who)
                                         /\ t = "name" => who = {Head(toJ[j]).of}
                                         /\ t = "roster" => who = Head(toJ[j]).names
      <3>1. CASE t = "name"
        <4>1. {Head(toJ[j]).of} \in SUBSET Everyone
          BY <2>3, <3>1
        <4> QED
          BY <2>1, <3>1, <4>1
      <3>2. CASE t = "roster"
        BY <2>1, <2>3, <3>2
      <3> QED
        BY <3>1, <3>2
    <2>5. /\ knows' \in [Everyone -> SUBSET Everyone] /\ \A x \in Everyone : knows[x] \subseteq knows'[x]
          /\ slow' \in SUBSET Everyone /\ slow \subseteq slow'
          /\ who \subseteq knows'[j] \/ j \in slow'
      BY <1>1, <2>2, <2>4, LearnEffect
    <2>6. /\ t = "name" => Head(toJ[j]).of \in knows'[j] \/ j \in slow'
          /\ t = "roster" => Head(toJ[j]).names \subseteq knows'[j] \/ j \in slow'
      BY <2>4, <2>5
    <2>7. /\ state' = [state EXCEPT ![j] = IF t = "close" THEN "ended" ELSE @]
          /\ hub' = [hub EXCEPT ![j] = IF t = "leave" THEN FALSE ELSE @]
      BY <2>1, SameRoom
    <2>8. count' = count /\ shown' = shown
      BY <2>1
    <2>9. TypeOK' /\ Leaving' /\ Naming' /\ Closing'
      BY <1>1, <2>1, <2>5, <2>6, <2>7, <2>8, JoinerStep
    <2> QED
      BY <1>2, <2>1, <2>8, <2>9
  <1>4. ASSUME NEW t \in {"count", "left", "close", "leave"}, Takes(j, t), UNCHANGED <<knows, shown, slow>>,
               state' = [state EXCEPT ![j] = IF t = "close" THEN "ended" ELSE @],
               hub' = [hub EXCEPT ![j] = IF t = "leave" THEN FALSE ELSE @],
               count' \in [Everyone -> Nat \ {0}]
        PROVE  IInv'
    <2>1. TypeOK' /\ Leaving' /\ Naming' /\ Closing'
      BY <1>1, <1>4, JoinerStep
    <2> QED
      BY <1>2, <1>4, <2>1
  <1>5. CASE JoinerCount(j)
    <2>1. Takes(j, "count") /\ UNCHANGED <<state, hub, knows, shown, slow>>
          /\ count' = [count EXCEPT ![j] = Head(toJ[j]).n]
      BY <1>5 DEF JoinerCount
    <2>2. Head(toJ[j]) \in Frame /\ Head(toJ[j]).type = "count"
      BY <2>1, TakesEffect
    <2>3. Head(toJ[j]).n \in Nat \ {0}
      BY <2>2, FrameFields
    <2>4. count' \in [Everyone -> Nat \ {0}]
      BY <1>1, <2>1, <2>3
    <2> QED
      BY <1>4, <2>1, <2>4, SameRoom
  <1>6. CASE JoinerLeft(j)
    <2>1. Takes(j, "left") /\ UNCHANGED <<state, hub, knows, shown, slow>>
          /\ count' \in [Everyone -> Nat \ {0}]
      BY <1>1, <1>6 DEF JoinerLeft
    <2> QED
      BY <1>4, <2>1, SameRoom
  <1>7. CASE JoinerClose(j)
    <2>1. Takes(j, "close") /\ UNCHANGED <<hub, count, knows, shown, slow>>
          /\ state' = [state EXCEPT ![j] = "ended"]
      BY <1>7 DEF JoinerClose, EndJoiner
    <2> QED
      BY <1>1, <1>4, <2>1, SameRoom
  <1>8. CASE JoinerHubLeaves(j)
    <2>1. Takes(j, "leave") /\ UNCHANGED <<state, knows, shown, slow>>
          /\ hub' = [hub EXCEPT ![j] = FALSE] /\ count' \in [Everyone -> Nat \ {0}]
      BY <1>1, <1>8 DEF JoinerHubLeaves
    <2> QED
      BY <1>4, <2>1, SameRoom
  <1> QED
    BY <1>3, <1>5, <1>6, <1>7, <1>8

\* The initiator's process is gone.
LEMMA JoinerOnCloseStep ==
  ASSUME IInv, NEW j \in Joiners, JoinerOnClose(j)
  PROVE  IInv'
  <1> USE DEF IInv
  <1>1. /\ j \in Everyone /\ Initiator \in Everyone /\ j # Initiator /\ Joiners \subseteq Everyone
        /\ count \in [Everyone -> Nat \ {0}] /\ hub \in [Joiners -> BOOLEAN]
        /\ state \in [Everyone -> {"out", "in", "idle", "ended", "gone"}] /\ toJ \in [Joiners -> Seq(Frame)]
    BY Typing DEF TypeOK, Everyone
  <1>2. /\ state[j] \in {"in", "idle"} /\ state[Initiator] = "gone"
        /\ hub' = [hub EXCEPT ![j] = FALSE]
        /\ count' = [count EXCEPT ![j] = AtLeastOne(count[j] - 1)]
        /\ state' = [state EXCEPT ![j] = "ended"]
        /\ toJ' = [toJ EXCEPT ![j] = <<>>]
        /\ UNCHANGED <<pend, first, peers, toI, missed, wired, closed, closing>>
        /\ UNCHANGED <<busy, roster, knows, shown, sent, named, slow>>
    BY DEF JoinerOnClose, EndJoiner, textVars, Active
  <1>3. AtLeastOne(count[j] - 1) \in Nat \ {0}
    <2>1. count[j] - 1 \in Int
      BY <1>1
    <2> QED
      BY <2>1, AtLeast
  <1>4. /\ state' \in [Everyone -> {"out", "in", "idle", "ended", "gone"}] /\ hub' \in [Joiners -> BOOLEAN]
        /\ count' \in [Everyone -> Nat \ {0}] /\ toJ' \in [Joiners -> Seq(Frame)]
        /\ state'[Initiator] = "gone" /\ state'[j] = "ended" /\ toJ'[j] = <<>>
        /\ \A k \in Joiners : k # j => toJ'[k] = toJ[k] /\ state'[k] = state[k]
    BY <1>1, <1>2, <1>3, EmptySeq
  <1>5. TypeOK'
    BY <1>2, <1>4 DEF TypeOK, Frame
  <1>6. Texts'
    <2>1. \A k \in Joiners : Quieter(toI[k], toI'[k]) /\ Quieter(toJ[k], toJ'[k])
      BY <1>2, <1>4, QuietSame, QuietEmpty
    <2> QED
      BY <1>2, <2>1, QuietTexts
  <1>7. Leaving'
    BY <1>2, <1>4 DEF Leaving, Members, LastLeave, HubThere
  <1>8. Naming'
    BY <1>2, <1>4 DEF Naming, Present
  <1>9. Closing'
    <2>1. closing \subseteq Joiners
      BY DEF TypeOK
    <2> QED
      BY <1>2, <1>4, <2>1 DEF Closing
  <1> QED
    BY <1>5, <1>6, <1>7, <1>8, <1>9

-----------------------------------------------------------------------------
(* The initiator takes and sends frames.                                   *)

\* The frame is taken from the channel of j, who has not been taken out.
LEMMA ReceivesEffect ==
  ASSUME TypeOK, Leaving, NEW j \in Joiners, NEW t, Receives(j, t), toI' = [toI EXCEPT ![j] = Tail(@)]
  PROVE  /\ toI' \in [Joiners -> Seq(Frame)] /\ toI[j] # <<>> /\ j \in peers /\ j \in wired /\ ~ busy[j]
         /\ toI'[j] = Tail(toI[j]) /\ \A k \in Joiners : k # j => toI'[k] = toI[k]
         /\ Head(toI[j]) \in Frame /\ Head(toI[j]).type = t /\ Head(toI[j]) = toI[j][1]
         /\ \A k \in Joiners : Quieter(toI[k], toI'[k])
         /\ Live(Initiator)
  <1>1. toI[j] # <<>> /\ Head(toI[j]).type = t /\ j \in wired /\ ~ busy[j] /\ Live(Initiator)
    BY DEF Receives
  <1>2. /\ Tail(toI[j]) \in Seq(Frame) /\ Head(toI[j]) \in Frame /\ Head(toI[j]) = toI[j][1]
        /\ toI \in [Joiners -> Seq(Frame)]
    BY <1>1, Typing, Dropped
  <1>3. Quieter(toI[j], Tail(toI[j]))
    BY <1>1, Typing, QuietTail
  <1>4. /\ toI' \in [Joiners -> Seq(Frame)]
        /\ toI'[j] = Tail(toI[j]) /\ \A k \in Joiners : k # j => toI'[k] = toI[k]
    BY <1>1, <1>2
  <1>5. \A k \in Joiners : Quieter(toI[k], toI'[k])
    BY <1>3, <1>4, QuietSame
  <1>6. j \in peers
    BY <1>1 DEF Leaving, Members
  <1> QED
    BY <1>1, <1>2, <1>4, <1>5, <1>6

\* A leave is still the last frame after one has been taken, and is the only one left
\* when it is at the head.
LEMMA LastLeaveTaken ==
  ASSUME TypeOK, Leaving, NEW j \in Joiners, toI[j] # <<>>,
         toI'[j] = Tail(toI[j]), \A k \in Joiners : k # j => toI'[k] = toI[k],
         \A k \in Joiners : state'[k] = state[k]
  PROVE  /\ LastLeave'
         /\ toI[j][1].type = "leave" => toI'[j] = <<>> /\ state[j] \in {"idle", "ended", "gone"}
  <1>1. /\ Len(toI'[j]) = Len(toI[j]) - 1 /\ Len(toI[j]) \in Nat \ {0} /\ toI'[j] \in Seq(Frame)
        /\ \A i \in 1 .. Len(toI'[j]) : toI'[j][i] = toI[j][i + 1] /\ i + 1 \in 1 .. Len(toI[j])
    BY Typing, Dropped
  <1>2. \A i \in 1 .. Len(toI[j]) : toI[j][i].type = "leave" => i = Len(toI[j]) /\ state[j] \in {"idle", "ended", "gone"}
    BY DEF Leaving, LastLeave
  <1>3. ASSUME NEW i \in 1 .. Len(toI'[j]), toI'[j][i].type = "leave"
        PROVE  i = Len(toI'[j]) /\ state'[j] \in {"idle", "ended", "gone"}
    <2>1. i + 1 = Len(toI[j]) /\ state[j] \in {"idle", "ended", "gone"}
      BY <1>1, <1>2, <1>3
    <2> QED
      BY <1>1, <2>1
  <1>4. ASSUME NEW k \in Joiners, k # j, NEW i \in 1 .. Len(toI'[k]), toI'[k][i].type = "leave"
        PROVE  i = Len(toI'[k]) /\ state'[k] \in {"idle", "ended", "gone"}
    BY <1>4 DEF Leaving, LastLeave
  <1>5. LastLeave'
    BY <1>3, <1>4 DEF LastLeave
  <1>6. ASSUME toI[j][1].type = "leave"
        PROVE  toI'[j] = <<>> /\ state[j] \in {"idle", "ended", "gone"}
    <2>1. 1 \in 1 .. Len(toI[j])
      BY <1>1
    <2>2. 1 = Len(toI[j]) /\ state[j] \in {"idle", "ended", "gone"}
      BY <1>2, <1>6, <2>1
    <2>3. Len(toI'[j]) = 0
      BY <1>1, <2>2
    <2> QED
      BY <1>1, <2>2, <2>3, EmptySeq
  <1> QED
    BY <1>5, <1>6

\* What stays when the initiator sends something, a leave only with the end of his session.
LEMMA HubSends ==
  ASSUME TypeOK, Leaving, Closing, NEW js \in SUBSET Joiners, NEW frames \in Seq(Frame), SendTo(js, frames),
         UNCHANGED hub, \A k \in Joiners : state'[k] = state[k],
         state'[Initiator] \in {"out", "in"} =>
           /\ state[Initiator] \in {"out", "in"}
           /\ \A i \in 1 .. Len(frames) : frames[i].type # "leave"
  PROVE  /\ HubThere' /\ \A k \in Joiners : Coming(k) => Coming(k)'
         /\ \A k \in closing : k \notin missed' =>
              state'[k] # "out" /\ (state'[k] = "in" => In([type |-> "close"], toJ'[k]))
         /\ closing' = closing => Closing'
  <1>1. /\ missed \subseteq missed'
        /\ \A k \in Joiners : \/ toJ'[k] = toJ[k]
                              \/ toJ'[k] = toJ[k] \o frames /\ k \in js /\ state[k] \in {"in", "idle"}
    BY SendToEffect
  <1>2. ASSUME NEW k \in Joiners, state'[k] = "out"
        PROVE  toJ'[k] = <<>>
    BY <1>1, <1>2 DEF Leaving, HubThere
  <1>3. ASSUME NEW k \in Joiners, state'[k] = "in", state'[Initiator] \in {"out", "in"}
        PROVE  hub'[k] /\ \A i \in 1 .. Len(toJ'[k]) : toJ'[k][i].type # "leave"
    <2>1. hub[k] /\ \A i \in 1 .. Len(toJ[k]) : toJ[k][i].type # "leave"
      BY <1>3 DEF Leaving, HubThere
    <2>2. CASE toJ'[k] = toJ[k]
      BY <2>1, <2>2
    <2>3. CASE toJ'[k] = toJ[k] \o frames
      <3>1. toJ[k] \in Seq(Frame)
        BY Typing
      <3>2. /\ Len(toJ'[k]) = Len(toJ[k]) + Len(frames) /\ Len(toJ[k]) \in Nat /\ Len(frames) \in Nat
            /\ \A i \in 1 .. Len(toJ[k]) : toJ'[k][i] = toJ[k][i]
            /\ \A i \in 1 .. Len(toJ[k]) + Len(frames) : i > Len(toJ[k]) =>
                 toJ'[k][i] = frames[i - Len(toJ[k])] /\ i - Len(toJ[k]) \in 1 .. Len(frames)
        BY <2>3, <3>1, Joined
      <3>3. ASSUME NEW i \in 1 .. Len(toJ'[k])
            PROVE  toJ'[k][i].type # "leave"
        <4>1. CASE i \in 1 .. Len(toJ[k])
          BY <2>1, <3>2, <4>1
        <4>2. CASE i > Len(toJ[k])
          BY <1>3, <3>2, <4>2
        <4> QED
          BY <3>2, <4>1, <4>2
      <3> QED
        BY <2>1, <3>3
    <2> QED
      BY <1>1, <2>2, <2>3
  <1>4. ASSUME NEW k \in closing, k \notin missed'
        PROVE  state'[k] # "out" /\ (state'[k] = "in" => In([type |-> "close"], toJ'[k]))
    <2>1. k \in Joiners /\ k \notin missed
      BY <1>1, <1>4 DEF TypeOK
    <2>2. state[k] # "out" /\ (state[k] = "in" => In([type |-> "close"], toJ[k]))
      BY <2>1 DEF Closing
    <2>3. In([type |-> "close"], toJ[k]) => In([type |-> "close"], toJ'[k])
      BY <2>1, StillIn
    <2> QED
      BY <2>1, <2>2, <2>3
  <1>5. ASSUME NEW k \in Joiners, Coming(k)
        PROVE  Coming(k)'
    <2>1. CASE In(NameOf(Initiator), toJ[k])
      <3>1. In(NameOf(Initiator), toJ'[k])
        BY <2>1, StillIn
      <3> QED
        BY <3>1 DEF Coming, NameOf
    <2>2. CASE ~ In(NameOf(Initiator), toJ[k])
      <3>1. PICK i \in 1 .. Len(toJ[k]) : toJ[k][i].type = "roster" /\ Initiator \in toJ[k][i].names
        BY <1>5, <2>2 DEF Coming
      <3>2. In(toJ[k][i], toJ[k])
        BY DEF In
      <3>3. In(toJ[k][i], toJ'[k])
        BY <3>2, StillIn
      <3>4. PICK n \in 1 .. Len(toJ'[k]) : toJ'[k][n] = toJ[k][i]
        BY <3>3 DEF In
      <3> QED
        BY <3>1, <3>4 DEF Coming
    <2> QED
      BY <2>1, <2>2
  <1>6. HubThere'
    BY <1>2, <1>3 DEF HubThere
  <1>7. closing' = closing => Closing'
    BY <1>4 DEF Closing
  <1> QED
    BY <1>4, <1>5, <1>6, <1>7

\* The same when nothing is sent to the joiners.
LEMMA HubSilent ==
  ASSUME TypeOK, Leaving, Closing, UNCHANGED <<toJ, missed, hub, closing>>,
         \A k \in Joiners : state'[k] = state[k],
         state'[Initiator] \in {"out", "in"} => state[Initiator] \in {"out", "in"}
  PROVE  /\ HubThere' /\ Closing' /\ \A k \in Joiners : Coming(k) => Coming(k)'
  <1>1. HubThere'
    BY DEF Leaving, HubThere
  <1>2. closing \subseteq Joiners
    BY DEF TypeOK
  <1>3. Closing'
    BY <1>2 DEF Closing
  <1> QED
    BY <1>1, <1>3 DEF Coming

\* A step that enters, drops and announces no name.
LEMMA NameKept ==
  ASSUME TypeOK, Naming, UNCHANGED <<roster, peers, closed, named, wired, busy>>, missed \subseteq missed', slow \subseteq slow',
         state'[Initiator] = "in" => state[Initiator] = "in",
         \A k \in Joiners : state'[k] = "in" => state[k] = "in",
         \A x \in Everyone : knows[x] \subseteq knows'[x],
         \A k \in Joiners : In(NameOf(k), toI[k]) => In(NameOf(k), toI'[k]),
         \A k \in Joiners : Coming(k) => Coming(k)'
  PROVE  Naming'
  <1>1. Joiners \subseteq Everyone /\ Initiator \in Everyone
    BY DEF Everyone
  <1>2. ASSUME NEW k \in Joiners, k \in named', Present(k)'
        PROVE  /\ k \in roster' \/ busy'[k] \/ In(NameOf(k), toI'[k])
               /\ k \in knows'[Initiator] \/ Initiator \in slow' \/ In(NameOf(k), toI'[k])
               /\ Initiator \in named' =>
                    Initiator \in knows'[k] \/ k \in slow' \/ busy'[k] \/ In(NameOf(k), toI'[k]) \/ Coming(k)'
    <2>1. k \in named /\ Present(k)
      BY <1>2 DEF Present
    <2>2. /\ k \in roster \/ busy[k] \/ In(NameOf(k), toI[k])
          /\ k \in knows[Initiator] \/ Initiator \in slow \/ In(NameOf(k), toI[k])
          /\ Initiator \in named =>
               Initiator \in knows[k] \/ k \in slow \/ busy[k] \/ In(NameOf(k), toI[k]) \/ Coming(k)
      BY <2>1 DEF Naming
    <2>3. knows[Initiator] \subseteq knows'[Initiator] /\ knows[k] \subseteq knows'[k]
      BY <1>1
    <2> QED
      BY <2>2, <2>3
  <1>3. /\ roster' \subseteq peers' \cup {Initiator} \cup closed'
        /\ Initiator \in named' => Initiator \in roster'
        /\ \A k \in Joiners : k \in named' /\ k \notin wired' => k \in missed'
    BY DEF Naming
  <1> QED
    BY <1>2, <1>3 DEF Naming, NameOf

\* The initiator shows a text and relays it.
LEMMA HubTextStep ==
  ASSUME IInv, NEW j \in Joiners, HubText(j)
  PROVE  IInv'
  <1> USE DEF IInv
  <1> DEFINE b == Head(toI[j]).body
             r == [type |-> "relay", from |-> j, body |-> b]
  <1>1. /\ Receives(j, "msg") /\ Show(Initiator, b) /\ toI' = [toI EXCEPT ![j] = Tail(@)]
        /\ SendTo(Others(j), <<r>>)
        /\ UNCHANGED <<pend, first, wired, closed, busy, roster, knows, sent, named, closing>>
        /\ UNCHANGED <<state, peers, hub, count>>
    BY DEF HubText, TakeAndSend, roomVars
  <1>2. /\ toI' \in [Joiners -> Seq(Frame)] /\ toI[j] # <<>> /\ j \in peers
        /\ toI'[j] = Tail(toI[j]) /\ \A k \in Joiners : k # j => toI'[k] = toI[k]
        /\ Head(toI[j]) \in Frame /\ Head(toI[j]).type = "msg" /\ Head(toI[j]) = toI[j][1]
        /\ \A k \in Joiners : Quieter(toI[k], toI'[k])
    BY <1>1, ReceivesEffect
  <1>3. IsText(Head(toI[j])) /\ b \in Everyone \X Nat
    BY <1>2, FrameFields DEF IsText
  <1>4. /\ r \in Frame /\ IsText(r) /\ r.body = b /\ r.type = "relay"
    BY <1>3, RelayMade
  <1>5. /\ <<r>> \in Seq(Frame) /\ \A i \in 1 .. Len(<<r>>) : <<r>>[i] = r
    BY <1>4, One
  <1>6. Others(j) \in SUBSET Joiners /\ j \notin Others(j)
    BY DEF Others, TypeOK
  <1>7. b \in Bodies(toI[j]) /\ Precedes({b}, Bodies(toI'[j]))
    <2>1. toI[j] \in Seq(Frame) /\ Ordered(toI[j])
      BY Typing DEF Texts
    <2> QED
      BY <1>2, <1>3, <2>1, TextTaken
  <1>8. b[1] = j /\ b[2] <= sent[j]
    BY <1>7 DEF Texts
  <1> HIDE DEF b, r
  <1>9. /\ toJ' \in [Joiners -> Seq(Frame)] /\ missed' \subseteq Joiners /\ missed \subseteq missed'
        /\ \A k \in Joiners : toJ'[k] = toJ[k] \/ (toJ'[k] = toJ[k] \o <<r>> /\ k # j)
    <2>1. /\ toJ' \in [Joiners -> Seq(Frame)] /\ missed' \subseteq Joiners /\ missed \subseteq missed'
          /\ \A k \in Joiners : \/ toJ'[k] = toJ[k]
                                \/ toJ'[k] = toJ[k] \o <<r>> /\ k \in Others(j) /\ state[k] \in {"in", "idle"}
      BY <1>1, <1>5, <1>6, SendToEffect
    <2> QED
      BY <1>6, <2>1
  <1>10. /\ shown \in [Everyone -> Seq(Everyone \X Nat)] /\ Initiator \in Everyone
         /\ Joiners \subseteq Everyone /\ Initiator \notin Joiners
    BY InitiatorAssumption DEF TypeOK, Everyone
  <1>11. /\ shown' \in [Everyone -> Seq(Everyone \X Nat)]
         /\ shown'[Initiator] \in {shown[Initiator], Append(shown[Initiator], b)}
         /\ \A x \in Everyone : x # Initiator => shown'[x] = shown[x]
         /\ slow' \in SUBSET Everyone /\ slow \subseteq slow'
    <2>1. Append(shown[Initiator], b) \in Seq(Everyone \X Nat)
      BY <1>3, <1>10, AppendProperties
    <2>2. \/ shown' = shown
          \/ shown' = [shown EXCEPT ![Initiator] = Append(shown[Initiator], b)]
      BY <1>1, <1>10, ShowEffect
    <2>3. slow' \in SUBSET Everyone /\ slow \subseteq slow'
      BY <1>1, <1>10, ShowEffect
    <2> QED
      BY <1>10, <2>1, <2>2, <2>3
  <1>12. TypeOK'
    BY <1>1, <1>2, <1>9, <1>11 DEF TypeOK, Frame
  <1>13. HubThere' /\ Closing' /\ \A k \in Joiners : Coming(k) => Coming(k)'
    <2>1. \A i \in 1 .. Len(<<r>>) : <<r>>[i].type # "leave"
      BY <1>4, <1>5
    <2> QED
      BY <1>1, <1>5, <1>6, <2>1, HubSends
  <1>14. Leaving'
    <2>1. LastLeave'
      BY <1>1, <1>2, LastLeaveTaken
    <2>2. Members'
      BY <1>1, <1>2 DEF Leaving, Members
    <2> QED
      BY <1>13, <2>1, <2>2 DEF Leaving
  <1>15. Naming'
    <2>1. ASSUME NEW k \in Joiners, In(NameOf(k), toI[k])
          PROVE  In(NameOf(k), toI'[k])
      <3>1. CASE k = j
        <4>1. Head(toI[j]) # NameOf(j)
          BY <1>2 DEF NameOf
        <4>2. toI[j] \in Seq(Frame) /\ toI[j] # <<>> /\ In(NameOf(j), toI[j])
          BY <1>2, <2>1, <3>1, Typing
        <4>3. In(NameOf(j), Tail(toI[j]))
          BY <4>1, <4>2, InTail
        <4> QED
          BY <1>2, <3>1, <4>3
      <3>2. CASE k # j
        BY <1>2, <2>1, <3>2
      <3> QED
        BY <3>1, <3>2
    <2> QED
      BY <1>1, <1>9, <1>11, <1>13, <2>1, NameKept
  <1>16. Texts'
    <2>1. ASSUME NEW A, NEW B, NEW C, NEW D, Precedes(A, B), C \subseteq A, D \subseteq B
          PROVE  Precedes(C, D)
      BY <2>1 DEF Precedes
    <2>2. ASSUME NEW A, NEW B, Precedes(A, B), Precedes({b}, B)
          PROVE  Precedes(A \cup {b}, B)
      BY <2>2 DEF Precedes
    <2>3. ASSUME NEW A, NEW B, Precedes(A, B), Precedes(A, {b})
          PROVE  Precedes(A, B \cup {b})
      BY <2>3 DEF Precedes
    <2>4. ASSUME NEW y \in Joiners
          PROVE  /\ Ordered(toI'[y]) /\ \A a \in Bodies(toI'[y]) : a[1] = y /\ a[2] <= sent'[y]
                 /\ Bodies(toI'[y]) \subseteq Bodies(toI[y])
      BY <1>1, <1>2 DEF Texts, Quieter
    <2>5. ASSUME NEW y \in Joiners
          PROVE  Precedes({b}, Bodies(toI'[y]))
      <3>1. CASE y = j
        BY <1>7, <3>1
      <3>2. CASE y # j
        BY <1>8, <2>4, <3>2 DEF Precedes
      <3> QED
        BY <3>1, <3>2
    <2>6. /\ \A x \in Joiners : Precedes(Bodies(toJ[x]), {b})
          /\ \A x \in Everyone : Precedes(Elems(shown[x]), {b})
      BY <1>7, <2>1 DEF Texts
    <2>7. ASSUME NEW x \in Joiners
          PROVE  /\ Ordered(toJ'[x])
                 /\ \/ Bodies(toJ'[x]) = Bodies(toJ[x])
                    \/ Bodies(toJ'[x]) = Bodies(toJ[x]) \cup {b} /\ x # j
      <3>1. toJ[x] \in Seq(Frame) /\ Ordered(toJ[x])
        BY Typing DEF Texts
      <3>2. Bodies(toJ[x] \o <<r>>) = Bodies(toJ[x]) \cup {b} /\ Ordered(toJ[x] \o <<r>>)
        BY <1>4, <2>6, <3>1, TextJoined
      <3> QED
        BY <1>9, <3>1, <3>2
    <2>8. ASSUME NEW x \in Joiners
          PROVE  /\ \A a \in Bodies(toJ'[x]) : a[1] # x /\ a[2] <= sent'[a[1]]
                 /\ \A y \in Joiners : Precedes(Bodies(toJ'[x]), Bodies(toI'[y]))
                 /\ Precedes(Elems(shown'[x]), Bodies(toJ'[x]))
      <3>1. \A a \in Bodies(toJ[x]) : a[1] # x /\ a[2] <= sent[a[1]]
        BY DEF Texts
      <3>2. \A a \in Bodies(toJ'[x]) : a[1] # x /\ a[2] <= sent'[a[1]]
        BY <1>1, <1>8, <2>7, <3>1
      <3>3. ASSUME NEW y \in Joiners
            PROVE  Precedes(Bodies(toJ'[x]), Bodies(toI'[y]))
        <4>1. Precedes(Bodies(toJ[x]), Bodies(toI'[y]))
          BY <2>1, <2>4 DEF Texts
        <4>2. Precedes(Bodies(toJ[x]) \cup {b}, Bodies(toI'[y]))
          BY <2>2, <2>5, <4>1
        <4> QED
          BY <2>7, <4>1, <4>2
      <3>4. Precedes(Elems(shown'[x]), Bodies(toJ'[x]))
        <4>1. shown'[x] = shown[x] /\ Precedes(Elems(shown[x]), Bodies(toJ[x])) /\ x \in Everyone
          BY <1>10, <1>11 DEF Texts
        <4>2. Precedes(Elems(shown[x]), Bodies(toJ[x]) \cup {b})
          BY <2>3, <2>6, <4>1
        <4> QED
          BY <2>7, <4>1, <4>2
      <3> QED
        BY <3>2, <3>3, <3>4
    <2>9. ASSUME NEW x \in Everyone
          PROVE  /\ InOrder(shown'[x])
                 /\ \A a \in Elems(shown'[x]) : a[1] # x /\ a[2] <= sent'[a[1]]
                 /\ \A y \in Joiners : Precedes(Elems(shown'[x]), Bodies(toI'[y]))
      <3>1. /\ InOrder(shown[x]) /\ \A a \in Elems(shown[x]) : a[1] # x /\ a[2] <= sent[a[1]]
            /\ \A y \in Joiners : Precedes(Elems(shown[x]), Bodies(toI'[y]))
        BY <2>1, <2>4 DEF Texts
      <3>2. CASE shown'[x] = shown[x]
        BY <1>1, <3>1, <3>2
      <3>3. CASE x = Initiator /\ shown'[x] = Append(shown[x], b)
        <4>1. shown[x] \in Seq(Everyone \X Nat)
          BY <1>10
        <4>2. Elems(shown'[x]) = Elems(shown[x]) \cup {b} /\ InOrder(shown'[x])
          BY <1>3, <2>6, <3>1, <3>3, <4>1, TextShown
        <4>3. \A y \in Joiners : Precedes(Elems(shown[x]) \cup {b}, Bodies(toI'[y]))
          BY <2>2, <2>5, <3>1
        <4> QED
          BY <1>1, <1>8, <1>10, <3>1, <3>3, <4>2, <4>3
      <3> QED
        BY <1>11, <3>2, <3>3
    <2> QED
      BY <2>4, <2>7, <2>8, <2>9 DEF Texts
  <1> QED
    BY <1>12, <1>14, <1>13, <1>15, <1>16

\* The initiator learns a name and passes it on.
LEMMA HubNameStep ==
  ASSUME IInv, NEW j \in Joiners, HubName(j)
  PROVE  IInv'
  <1> USE DEF IInv
  <1>1. /\ Receives(j, "name") /\ Learn(Initiator, {j}) /\ toI' = [toI EXCEPT ![j] = Tail(@)]
        /\ SendTo(Others(j), <<NameOf(j)>>) /\ busy' = [busy EXCEPT ![j] = TRUE]
        /\ UNCHANGED <<pend, first, wired, closed, roster, shown, sent, named, closing>>
        /\ UNCHANGED <<state, peers, hub, count>>
    BY DEF HubName, TakeAndSend, roomVars, NameOf
  <1>2. /\ toI' \in [Joiners -> Seq(Frame)] /\ toI[j] # <<>> /\ j \in peers
        /\ toI'[j] = Tail(toI[j]) /\ \A k \in Joiners : k # j => toI'[k] = toI[k]
        /\ \A k \in Joiners : Quieter(toI[k], toI'[k])
    BY <1>1, ReceivesEffect
  <1>3. /\ j \in Everyone /\ Initiator \in Everyone /\ Joiners \subseteq Everyone /\ j # Initiator
        /\ knows \in [Everyone -> SUBSET Everyone] /\ busy \in [Joiners -> BOOLEAN]
    BY Typing DEF TypeOK, Everyone
  <1>4. /\ <<NameOf(j)>> \in Seq(Frame)
        /\ \A i \in 1 .. Len(<<NameOf(j)>>) : ~ IsText(<<NameOf(j)>>[i]) /\ <<NameOf(j)>>[i].type # "leave"
    <2>1. NameOf(j) \in Frame /\ ~ IsText(NameOf(j)) /\ NameOf(j).type = "name"
      BY <1>3, FrameMade
    <2> QED
      BY <2>1, One
  <1>5. Others(j) \in SUBSET Joiners
    BY DEF Others, TypeOK
  <1>6. toJ' \in [Joiners -> Seq(Frame)] /\ missed' \subseteq Joiners /\ missed \subseteq missed'
    BY <1>1, <1>4, <1>5, SendToEffect
  <1>7. /\ knows' \in [Everyone -> SUBSET Everyone] /\ \A x \in Everyone : knows[x] \subseteq knows'[x]
        /\ slow' \in SUBSET Everyone /\ slow \subseteq slow'
        /\ state[Initiator] = "in" => j \in knows'[Initiator] \/ Initiator \in slow'
        /\ busy' \in [Joiners -> BOOLEAN] /\ busy'[j] /\ \A k \in Joiners : k # j => busy'[k] = busy[k]
    <2>1. {j} \in SUBSET Everyone
      BY <1>3
    <2>2. /\ knows' \in [Everyone -> SUBSET Everyone] /\ \A x \in Everyone : knows[x] \subseteq knows'[x]
          /\ slow' \in SUBSET Everyone /\ slow \subseteq slow'
          /\ state[Initiator] \in {"in", "idle"} => {j} \subseteq knows'[Initiator] \/ Initiator \in slow'
      BY <1>1, <1>3, <2>1, LearnEffect
    <2> QED
      BY <1>1, <1>3, <2>2
  <1>8. TypeOK'
    BY <1>1, <1>2, <1>6, <1>7 DEF TypeOK, Frame
  <1>9. HubThere' /\ Closing' /\ \A k \in Joiners : Coming(k) => Coming(k)'
    BY <1>1, <1>4, <1>5, HubSends
  <1>10. Leaving'
    <2>1. LastLeave'
      BY <1>1, <1>2, LastLeaveTaken
    <2>2. Members'
      BY <1>1, <1>2, <1>7 DEF Leaving, Members
    <2> QED
      BY <1>9, <2>1, <2>2 DEF Leaving
  <1>11. Naming'
    <2>1. ASSUME NEW k \in Joiners, k \in named', Present(k)'
          PROVE  /\ k \in roster' \/ busy'[k] \/ In(NameOf(k), toI'[k])
                 /\ k \in knows'[Initiator] \/ Initiator \in slow' \/ In(NameOf(k), toI'[k])
                 /\ Initiator \in named' =>
                      Initiator \in knows'[k] \/ k \in slow' \/ busy'[k] \/ In(NameOf(k), toI'[k]) \/ Coming(k)'
      <3>1. k \in named /\ Present(k) /\ state[Initiator] = "in"
        BY <1>1, <1>6, <2>1 DEF Present
      <3>2. CASE k = j
        BY <1>7, <3>1, <3>2
      <3>3. CASE k # j
        <4>1. /\ k \in roster \/ busy[k] \/ In(NameOf(k), toI[k])
              /\ k \in knows[Initiator] \/ Initiator \in slow \/ In(NameOf(k), toI[k])
              /\ Initiator \in named =>
                   Initiator \in knows[k] \/ k \in slow \/ busy[k] \/ In(NameOf(k), toI[k]) \/ Coming(k)
          BY <3>1 DEF Naming
        <4>2. toI'[k] = toI[k] /\ busy'[k] = busy[k] /\ knows[k] \subseteq knows'[k]
              /\ knows[Initiator] \subseteq knows'[Initiator]
          BY <1>2, <1>3, <1>7, <3>3
        <4> QED
          BY <1>1, <1>7, <1>9, <4>1, <4>2
      <3> QED
        BY <3>2, <3>3
    <2>2. /\ roster' \subseteq peers' \cup {Initiator} \cup closed'
          /\ Initiator \in named' => Initiator \in roster'
          /\ \A k \in Joiners : k \in named' /\ k \notin wired' => k \in missed'
      BY <1>1, <1>6 DEF Naming
    <2> QED
      BY <2>1, <2>2 DEF Naming, NameOf
  <1>12. Texts'
    <2>1. \A k \in Joiners : Quieter(toJ[k], toJ'[k])
      BY <1>1, <1>4, <1>5, QuietSendTo
    <2> QED
      BY <1>1, <1>2, <2>1, QuietTexts
  <1> QED
    BY <1>8, <1>9, <1>10, <1>11, <1>12

\* The initiator enters the name and replies with the others.
LEMMA HubRosterStep ==
  ASSUME IInv, NEW j \in Joiners, HubRoster(j)
  PROVE  IInv'
  <1> USE DEF IInv
  <1> DEFINE f == [type |-> "roster", names |-> roster \ {j}]
  <1>1. /\ busy[j] /\ busy' = [busy EXCEPT ![j] = FALSE] /\ roster' = roster \cup {j}
        /\ UNCHANGED <<pend, first, wired, closed, knows, shown, sent, named, slow, closing>>
        /\ UNCHANGED <<state, peers, hub, count, toI>>
        /\ \/ roster \ {j} = {} /\ UNCHANGED <<toJ, missed>>
           \/ SendTo({j}, <<f>>)
    BY DEF HubRoster, SendAll, roomVars, linkVars
  <1>2. /\ j \in Everyone /\ Initiator \in Everyone /\ Joiners \subseteq Everyone /\ j # Initiator
        /\ roster \subseteq Everyone /\ busy \in [Joiners -> BOOLEAN]
        /\ toJ \in [Joiners -> Seq(Frame)] /\ missed \subseteq Joiners
    BY Typing DEF TypeOK, Everyone
  <1>3. /\ f \in Frame /\ ~ IsText(f) /\ f.type = "roster" /\ f.names = roster \ {j}
    <2>1. roster \ {j} \in SUBSET Everyone
      BY <1>2
    <2> QED
      BY <2>1, RosterMade
  <1> HIDE DEF f
  <1>4. /\ <<f>> \in Seq(Frame) /\ Len(<<f>>) = 1 /\ <<f>>[1] = f
        /\ \A i \in 1 .. Len(<<f>>) : ~ IsText(<<f>>[i]) /\ <<f>>[i].type # "leave"
    BY <1>3, One
  <1>5. {j} \in SUBSET Joiners
    OBVIOUS
  <1>6. /\ toJ' \in [Joiners -> Seq(Frame)] /\ missed' \subseteq Joiners /\ missed \subseteq missed'
        /\ roster \ {j} = {} \/ (state[j] = "in" => toJ'[j] = toJ[j] \o <<f>>)
        /\ \A k \in Joiners : Quieter(toJ[k], toJ'[k])
    <2>1. CASE roster \ {j} = {} /\ UNCHANGED <<toJ, missed>>
      BY <1>2, <2>1, QuietSame
    <2>2. CASE SendTo({j}, <<f>>)
      <3>1. \A k \in Joiners : Quieter(toJ[k], toJ'[k])
        BY <1>4, <1>5, <2>2, QuietSendTo
      <3> QED
        BY <1>4, <1>5, <2>2, <3>1, SendToEffect
    <2> QED
      BY <1>1, <2>1, <2>2
  <1>7. HubThere' /\ Closing' /\ \A k \in Joiners : Coming(k) => Coming(k)'
    <2>1. CASE UNCHANGED <<toJ, missed>>
      BY <1>1, <2>1, HubSilent
    <2>2. CASE SendTo({j}, <<f>>)
      BY <1>1, <1>4, <1>5, <2>2, HubSends
    <2> QED
      BY <1>1, <2>1, <2>2
  <1>8. /\ busy' \in [Joiners -> BOOLEAN] /\ ~ busy'[j] /\ \A k \in Joiners : k # j => busy'[k] = busy[k]
    BY <1>1, <1>2
  <1>9. TypeOK'
    BY <1>1, <1>2, <1>6, <1>8 DEF TypeOK, Frame
  <1>10. j \in peers /\ j \in wired
    BY <1>1 DEF Leaving, Members
  <1>11. Leaving'
    <2>1. LastLeave'
      BY <1>1 DEF Leaving, LastLeave
    <2>2. Members'
      BY <1>1, <1>8, <1>10 DEF Leaving, Members
    <2> QED
      BY <1>7, <2>1, <2>2 DEF Leaving
  <1>12. Naming'
    <2>1. ASSUME state[j] = "in", Initiator \in named
          PROVE  Coming(j)'
      <3>1. Initiator \in roster \ {j}
        BY <1>2, <2>1 DEF Naming
      <3>2. toJ'[j] = toJ[j] \o <<f>>
        BY <1>6, <2>1, <3>1
      <3>3. In(f, toJ'[j])
        <4>1. toJ[j] \in Seq(Frame) /\ In(f, <<f>>)
          BY <1>2, <1>3, InOne
        <4> QED
          BY <1>4, <3>2, <4>1, InJoined
      <3>4. PICK n \in 1 .. Len(toJ'[j]) : toJ'[j][n] = f
        BY <3>3 DEF In
      <3> QED
        BY <1>3, <3>1, <3>4 DEF Coming
    <2>2. ASSUME NEW k \in Joiners, k \in named', Present(k)'
          PROVE  /\ k \in roster' \/ busy'[k] \/ In(NameOf(k), toI'[k])
                 /\ k \in knows'[Initiator] \/ Initiator \in slow' \/ In(NameOf(k), toI'[k])
                 /\ Initiator \in named' =>
                      Initiator \in knows'[k] \/ k \in slow' \/ busy'[k] \/ In(NameOf(k), toI'[k]) \/ Coming(k)'
      <3>1. k \in named /\ Present(k) /\ state[k] = "in"
        BY <1>1, <1>6, <2>2 DEF Present
      <3>2. /\ k \in roster \/ busy[k] \/ In(NameOf(k), toI[k])
            /\ k \in knows[Initiator] \/ Initiator \in slow \/ In(NameOf(k), toI[k])
            /\ Initiator \in named =>
                 Initiator \in knows[k] \/ k \in slow \/ busy[k] \/ In(NameOf(k), toI[k]) \/ Coming(k)
        BY <3>1 DEF Naming
      <3>3. CASE k = j
        BY <1>1, <2>1, <3>1, <3>2, <3>3
      <3>4. CASE k # j
        BY <1>1, <1>7, <1>8, <3>2, <3>4
      <3> QED
        BY <3>3, <3>4
    <2>3. /\ roster' \subseteq peers' \cup {Initiator} \cup closed'
          /\ Initiator \in named' => Initiator \in roster'
          /\ \A k \in Joiners : k \in named' /\ k \notin wired' => k \in missed'
      BY <1>1, <1>6, <1>10 DEF Naming
    <2> QED
      BY <2>2, <2>3 DEF Naming, NameOf
  <1>13. Texts'
    <2>1. \A k \in Joiners : Quieter(toI[k], toI'[k])
      BY <1>1, QuietSame
    <2> QED
      BY <1>1, <1>6, <2>1, QuietTexts
  <1> QED
    BY <1>7, <1>9, <1>11, <1>12, <1>13

\* Names are kept for those who stay.
LEMMA NameDropped ==
  ASSUME TypeOK, Naming, NEW j \in Joiners, j \notin peers', peers' \subseteq peers,
         \A k \in Joiners : k # j /\ k \in roster => k \in roster',
         Initiator \in roster => Initiator \in roster',
         roster' \subseteq peers' \cup {Initiator} \cup closed',
         UNCHANGED <<named, slow, wired, busy, knows>>, missed \subseteq missed',
         state'[Initiator] = "in" => state[Initiator] = "in",
         \A k \in Joiners : state'[k] = state[k],
         \A k \in Joiners : k # j => toI'[k] = toI[k],
         \A k \in Joiners : Coming(k) => Coming(k)'
  PROVE  Naming'
  <1>1. ASSUME NEW k \in Joiners, k \in named', Present(k)'
        PROVE  /\ k \in roster' \/ busy'[k] \/ In(NameOf(k), toI'[k])
               /\ k \in knows'[Initiator] \/ Initiator \in slow' \/ In(NameOf(k), toI'[k])
               /\ Initiator \in named' =>
                    Initiator \in knows'[k] \/ k \in slow' \/ busy'[k] \/ In(NameOf(k), toI'[k]) \/ Coming(k)'
    <2>1. k \in named /\ Present(k) /\ k # j
      BY <1>1 DEF Present
    <2>2. /\ k \in roster \/ busy[k] \/ In(NameOf(k), toI[k])
          /\ k \in knows[Initiator] \/ Initiator \in slow \/ In(NameOf(k), toI[k])
          /\ Initiator \in named =>
               Initiator \in knows[k] \/ k \in slow \/ busy[k] \/ In(NameOf(k), toI[k]) \/ Coming(k)
      BY <2>1 DEF Naming
    <2> QED
      BY <2>1, <2>2
  <1>2. /\ Initiator \in named' => Initiator \in roster'
        /\ \A k \in Joiners : k \in named' /\ k \notin wired' => k \in missed'
    BY DEF Naming
  <1> QED
    BY <1>1, <1>2 DEF Naming, NameOf

\* A leave arrives.
LEMMA HubLeaveStep ==
  ASSUME IInv, NEW j \in Joiners, HubLeave(j)
  PROVE  IInv'
  <1> USE DEF IInv
  <1>1. PICK n : n = AtLeastOne(count[Initiator] - 1)
    OBVIOUS
  <1>2. /\ Receives(j, "leave") /\ peers' = peers \ {j} /\ count' = [count EXCEPT ![Initiator] = n]
        /\ toI' = [toI EXCEPT ![j] = Tail(@)] /\ SendTo(Others(j), LeaveFrames(n))
        /\ roster' = roster \ {j}
        /\ UNCHANGED <<pend, first, state, hub, wired, closed, busy, knows, shown, sent, named, slow, closing>>
    BY <1>1 DEF HubLeave, TakeAndSend, Forget
  <1>3. /\ toI' \in [Joiners -> Seq(Frame)] /\ toI[j] # <<>> /\ j \in peers /\ ~ busy[j]
        /\ toI'[j] = Tail(toI[j]) /\ \A k \in Joiners : k # j => toI'[k] = toI[k]
        /\ Head(toI[j]).type = "leave" /\ Head(toI[j]) = toI[j][1]
        /\ \A k \in Joiners : Quieter(toI[k], toI'[k])
    BY <1>2, ReceivesEffect
  <1>4. /\ Initiator \in Everyone /\ count \in [Everyone -> Nat \ {0}] /\ j # Initiator
        /\ n \in Nat \ {0}
    <2>1. Initiator \in Everyone /\ count \in [Everyone -> Nat \ {0}]
      BY Typing DEF TypeOK
    <2>2. count[Initiator] - 1 \in Int
      BY <2>1
    <2> QED
      BY <1>1, <2>1, <2>2, AtLeast, Typing
  <1>5. /\ LeaveFrames(n) \in Seq(Frame)
        /\ \A i \in 1 .. Len(LeaveFrames(n)) : ~ IsText(LeaveFrames(n)[i]) /\ LeaveFrames(n)[i].type # "leave"
    BY <1>4, LeaveFramesMade
  <1>6. Others(j) \in SUBSET Joiners
    BY DEF Others, TypeOK
  <1>7. toJ' \in [Joiners -> Seq(Frame)] /\ missed' \subseteq Joiners /\ missed \subseteq missed'
    BY <1>2, <1>5, <1>6, SendToEffect
  <1>8. count' \in [Everyone -> Nat \ {0}]
    BY <1>2, <1>4
  <1>9. TypeOK'
    BY <1>2, <1>3, <1>7, <1>8 DEF TypeOK, Frame
  <1>10. HubThere' /\ Closing' /\ \A k \in Joiners : Coming(k) => Coming(k)'
    BY <1>2, <1>5, <1>6, HubSends
  <1>11. LastLeave' /\ toI'[j] = <<>> /\ state[j] \in {"idle", "ended", "gone"}
    BY <1>2, <1>3, LastLeaveTaken
  <1>12. Members'
    BY <1>2, <1>3, <1>11 DEF Leaving, Members
  <1>13. Naming'
    <2>1. roster' \subseteq peers' \cup {Initiator} \cup closed'
      BY <1>2 DEF Naming
    <2> QED
      BY <1>2, <1>3, <1>4, <1>7, <1>10, <2>1, NameDropped
  <1>14. Texts'
    <2>1. \A k \in Joiners : Quieter(toJ[k], toJ'[k])
      BY <1>2, <1>5, <1>6, QuietSendTo
    <2> QED
      BY <1>2, <1>3, <2>1, QuietTexts
  <1> QED
    BY <1>9, <1>10, <1>11, <1>12, <1>13, <1>14 DEF Leaving

\* A channel is closed under the initiator.
LEMMA HubOnCloseStep ==
  ASSUME IInv, NEW j \in Joiners, HubOnClose(j)
  PROVE  IInv'
  <1> USE DEF IInv
  <1>1. /\ Live(Initiator) /\ j \in wired /\ ~ busy[j] /\ state[j] = "gone" /\ j \in peers
        /\ toI' = [toI EXCEPT ![j] = <<>>] /\ peers' = peers \ {j}
        /\ count' = [count EXCEPT ![Initiator] = AtLeastOne(count[Initiator] - 1)]
        /\ closed' = closed \cup {j}
        /\ UNCHANGED <<pend, first, state, hub, toJ, missed, wired, closing>>
        /\ UNCHANGED <<busy, roster, knows, shown, sent, named, slow>>
    BY DEF HubOnClose, textVars
  <1>2. /\ toI \in [Joiners -> Seq(Frame)] /\ Initiator \in Everyone /\ count \in [Everyone -> Nat \ {0}]
        /\ j # Initiator
    BY Typing DEF TypeOK
  <1>3. AtLeastOne(count[Initiator] - 1) \in Nat \ {0}
    <2>1. count[Initiator] - 1 \in Int
      BY <1>2
    <2> QED
      BY <2>1, AtLeast
  <1>4. /\ toI' \in [Joiners -> Seq(Frame)] /\ toI'[j] = <<>> /\ \A k \in Joiners : k # j => toI'[k] = toI[k]
        /\ count' \in [Everyone -> Nat \ {0}]
    BY <1>1, <1>2, <1>3, EmptySeq
  <1>5. TypeOK'
    BY <1>1, <1>4 DEF TypeOK, Frame
  <1>6. HubThere' /\ Closing' /\ \A k \in Joiners : Coming(k) => Coming(k)'
    BY <1>1, HubSilent
  <1>7. LastLeave'
    <2>1. ASSUME NEW k \in Joiners, NEW i \in 1 .. Len(toI'[k]), toI'[k][i].type = "leave"
          PROVE  i = Len(toI'[k]) /\ state'[k] \in {"idle", "ended", "gone"}
      <3>1. CASE k = j
        <4>1. Len(toI'[k]) = 0
          BY <1>4, <3>1, EmptySeq
        <4> QED
          BY <2>1, <4>1
      <3>2. CASE k # j
        BY <1>1, <1>4, <2>1, <3>2 DEF Leaving, LastLeave
      <3> QED
        BY <3>1, <3>2
    <2> QED
      BY <2>1 DEF LastLeave
  <1>8. Members'
    BY <1>1, <1>4 DEF Leaving, Members
  <1>9. Naming'
    <2>1. roster' \subseteq peers' \cup {Initiator} \cup closed'
      BY <1>1 DEF Naming
    <2> QED
      BY <1>1, <1>4, <1>6, <2>1, NameDropped
  <1>10. Texts'
    <2>1. \A k \in Joiners : Quieter(toI[k], toI'[k]) /\ Quieter(toJ[k], toJ'[k])
      BY <1>1, <1>4, QuietSame, QuietEmpty
    <2> QED
      BY <1>1, <2>1, QuietTexts
  <1> QED
    BY <1>5, <1>6, <1>7, <1>8, <1>9, <1>10 DEF Leaving

\* The rest of OnClose.
LEMMA HubClosedStep ==
  ASSUME IInv, NEW j \in Joiners, HubClosed(j)
  PROVE  IInv'
  <1> USE DEF IInv
  <1> DEFINE fs == LeaveFrames(count[Initiator])
  <1>1. /\ Live(Initiator) /\ j \in closed /\ closed' = closed \ {j} /\ roster' = roster \ {j}
        /\ UNCHANGED <<pend, first, peers, hub, count, wired, busy, knows, shown, sent, named, slow, closing, toI>>
        /\ \/ state' = [state EXCEPT ![Initiator] = "ended"] /\ UNCHANGED <<toJ, missed>>
           \/ SendTo(peers, fs) /\ UNCHANGED state
    BY DEF HubClosed, Forget, SendAll, linkVars
  <1>2. /\ Initiator \in Everyone /\ Joiners \subseteq Everyone /\ Initiator \notin Joiners
        /\ state \in [Everyone -> {"out", "in", "idle", "ended", "gone"}] /\ peers \in SUBSET Joiners
        /\ count[Initiator] \in Nat \ {0} /\ toJ \in [Joiners -> Seq(Frame)] /\ missed \subseteq Joiners
        /\ toI \in [Joiners -> Seq(Frame)]
    BY InitiatorAssumption DEF TypeOK, Everyone
  <1>3. /\ fs \in Seq(Frame)
        /\ \A i \in 1 .. Len(fs) : ~ IsText(fs[i]) /\ fs[i].type # "leave"
    BY <1>2, LeaveFramesMade
  <1> HIDE DEF fs
  <1>4. /\ state' \in [Everyone -> {"out", "in", "idle", "ended", "gone"}]
        /\ \A k \in Joiners : state'[k] = state[k]
        /\ state'[Initiator] \in {"ended", state[Initiator]} /\ state[Initiator] # "out"
    BY <1>1, <1>2 DEF Live
  <1>5. /\ toJ' \in [Joiners -> Seq(Frame)] /\ missed' \subseteq Joiners /\ missed \subseteq missed'
        /\ \A k \in Joiners : Quieter(toJ[k], toJ'[k])
    <2>1. CASE UNCHANGED <<toJ, missed>>
      BY <1>2, <2>1, QuietSame
    <2>2. CASE SendTo(peers, fs)
      <3>1. \A k \in Joiners : Quieter(toJ[k], toJ'[k])
        BY <1>2, <1>3, <2>2, QuietSendTo
      <3> QED
        BY <1>2, <1>3, <2>2, <3>1, SendToEffect
    <2> QED
      BY <1>1, <2>1, <2>2
  <1>6. HubThere' /\ Closing' /\ \A k \in Joiners : Coming(k) => Coming(k)'
    <2>1. CASE UNCHANGED <<toJ, missed>>
      BY <1>1, <1>4, <2>1, HubSilent
    <2>2. CASE SendTo(peers, fs)
      BY <1>1, <1>2, <1>3, <1>4, <2>2, HubSends
    <2> QED
      BY <1>1, <2>1, <2>2
  <1>7. TypeOK'
    BY <1>1, <1>4, <1>5 DEF TypeOK, Frame
  <1>8. LastLeave'
    BY <1>1, <1>4 DEF Leaving, LastLeave
  <1>9. Members' /\ j \notin peers
    BY <1>1, <1>4 DEF Leaving, Members
  <1>10. Naming'
    <2>1. roster' \subseteq peers' \cup {Initiator} \cup closed'
      BY <1>1 DEF Naming
    <2>2. state'[Initiator] = "in" => state[Initiator] = "in"
      BY <1>4
    <2> QED
      BY <1>1, <1>2, <1>4, <1>5, <1>6, <1>9, <2>1, <2>2, NameDropped
  <1>11. Texts'
    <2>1. \A k \in Joiners : Quieter(toI[k], toI'[k])
      BY <1>1, QuietSame
    <2> QED
      BY <1>1, <1>5, <2>1, QuietTexts
  <1> QED
    BY <1>6, <1>7, <1>8, <1>9, <1>10, <1>11 DEF Leaving

-----------------------------------------------------------------------------
(* Joining, speaking and leaving.                                          *)

\* A step that touches nothing but pend, first and count.
LEMMA SameStep ==
  ASSUME IInv, TypeOK', UNCHANGED <<state, peers, hub, toI, toJ, missed, wired, closed, closing>>,
         UNCHANGED <<busy, roster, knows, shown, sent, named, slow>>
  PROVE  IInv'
  <1> USE DEF IInv
  <1>1. Texts'
    BY QuietTexts, QuietSame
  <1>2. Leaving'
    BY DEF Leaving, Members, LastLeave, HubThere
  <1>3. Naming' /\ Closing'
    BY DEF Naming, Present, Coming, Closing
  <1> QED
    BY <1>1, <1>2, <1>3

\* The broker's count is that of a finite set and more than one.
LEMMA SlotJoinStep ==
  ASSUME IInv, NEW j \in Joiners, SlotJoin(j)
  PROVE  IInv'
  <1> USE DEF IInv
  <1> DEFINE joined == {k \in Joiners : pend[k] > 0}
             left == {k \in joined : state[k] \in {"idle", "ended", "gone"}}
  <1>1. PICK known \in 0 .. Cardinality(left) : pend' = [pend EXCEPT ![j] = Cardinality(joined) - known + 2]
    BY DEF SlotJoin
  <1>2. IsFiniteSet(joined) /\ left \subseteq joined
    BY JoinersAssumption, FS_Subset
  <1>3. Cardinality(joined) \in Nat /\ Cardinality(left) \in Nat /\ Cardinality(left) <= Cardinality(joined)
    BY <1>2, FS_Subset, FS_CardinalityType
  <1> HIDE DEF joined, left
  <1>4. Cardinality(joined) - known + 2 \in Nat
    BY <1>3
  <1>5. pend' \in [Joiners -> Nat] /\ first' \in Joiners \cup {None}
    BY <1>1, <1>4 DEF TypeOK, SlotJoin
  <1>6. /\ UNCHANGED <<state, peers, hub, toI, toJ, missed, wired, closed, closing>>
        /\ UNCHANGED <<count, busy, roster, knows, shown, sent, named, slow>>
    BY DEF SlotJoin, roomVars, linkVars, textVars
  <1>7. TypeOK'
    BY <1>5, <1>6 DEF TypeOK, Frame
  <1> QED
    BY <1>6, <1>7, SameStep

\* A joiner comes in: nothing has been sent to him.
LEMMA NewJoinerStep ==
  ASSUME IInv, NEW j \in Joiners, NewJoiner(j)
  PROVE  IInv'
  <1> USE DEF IInv
  <1>1. /\ state[j] = "out" /\ pend[j] > 0
        /\ state' = [state EXCEPT ![j] = "in"] /\ hub' = [hub EXCEPT ![j] = TRUE]
        /\ count' = [count EXCEPT ![j] = pend[j]]
        /\ UNCHANGED <<pend, first, peers, toI, toJ, missed, wired, closed, closing>>
        /\ UNCHANGED <<busy, roster, knows, shown, sent, named, slow>>
    BY DEF NewJoiner, linkVars, textVars
  <1>2. /\ j \in Everyone /\ Initiator \in Everyone /\ j # Initiator /\ Joiners \subseteq Everyone
        /\ count \in [Everyone -> Nat \ {0}] /\ hub \in [Joiners -> BOOLEAN] /\ pend \in [Joiners -> Nat]
        /\ state \in [Everyone -> {"out", "in", "idle", "ended", "gone"}]
    BY Typing DEF TypeOK, Everyone
  <1>3. /\ state' \in [Everyone -> {"out", "in", "idle", "ended", "gone"}] /\ hub' \in [Joiners -> BOOLEAN]
        /\ count' \in [Everyone -> Nat \ {0}]
        /\ state'[Initiator] = state[Initiator] /\ state'[j] = "in" /\ hub'[j]
        /\ \A k \in Joiners : k # j => state'[k] = state[k] /\ hub'[k] = hub[k]
    BY <1>1, <1>2
  <1>4. /\ toJ[j] = <<>> /\ j \notin named /\ (j \in wired => j \in peers)
    BY <1>1 DEF Leaving, HubThere, Members
  <1>5. TypeOK'
    BY <1>1, <1>3 DEF TypeOK, Frame
  <1>6. Texts'
    BY <1>1, QuietTexts, QuietSame
  <1>7. Members'
    BY <1>1, <1>3, <1>4 DEF Leaving, Members
  <1>8. LastLeave'
    <2>1. \A i \in 1 .. Len(toI[j]) : toI[j][i].type # "leave"
      BY <1>1 DEF Leaving, LastLeave
    <2> QED
      BY <1>1, <1>3, <2>1 DEF Leaving, LastLeave
  <1>9. HubThere'
    <2>1. Len(toJ'[j]) = 0
      BY <1>1, <1>4, EmptySeq
    <2>2. \A i \in 1 .. Len(toJ'[j]) : toJ'[j][i].type # "leave"
      BY <2>1
    <2> QED
      BY <1>1, <1>3, <2>2 DEF Leaving, HubThere
  <1>10. Naming'
    <2>1. ASSUME NEW k \in Joiners, k \in named', Present(k)'
          PROVE  k \in named /\ Present(k)
      BY <1>1, <1>3, <1>4, <2>1 DEF Present
    <2>2. \A k \in Joiners : Coming(k) => Coming(k)'
      BY <1>1 DEF Coming
    <2> QED
      BY <1>1, <2>1, <2>2 DEF Naming
  <1>11. Closing'
    <2>1. closing \subseteq Joiners
      BY DEF TypeOK
    <2> QED
      BY <1>1, <1>3, <2>1 DEF Closing
  <1> QED
    BY <1>5, <1>6, <1>7, <1>8, <1>9, <1>10, <1>11 DEF Leaving

\* The initiator wires a channel.
LEMMA AddPeerStep ==
  ASSUME IInv, NEW j \in Joiners, AddPeer(j)
  PROVE  IInv'
  <1> USE DEF IInv
  <1> DEFINE f == [type |-> "count", n |-> pend[j]]
  <1>1. /\ pend[j] > 0 /\ j \notin wired /\ state[Initiator] # "gone"
        /\ peers' = peers \cup {j} /\ wired' = wired \cup {j}
        /\ count' = [count EXCEPT ![Initiator] = pend[j]]
        /\ \/ /\ wired = {} /\ UNCHANGED <<toI, toJ, missed>>
              /\ state' = [state EXCEPT ![Initiator] = "in"]
           \/ wired # {} /\ state' = state /\ SendTo(peers', <<f>>) /\ toI' = toI
        /\ UNCHANGED <<pend, first, hub, closed, closing>>
        /\ UNCHANGED <<busy, roster, knows, shown, sent, named, slow>>
    BY DEF AddPeer, SendAll, linkVars, textVars
  <1>2. /\ j \in Everyone /\ Initiator \in Everyone /\ Initiator \notin Joiners /\ Joiners \subseteq Everyone
        /\ count \in [Everyone -> Nat \ {0}] /\ pend[j] \in Nat \ {0} /\ peers' \in SUBSET Joiners
        /\ state \in [Everyone -> {"out", "in", "idle", "ended", "gone"}]
        /\ toJ \in [Joiners -> Seq(Frame)] /\ missed \subseteq Joiners
    <2>1. /\ j \in Everyone /\ Initiator \in Everyone /\ Initiator \notin Joiners /\ Joiners \subseteq Everyone
          /\ count \in [Everyone -> Nat \ {0}] /\ pend[j] \in Nat /\ peers \subseteq Joiners
          /\ state \in [Everyone -> {"out", "in", "idle", "ended", "gone"}]
          /\ toJ \in [Joiners -> Seq(Frame)] /\ missed \subseteq Joiners
      BY InitiatorAssumption DEF TypeOK, Everyone
    <2>2. pend[j] > 0 /\ peers' = peers \cup {j}
      BY <1>1
    <2> QED
      BY <2>1, <2>2
  <1>3. /\ f \in Frame /\ ~ IsText(f) /\ f.type = "count"
    BY <1>2, CountMade
  <1> HIDE DEF f
  <1>4. /\ <<f>> \in Seq(Frame)
        /\ \A i \in 1 .. Len(<<f>>) : ~ IsText(<<f>>[i]) /\ <<f>>[i].type # "leave"
    BY <1>3, One
  <1>5. /\ state' \in [Everyone -> {"out", "in", "idle", "ended", "gone"}]
        /\ \A k \in Joiners : state'[k] = state[k]
        /\ wired = {} => state[Initiator] = "out" /\ state'[Initiator] = "in"
        /\ wired # {} => state[Initiator] # "out" /\ state'[Initiator] = state[Initiator]
        /\ count' \in [Everyone -> Nat \ {0}]
    BY <1>1, <1>2 DEF Leaving, Members
  <1>6. /\ toJ' \in [Joiners -> Seq(Frame)] /\ missed' \subseteq Joiners /\ missed \subseteq missed'
        /\ \A k \in Joiners : Quieter(toJ[k], toJ'[k])
    <2>1. CASE UNCHANGED <<toJ, missed>>
      BY <1>2, <2>1, QuietSame
    <2>2. CASE SendTo(peers', <<f>>)
      <3>1. \A k \in Joiners : Quieter(toJ[k], toJ'[k])
        BY <1>2, <1>4, <2>2, QuietSendTo
      <3> QED
        BY <1>2, <1>4, <2>2, <3>1, SendToEffect
    <2> QED
      BY <1>1, <2>1, <2>2
  <1>7. HubThere' /\ Closing' /\ \A k \in Joiners : Coming(k) => Coming(k)'
    <2>1. state'[Initiator] \in {"out", "in"} => state[Initiator] \in {"out", "in"}
      BY <1>5
    <2>2. CASE UNCHANGED <<toJ, missed>>
      BY <1>1, <1>5, <2>1, <2>2, HubSilent
    <2>3. CASE SendTo(peers', <<f>>)
      BY <1>1, <1>2, <1>4, <1>5, <2>1, <2>3, HubSends
    <2> QED
      BY <1>1, <2>2, <2>3
  <1>8. TypeOK'
    <2>1. /\ wired' \subseteq Joiners /\ UNCHANGED <<toI, pend, first, hub, closed, closing>>
          /\ UNCHANGED <<busy, roster, knows, shown, sent, named, slow>>
      BY <1>1 DEF TypeOK
    <2>2. /\ state' \in [Everyone -> {"out", "in", "idle", "ended", "gone"}] /\ count' \in [Everyone -> Nat \ {0}]
          /\ peers' \subseteq Joiners
      BY <1>2, <1>5
    <2>3. toJ' \in [Joiners -> Seq(Frame)] /\ missed' \subseteq Joiners
      BY <1>6
    <2> QED
      BY <2>1, <2>2, <2>3 DEF TypeOK, Frame
  <1>9. Texts'
    <2>1. \A k \in Joiners : Quieter(toI[k], toI'[k])
      BY <1>1, QuietSame
    <2> QED
      BY <1>1, <1>6, <2>1, QuietTexts
  <1>10. Members'
    BY <1>1, <1>5 DEF Leaving, Members
  <1>11. LastLeave'
    BY <1>1, <1>5 DEF Leaving, LastLeave
  <1>12. Naming'
    <2>1. ASSUME NEW k \in Joiners, k \in named', Present(k)'
          PROVE  k \in named /\ Present(k)
      <3>1. k # j
        BY <1>1, <1>6, <2>1 DEF Present, Naming
      <3>2. k \in peers /\ wired # {}
        BY <1>1, <2>1, <3>1 DEF Present, Leaving, Members
      <3> QED
        BY <1>1, <1>5, <1>6, <2>1, <3>2 DEF Present
    <2>2. /\ roster' \subseteq peers' \cup {Initiator} \cup closed'
          /\ Initiator \in named' => Initiator \in roster'
          /\ \A k \in Joiners : k \in named' /\ k \notin wired' => k \in missed'
      BY <1>1, <1>6 DEF Naming
    <2>3. UNCHANGED <<toI, busy, roster, knows, named, slow>>
      BY <1>1
    <2>4. ASSUME NEW k \in Joiners, k \in named', Present(k)'
          PROVE  /\ k \in roster' \/ busy'[k] \/ In(NameOf(k), toI'[k])
                 /\ k \in knows'[Initiator] \/ Initiator \in slow' \/ In(NameOf(k), toI'[k])
                 /\ Initiator \in named' =>
                      Initiator \in knows'[k] \/ k \in slow' \/ busy'[k] \/ In(NameOf(k), toI'[k]) \/ Coming(k)'
      BY <1>7, <2>1, <2>3, <2>4 DEF Naming
    <2> QED
      BY <2>2, <2>4 DEF Naming, NameOf
  <1> QED
    BY <1>7, <1>8, <1>9, <1>10, <1>11, <1>12 DEF Leaving

\* A text is an author and a number.
LEMMA BodyTyped ==
  ASSUME NEW s \in Seq(Frame), NEW a \in Bodies(s)
  PROVE  a \in Everyone \X Nat
  <1>1. PICK i \in 1 .. Len(s) : IsText(s[i]) /\ a = s[i].body
    BY DEF Bodies
  <1>2. s[i] \in Frame
    BY ElementOfSeq
  <1> QED
    BY <1>1, <1>2, FrameFields

LEMMA ElemTyped ==
  ASSUME NEW m \in Seq(Everyone \X Nat), NEW a \in Elems(m)
  PROVE  a \in Everyone \X Nat
  <1>1. PICK i \in 1 .. Len(m) : a = m[i]
    BY DEF Elems
  <1> QED
    BY <1>1, ElementOfSeq

\* What is shown or under way was sent before what is sent now.
LEMMA SentLater ==
  ASSUME TypeOK, Texts, NEW x \in Everyone
  PROVE  /\ \A k \in Joiners : /\ Precedes(Bodies(toI[k]), {<<x, sent[x] + 1>>})
                               /\ Precedes(Bodies(toJ[k]), {<<x, sent[x] + 1>>})
         /\ \A z \in Everyone : Precedes(Elems(shown[z]), {<<x, sent[x] + 1>>})
  <1>1. sent \in [Everyone -> Nat] /\ Joiners \subseteq Everyone /\ shown \in [Everyone -> Seq(Everyone \X Nat)]
    BY DEF TypeOK, Everyone
  <1>2. ASSUME NEW A, \A a \in A : a \in Everyone \X Nat /\ a[2] <= sent[a[1]]
        PROVE  Precedes(A, {<<x, sent[x] + 1>>})
    <2> SUFFICES ASSUME NEW a \in A, a[1] = x
                 PROVE  a[2] < sent[x] + 1
      BY DEF Precedes
    <2>1. a[2] \in Nat /\ a[2] <= sent[x] /\ sent[x] \in Nat
      BY <1>1, <1>2
    <2> QED
      BY <2>1
  <1>3. ASSUME NEW k \in Joiners
        PROVE  Precedes(Bodies(toI[k]), {<<x, sent[x] + 1>>})
    <2>1. \A a \in Bodies(toI[k]) : a \in Everyone \X Nat
      BY BodyTyped, Typing
    <2>2. \A a \in Bodies(toI[k]) : a[2] <= sent[a[1]]
      BY DEF Texts
    <2> QED
      BY <1>2, <2>1, <2>2
  <1>4. ASSUME NEW k \in Joiners
        PROVE  Precedes(Bodies(toJ[k]), {<<x, sent[x] + 1>>})
    <2>1. \A a \in Bodies(toJ[k]) : a \in Everyone \X Nat
      BY BodyTyped, Typing
    <2>2. \A a \in Bodies(toJ[k]) : a[2] <= sent[a[1]]
      BY DEF Texts
    <2> QED
      BY <1>2, <2>1, <2>2
  <1>5. ASSUME NEW z \in Everyone
        PROVE  Precedes(Elems(shown[z]), {<<x, sent[x] + 1>>})
    <2>1. \A a \in Elems(shown[z]) : a \in Everyone \X Nat
      BY <1>1, ElemTyped
    <2>2. \A a \in Elems(shown[z]) : a[2] <= sent[a[1]]
      BY DEF Texts
    <2> QED
      BY <1>2, <2>1, <2>2
  <1> QED
    BY <1>3, <1>4, <1>5

\* A joiner in the session sends a frame: it is on its way if he has not been taken out.
LEMMA JoinerSends ==
  ASSUME TypeOK, Leaving, NEW j \in Joiners, NEW f \in Frame, NEW inbox \in {toJ[j], <<>>}, SendHub(j, f, inbox),
         state[j] = "in"
  PROVE  /\ j \notin peers => toI'[j] = <<>>
         /\ \A i \in 1 .. Len(toI'[j]) : toI'[j][i].type = "leave" => i = Len(toI'[j]) /\ f.type = "leave"
         /\ j \in wired /\ state[Initiator] = "in" => toI'[j] = toI[j] \o <<f>>
         /\ In(NameOf(j), toI[j]) => In(NameOf(j), toI'[j])
  <1>1. /\ j \notin wired => j \in missed'
        /\ \/ toI'[j] = toI[j] /\ ~ (hub[j] /\ Live(Initiator) /\ j \in wired)
           \/ toI'[j] = toI[j] \o <<f>> /\ j \in wired
    BY SendHubEffect
  <1>2. toI[j] \in Seq(Frame) /\ <<f>> \in Seq(Frame) /\ Len(<<f>>) = 1 /\ <<f>>[1] = f
    BY Typing, One
  <1>3. j \in wired => j \in peers
    BY DEF Leaving, Members
  <1>4. j \notin peers => toI[j] = <<>>
    BY DEF Leaving, Members
  <1>5. \A i \in 1 .. Len(toI[j]) : toI[j][i].type # "leave"
    BY DEF Leaving, LastLeave
  <1>6. state[Initiator] = "in" => hub[j] /\ Live(Initiator)
    BY DEF Leaving, HubThere, Live
  <1>7. CASE toI'[j] = toI[j] \o <<f>>
    <2>1. /\ Len(toI'[j]) = Len(toI[j]) + 1 /\ Len(toI[j]) \in Nat /\ toI'[j][Len(toI[j]) + 1] = f
          /\ \A i \in 1 .. Len(toI[j]) : toI'[j][i] = toI[j][i]
      BY <1>2, <1>7, Joined
    <2>2. ASSUME NEW i \in 1 .. Len(toI'[j]), toI'[j][i].type = "leave"
          PROVE  i = Len(toI'[j]) /\ f.type = "leave"
      <3>1. i = Len(toI[j]) + 1 \/ i \in 1 .. Len(toI[j])
        BY <2>1
      <3> QED
        BY <1>5, <2>1, <2>2, <3>1
    <2>3. In(NameOf(j), toI[j]) => In(NameOf(j), toI'[j])
      BY <1>2, <1>7, InJoined
    <2>4. j \notin peers => toI'[j] = <<>>
      BY <1>1, <1>3, <1>4
    <2> QED
      BY <1>7, <2>2, <2>3, <2>4
  <1>8. CASE toI'[j] = toI[j] /\ ~ (hub[j] /\ Live(Initiator) /\ j \in wired)
    BY <1>4, <1>5, <1>6, <1>8
  <1> QED
    BY <1>1, <1>7, <1>8

\* Texts are numbered, so that the one that is sent is new.
LEMMA SendTextStep ==
  ASSUME IInv, NEW x \in Everyone, SendText(x)
  PROVE  IInv'
  <1> USE DEF IInv
  <1> DEFINE b == <<x, sent[x] + 1>>
             m == [type |-> "msg", body |-> b]
  <1>1. /\ sent \in [Everyone -> Nat] /\ sent[x] + 1 \in Nat /\ Initiator \in Everyone
        /\ Joiners \subseteq Everyone /\ Initiator \notin Joiners /\ peers \in SUBSET Joiners
        /\ toI \in [Joiners -> Seq(Frame)] /\ toJ \in [Joiners -> Seq(Frame)]
        /\ x # Initiator => x \in Joiners
    <2>1. /\ Initiator \in Everyone /\ Joiners \subseteq Everyone /\ Initiator \notin Joiners
          /\ x # Initiator => x \in Joiners
      BY InitiatorAssumption DEF Everyone
    <2>2. sent \in [Everyone -> Nat]
      BY DEF TypeOK
    <2>3. peers \in SUBSET Joiners /\ toI \in [Joiners -> Seq(Frame)] /\ toJ \in [Joiners -> Seq(Frame)]
      BY DEF TypeOK
    <2> QED
      BY <2>1, <2>2, <2>3
  <1>2. /\ state[x] = "in" /\ sent' = [sent EXCEPT ![x] = sent[x] + 1]
        /\ UNCHANGED <<pend, first, state, peers, hub, count, wired, closed, busy, roster, knows, shown, named, slow, closing>>
    BY DEF SendText, roomVars
  <1>3. /\ sent' \in [Everyone -> Nat] /\ sent'[x] = sent[x] + 1
        /\ \A z \in Everyone : sent[z] <= sent'[z]
    BY <1>1, <1>2
  <1>4. /\ x = Initiator => SendTo(peers, <<m>>) /\ toI' = toI
        /\ x # Initiator => SendHub(x, m, toJ[x])
    BY <1>3 DEF SendText, SendAll
  <1>5. m \in Frame /\ IsText(m) /\ m.body = b /\ m.type = "msg"
    BY <1>1, FrameMade
  <1>6. /\ \A k \in Joiners : Precedes(Bodies(toI[k]), {b}) /\ Precedes(Bodies(toJ[k]), {b})
        /\ \A z \in Everyone : Precedes(Elems(shown[z]), {b})
    BY SentLater
  <1>7. b[1] = x /\ b[2] = sent'[x]
    BY <1>3
  <1> HIDE DEF b, m
  <1>8. /\ <<m>> \in Seq(Frame) /\ \A i \in 1 .. Len(<<m>>) : <<m>>[i] = m
    BY <1>5, One
  <1>9. /\ toJ' \in [Joiners -> Seq(Frame)] /\ toI' \in [Joiners -> Seq(Frame)]
        /\ missed' \subseteq Joiners /\ missed \subseteq missed'
        /\ \A k \in Joiners : toJ'[k] = toJ[k] \/ (toJ'[k] = toJ[k] \o <<m>> /\ x = Initiator)
        /\ \A k \in Joiners : toI'[k] = toI[k] \/ (toI'[k] = toI[k] \o <<m>> /\ x = k)
    <2>1. CASE x = Initiator
      <3>1. /\ toJ' \in [Joiners -> Seq(Frame)] /\ missed' \subseteq Joiners /\ missed \subseteq missed'
            /\ \A k \in Joiners : \/ toJ'[k] = toJ[k]
                                  \/ toJ'[k] = toJ[k] \o <<m>> /\ k \in peers /\ state[k] \in {"in", "idle"}
        BY <1>1, <1>4, <1>8, <2>1, SendToEffect
      <3> QED
        BY <1>1, <1>4, <2>1, <3>1
    <2>2. CASE x # Initiator
      <3>1. x \in Joiners /\ toJ[x] \in {toJ[x], <<>>} /\ SendHub(x, m, toJ[x])
        BY <1>1, <1>4, <2>2
      <3>2. /\ toJ' \in [Joiners -> Seq(Frame)] /\ toI' \in [Joiners -> Seq(Frame)]
            /\ missed' \subseteq Joiners /\ missed \subseteq missed'
            /\ toJ'[x] = toJ[x] /\ \A k \in Joiners : k # x => toJ'[k] = toJ[k] /\ toI'[k] = toI[k]
            /\ \/ toI'[x] = toI[x]
               \/ toI'[x] = toI[x] \o <<m>>
        BY <1>5, <3>1, SendHubEffect
      <3> QED
        BY <3>1, <3>2
    <2> QED
      BY <2>1, <2>2
  <1>10. TypeOK'
    BY <1>2, <1>3, <1>9 DEF TypeOK, Frame
  <1>11. HubThere' /\ Closing' /\ \A k \in Joiners : Coming(k) => Coming(k)'
    <2>1. CASE x = Initiator
      <3>1. \A i \in 1 .. Len(<<m>>) : <<m>>[i].type # "leave"
        BY <1>5, <1>8
      <3> QED
        BY <1>1, <1>2, <1>4, <1>8, <2>1, <3>1, HubSends
    <2>2. CASE x # Initiator
      <3>1. \A k \in Joiners : toJ'[k] = toJ[k]
        BY <1>9, <2>2
      <3>2. closing \subseteq Joiners
        BY DEF TypeOK
      <3>3. HubThere'
        BY <1>2, <3>1 DEF Leaving, HubThere
      <3>4. Closing'
        BY <1>2, <1>9, <3>1, <3>2 DEF Closing
      <3> QED
        BY <3>1, <3>3, <3>4 DEF Coming
    <2> QED
      BY <2>1, <2>2
  <1>12. ASSUME NEW k \in Joiners
         PROVE  /\ k \notin peers => toI'[k] = <<>>
                /\ \A i \in 1 .. Len(toI'[k]) :
                     toI'[k][i].type = "leave" => i = Len(toI'[k]) /\ state[k] \in {"idle", "ended", "gone"}
                /\ In(NameOf(k), toI[k]) => In(NameOf(k), toI'[k])
    <2>1. CASE x = k
      <3>1. SendHub(k, m, toJ[k]) /\ state[k] = "in" /\ toJ[k] \in {toJ[k], <<>>}
        BY <1>1, <1>2, <1>4, <2>1
      <3> QED
        BY <1>5, <3>1, JoinerSends
    <2>2. CASE x # k
      BY <1>9, <2>2 DEF Leaving, Members, LastLeave
    <2> QED
      BY <2>1, <2>2
  <1>13. Leaving'
    <2>1. LastLeave'
      BY <1>2, <1>12 DEF LastLeave
    <2>2. Members'
      BY <1>2, <1>12 DEF Leaving, Members
    <2> QED
      BY <1>11, <2>1, <2>2 DEF Leaving
  <1>14. Naming'
    BY <1>2, <1>9, <1>11, <1>12, NameKept
  <1>15. Texts'
    <2>1. ASSUME NEW A, NEW B, Precedes(A, B), Precedes(A, {b})
          PROVE  Precedes(A, B \cup {b})
      BY <2>1 DEF Precedes
    <2>2. ASSUME NEW k \in Joiners
          PROVE  /\ Ordered(toI'[k])
                 /\ \/ Bodies(toI'[k]) = Bodies(toI[k])
                    \/ Bodies(toI'[k]) = Bodies(toI[k]) \cup {b} /\ x = k
      <3>1. toI[k] \in Seq(Frame) /\ Ordered(toI[k])
        BY Typing DEF Texts
      <3>2. Bodies(toI[k] \o <<m>>) = Bodies(toI[k]) \cup {b} /\ Ordered(toI[k] \o <<m>>)
        BY <1>5, <1>6, <3>1, TextJoined
      <3> QED
        BY <1>9, <3>1, <3>2
    <2>3. ASSUME NEW k \in Joiners
          PROVE  /\ Ordered(toJ'[k])
                 /\ \/ Bodies(toJ'[k]) = Bodies(toJ[k])
                    \/ Bodies(toJ'[k]) = Bodies(toJ[k]) \cup {b} /\ x = Initiator
      <3>1. toJ[k] \in Seq(Frame) /\ Ordered(toJ[k])
        BY Typing DEF Texts
      <3>2. Bodies(toJ[k] \o <<m>>) = Bodies(toJ[k]) \cup {b} /\ Ordered(toJ[k] \o <<m>>)
        BY <1>5, <1>6, <3>1, TextJoined
      <3> QED
        BY <1>9, <3>1, <3>2
    <2>4. ASSUME NEW a, a \in Everyone \X Nat, a[2] <= sent[a[1]]
          PROVE  a[2] <= sent'[a[1]]
      <3>1. a[1] \in Everyone /\ a[2] \in Nat
        BY <2>4
      <3>2. sent[a[1]] <= sent'[a[1]] /\ sent[a[1]] \in Nat /\ sent'[a[1]] \in Nat
        BY <1>1, <1>3, <3>1
      <3> QED
        BY <2>4, <3>1, <3>2
    <2>5. sent'[x] <= sent'[x] /\ \A y \in Joiners : y \in Everyone
      BY <1>1, <1>3
    <2>6. ASSUME NEW y \in Joiners
          PROVE  \A a \in Bodies(toI'[y]) : a[1] = y /\ a[2] <= sent'[y]
      <3>1. ASSUME NEW a \in Bodies(toI[y])
            PROVE  a[1] = y /\ a[2] <= sent'[y]
        <4>1. a \in Everyone \X Nat
          BY Typing, BodyTyped
        <4>2. a[1] = y /\ a[2] <= sent[y]
          BY DEF Texts
        <4> QED
          BY <2>4, <4>1, <4>2
      <3> QED
        BY <1>7, <2>2, <2>5, <3>1
    <2>7. ASSUME NEW k \in Joiners
          PROVE  \A a \in Bodies(toJ'[k]) : a[1] # k /\ a[2] <= sent'[a[1]]
      <3>1. ASSUME NEW a \in Bodies(toJ[k])
            PROVE  a[1] # k /\ a[2] <= sent'[a[1]]
        <4>1. a \in Everyone \X Nat
          BY Typing, BodyTyped
        <4>2. a[1] # k /\ a[2] <= sent[a[1]]
          BY DEF Texts
        <4> QED
          BY <2>4, <4>1, <4>2
      <3>2. ASSUME x = Initiator
            PROVE  b[1] # k /\ b[2] <= sent'[b[1]]
        BY <1>1, <1>7, <2>5, <3>2
      <3> QED
        BY <2>3, <3>1, <3>2
    <2>8. ASSUME NEW k \in Joiners, NEW y \in Joiners
          PROVE  Precedes(Bodies(toJ'[k]), Bodies(toI'[y]))
      <3>1. Precedes(Bodies(toJ[k]), Bodies(toI[y])) /\ Precedes(Bodies(toJ[k]), {b})
        BY <1>6 DEF Texts
      <3>2. Precedes(Bodies(toJ[k]), Bodies(toI[y]) \cup {b})
        BY <2>1, <3>1
      <3>3. ASSUME x = Initiator
            PROVE  Precedes(Bodies(toJ[k]) \cup {b}, Bodies(toI[y]))
        <4>1. \A a \in Bodies(toI[y]) : a[1] # b[1]
          BY <1>1, <1>7, <3>3 DEF Texts
        <4> QED
          BY <3>1, <4>1 DEF Precedes
      <3> QED
        BY <1>1, <2>2, <2>3, <3>1, <3>2, <3>3
    <2>9. ASSUME NEW k \in Joiners
          PROVE  Precedes(Elems(shown'[k]), Bodies(toJ'[k]))
      <3>1. Precedes(Elems(shown[k]), Bodies(toJ[k])) /\ Precedes(Elems(shown[k]), {b})
        BY <1>6, <2>5 DEF Texts
      <3>2. Precedes(Elems(shown[k]), Bodies(toJ[k]) \cup {b})
        BY <2>1, <3>1
      <3> QED
        BY <1>2, <2>3, <3>1, <3>2
    <2>10. ASSUME NEW z \in Everyone
           PROVE  /\ InOrder(shown'[z])
                  /\ \A a \in Elems(shown'[z]) : a[1] # z /\ a[2] <= sent'[a[1]]
                  /\ \A y \in Joiners : Precedes(Elems(shown'[z]), Bodies(toI'[y]))
      <3>1. ASSUME NEW a \in Elems(shown[z])
            PROVE  a[1] # z /\ a[2] <= sent'[a[1]]
        <4>1. shown[z] \in Seq(Everyone \X Nat)
          BY DEF TypeOK
        <4>2. a \in Everyone \X Nat
          BY <4>1, ElemTyped
        <4>3. a[1] # z /\ a[2] <= sent[a[1]]
          BY DEF Texts
        <4> QED
          BY <2>4, <4>2, <4>3
      <3>2. ASSUME NEW y \in Joiners
            PROVE  Precedes(Elems(shown[z]), Bodies(toI'[y]))
        <4>1. Precedes(Elems(shown[z]), Bodies(toI[y])) /\ Precedes(Elems(shown[z]), {b})
          BY <1>6 DEF Texts
        <4>2. Precedes(Elems(shown[z]), Bodies(toI[y]) \cup {b})
          BY <2>1, <4>1
        <4> QED
          BY <2>2, <4>1, <4>2
      <3>3. InOrder(shown[z]) /\ shown' = shown
        BY <1>2 DEF Texts
      <3> QED
        BY <3>1, <3>2, <3>3
    <2> QED
      BY <2>2, <2>3, <2>6, <2>7, <2>8, <2>9, <2>10 DEF Texts
  <1> QED
    BY <1>10, <1>11, <1>13, <1>14, <1>15

\* The initiator announces its name to all it knows.
LEMMA SendNameHub ==
  ASSUME IInv, SendName(Initiator)
  PROVE  IInv'
  <1> USE DEF IInv
  <1> DEFINE f == NameOf(Initiator)
  <1>1. /\ state[Initiator] = "in" /\ named' = named \cup {Initiator} /\ roster' = roster \cup {Initiator}
        /\ SendTo(peers, <<f>>) /\ toI' = toI
        /\ UNCHANGED <<pend, first, wired, closed, busy, knows, shown, sent, slow, closing>>
        /\ UNCHANGED <<state, peers, hub, count>>
    BY DEF SendName, SendAll, roomVars, NameOf
  <1>2. /\ Initiator \in Everyone /\ Initiator \notin Joiners /\ peers \in SUBSET Joiners
        /\ roster \subseteq Everyone /\ named \subseteq Everyone /\ toJ \in [Joiners -> Seq(Frame)]
    BY InitiatorAssumption DEF TypeOK, Everyone
  <1>3. f \in Frame /\ ~ IsText(f) /\ f.type = "name"
    BY <1>2, FrameMade
  <1> HIDE DEF f
  <1>4. /\ <<f>> \in Seq(Frame)
        /\ \A i \in 1 .. Len(<<f>>) : ~ IsText(<<f>>[i]) /\ <<f>>[i].type # "leave"
    BY <1>3, One
  <1>5. /\ toJ' \in [Joiners -> Seq(Frame)] /\ missed' \subseteq Joiners /\ missed \subseteq missed'
        /\ \A k \in peers : state[k] = "in" => toJ'[k] = toJ[k] \o <<f>>
    BY <1>1, <1>2, <1>4, SendToEffect
  <1>6. TypeOK'
    BY <1>1, <1>2, <1>5 DEF TypeOK, Frame
  <1>7. HubThere' /\ Closing'
    BY <1>1, <1>2, <1>4, HubSends
  <1>8. Leaving'
    <2>1. LastLeave'
      BY <1>1 DEF Leaving, LastLeave
    <2>2. Members'
      BY <1>1, <1>2 DEF Leaving, Members
    <2> QED
      BY <1>7, <2>1, <2>2 DEF Leaving
  <1>9. ASSUME NEW k \in Joiners, Present(k)'
        PROVE  Coming(k)'
    <2>1. toJ'[k] = toJ[k] \o <<f>>
      BY <1>1, <1>5, <1>9 DEF Present
    <2>2. toJ[k] \in Seq(Frame) /\ In(f, <<f>>)
      BY <1>2, <1>3, InOne
    <2>3. In(f, toJ'[k])
      BY <1>4, <2>1, <2>2, InJoined
    <2> QED
      BY <2>3 DEF Coming, f, NameOf
  <1>10. Naming'
    <2>1. ASSUME NEW k \in Joiners, k \in named', Present(k)'
          PROVE  /\ k \in roster' \/ busy'[k] \/ In(NameOf(k), toI'[k])
                 /\ k \in knows'[Initiator] \/ Initiator \in slow' \/ In(NameOf(k), toI'[k])
                 /\ Coming(k)'
      <3>1. k \in named /\ Present(k)
        BY <1>1, <1>2, <1>5, <2>1 DEF Present
      <3>2. /\ k \in roster \/ busy[k] \/ In(NameOf(k), toI[k])
            /\ k \in knows[Initiator] \/ Initiator \in slow \/ In(NameOf(k), toI[k])
        BY <3>1 DEF Naming
      <3>3. Coming(k)'
        BY <1>9, <2>1
      <3> QED
        BY <1>1, <3>2, <3>3
    <2>2. /\ roster' \subseteq peers' \cup {Initiator} \cup closed'
          /\ Initiator \in named' => Initiator \in roster'
          /\ \A k \in Joiners : k \in named' /\ k \notin wired' => k \in missed'
      BY <1>1, <1>2, <1>5 DEF Naming
    <2> QED
      BY <2>1, <2>2 DEF Naming, NameOf
  <1>11. Texts'
    <2>1. \A k \in Joiners : Quieter(toJ[k], toJ'[k])
      BY <1>1, <1>2, <1>4, QuietSendTo
    <2>2. \A k \in Joiners : Quieter(toI[k], toI'[k])
      BY <1>1, QuietSame
    <2> QED
      BY <1>1, <2>1, <2>2, QuietTexts
  <1> QED
    BY <1>6, <1>7, <1>8, <1>10, <1>11

\* A joiner announces its name: it is on its way, or the joiner has missed something.
LEMMA SendNameJoiner ==
  ASSUME IInv, NEW j \in Joiners, SendName(j)
  PROVE  IInv'
  <1> USE DEF IInv
  <1> DEFINE f == NameOf(j)
  <1>1. j \in Everyone /\ Initiator \in Everyone /\ j # Initiator /\ named \subseteq Everyone
    BY Typing DEF TypeOK
  <1>2. /\ state[j] = "in" /\ named' = named \cup {j} /\ roster' = roster
        /\ SendHub(j, f, toJ[j])
        /\ UNCHANGED <<pend, first, wired, closed, busy, knows, shown, sent, slow, closing>>
        /\ UNCHANGED <<state, peers, hub, count>>
    BY <1>1 DEF SendName, roomVars, NameOf
  <1>3. f \in Frame /\ ~ IsText(f) /\ f.type = "name" /\ toJ[j] \in {toJ[j], <<>>}
    BY <1>1, FrameMade
  <1> HIDE DEF f
  <1>4. /\ toJ' \in [Joiners -> Seq(Frame)] /\ toI' \in [Joiners -> Seq(Frame)]
        /\ missed' \subseteq Joiners /\ missed \subseteq missed'
        /\ j \notin wired => j \in missed'
        /\ toJ'[j] = toJ[j] /\ \A k \in Joiners : k # j => toJ'[k] = toJ[k] /\ toI'[k] = toI[k]
    BY <1>2, <1>3, SendHubEffect
  <1>5. /\ j \notin peers => toI'[j] = <<>>
        /\ \A i \in 1 .. Len(toI'[j]) : toI'[j][i].type # "leave"
        /\ j \in wired /\ state[Initiator] = "in" => toI'[j] = toI[j] \o <<f>>
    BY <1>2, <1>3, JoinerSends
  <1>6. TypeOK'
    BY <1>1, <1>2, <1>4 DEF TypeOK, Frame
  <1>7. /\ HubThere' /\ Closing' /\ \A k \in Joiners : Coming(k) => Coming(k)'
    <2>1. \A k \in Joiners : toJ'[k] = toJ[k]
      BY <1>4
    <2>2. closing \subseteq Joiners
      BY DEF TypeOK
    <2>3. HubThere'
      BY <1>2, <2>1 DEF Leaving, HubThere
    <2>4. Closing'
      BY <1>2, <1>4, <2>1, <2>2 DEF Closing
    <2> QED
      BY <2>1, <2>3, <2>4 DEF Coming
  <1>8. Leaving'
    <2>1. LastLeave'
      BY <1>2, <1>4, <1>5 DEF Leaving, LastLeave
    <2>2. Members'
      BY <1>1, <1>2, <1>4, <1>5 DEF Leaving, Members
    <2> QED
      BY <1>7, <2>1, <2>2 DEF Leaving
  <1>9. Naming'
    <2>1. ASSUME NEW k \in Joiners, k \in named', Present(k)'
          PROVE  /\ k \in roster' \/ busy'[k] \/ In(NameOf(k), toI'[k])
                 /\ k \in knows'[Initiator] \/ Initiator \in slow' \/ In(NameOf(k), toI'[k])
                 /\ Initiator \in named' =>
                      Initiator \in knows'[k] \/ k \in slow' \/ busy'[k] \/ In(NameOf(k), toI'[k]) \/ Coming(k)'
      <3>1. Present(k) /\ state[Initiator] = "in" /\ k \in peers
        BY <1>2, <1>4, <2>1 DEF Present
      <3>2. CASE k = j
        <4>1. toI'[j] = toI[j] \o <<f>>
          BY <1>5, <3>1, <3>2 DEF Leaving, Members
        <4>2. toI[j] \in Seq(Frame) /\ <<f>> \in Seq(Frame) /\ In(f, <<f>>)
          BY <1>3, Typing, One, InOne
        <4>3. In(f, toI'[j])
          BY <4>1, <4>2, InJoined
        <4> QED
          BY <3>2, <4>3 DEF f
      <3>3. CASE k # j
        <4>1. k \in named /\ toI'[k] = toI[k]
          BY <1>2, <1>4, <2>1, <3>3
        <4>2. /\ k \in roster \/ busy[k] \/ In(NameOf(k), toI[k])
              /\ k \in knows[Initiator] \/ Initiator \in slow \/ In(NameOf(k), toI[k])
              /\ Initiator \in named =>
                   Initiator \in knows[k] \/ k \in slow \/ busy[k] \/ In(NameOf(k), toI[k]) \/ Coming(k)
          BY <3>1, <4>1 DEF Naming
        <4>3. Initiator \in named' => Initiator \in named
          BY <1>1, <1>2
        <4> QED
          BY <1>2, <1>7, <4>1, <4>2, <4>3
      <3> QED
        BY <3>2, <3>3
    <2>2. /\ roster' \subseteq peers' \cup {Initiator} \cup closed'
          /\ Initiator \in named' => Initiator \in roster'
          /\ \A k \in Joiners : k \in named' /\ k \notin wired' => k \in missed'
      BY <1>1, <1>2, <1>4 DEF Naming
    <2> QED
      BY <2>1, <2>2 DEF Naming, NameOf
  <1>10. Texts'
    <2>1. \A k \in Joiners : Quieter(toI[k], toI'[k]) /\ Quieter(toJ[k], toJ'[k])
      BY <1>2, <1>3, QuietSendHub
    <2> QED
      BY <1>2, <2>1, QuietTexts
  <1> QED
    BY <1>6, <1>7, <1>8, <1>9, <1>10

\* The initiator ends its session: a close is in every channel that is open.
LEMMA EndHubStep ==
  ASSUME IInv, NEW t \in {"leave", "close"}, NEW as \in {"idle", "ended"},
         Part(Initiator, [type |-> t], as)
  PROVE  IInv'
  <1> USE DEF IInv
  <1> DEFINE f == [type |-> t]
  <1>1. f \in Frame /\ ~ IsText(f) /\ f.type = t
    BY NoteMade
  <1>2. /\ state[Initiator] = "in" /\ state' = [state EXCEPT ![Initiator] = as]
        /\ SendTo(peers, <<f>>) /\ toI' = toI
        /\ closing' = IF t = "close" THEN closing \cup peers ELSE closing
        /\ UNCHANGED <<pend, first, peers, hub, count, wired, closed>>
        /\ UNCHANGED <<busy, roster, knows, shown, sent, named, slow>>
    BY DEF Part, SendAll, textVars
  <1> HIDE DEF f
  <1>3. /\ Initiator \in Everyone /\ Initiator \notin Joiners /\ peers \in SUBSET Joiners /\ Joiners \subseteq Everyone
        /\ toJ \in [Joiners -> Seq(Frame)] /\ state \in [Everyone -> {"out", "in", "idle", "ended", "gone"}]
        /\ closing \subseteq Joiners
    BY InitiatorAssumption DEF TypeOK, Everyone
  <1>4. /\ <<f>> \in Seq(Frame) /\ \A i \in 1 .. Len(<<f>>) : ~ IsText(<<f>>[i])
    BY <1>1, One
  <1>5. /\ toJ' \in [Joiners -> Seq(Frame)] /\ missed' \subseteq Joiners /\ missed \subseteq missed'
        /\ \A k \in peers : state[k] = "in" => toJ'[k] = toJ[k] \o <<f>>
        /\ \A k \in peers : state[k] = "out" => k \in missed'
    BY <1>2, <1>3, <1>4, SendToEffect
  <1>6. /\ state' \in [Everyone -> {"out", "in", "idle", "ended", "gone"}] /\ closing' \subseteq Joiners
        /\ \A k \in Joiners : state'[k] = state[k]
        /\ state'[Initiator] \in {"idle", "ended"}
    BY <1>2, <1>3
  <1>7. TypeOK'
    BY <1>2, <1>5, <1>6 DEF TypeOK, Frame
  <1>8. /\ HubThere'
        /\ \A k \in closing : k \notin missed' =>
             state'[k] # "out" /\ (state'[k] = "in" => In([type |-> "close"], toJ'[k]))
        /\ closing' = closing => Closing'
    BY <1>2, <1>3, <1>4, <1>6, HubSends
  <1>9. Closing'
    <2>1. CASE t = "leave"
      BY <1>2, <1>8, <2>1
    <2>2. CASE t = "close"
      <3>1. ASSUME NEW k \in peers, k \notin missed'
            PROVE  state'[k] # "out" /\ (state'[k] = "in" => In([type |-> "close"], toJ'[k]))
        <4>1. k \in Joiners /\ state'[k] = state[k] /\ state[k] # "out"
          BY <1>3, <1>5, <1>6, <3>1
        <4>2. ASSUME state[k] = "in"
              PROVE  In(f, toJ'[k])
          <5>1. toJ'[k] = toJ[k] \o <<f>>
            BY <1>5, <4>2
          <5>2. toJ[k] \in Seq(Frame) /\ In(f, <<f>>)
            BY <1>1, <1>3, <4>1, InOne
          <5> QED
            BY <1>4, <5>1, <5>2, InJoined
        <4> QED
          BY <2>2, <4>1, <4>2 DEF f
      <3>2. closing' = closing \cup peers
        BY <1>2, <2>2
      <3> QED
        BY <1>8, <3>1, <3>2 DEF Closing
    <2> QED
      BY <2>1, <2>2
  <1>10. Leaving'
    <2>1. LastLeave'
      BY <1>2, <1>6 DEF Leaving, LastLeave
    <2>2. Members'
      BY <1>2, <1>6 DEF Leaving, Members
    <2> QED
      BY <1>8, <2>1, <2>2 DEF Leaving
  <1>11. Naming'
    <2>1. \A k \in Joiners : ~ Present(k)'
      BY <1>6 DEF Present
    <2> QED
      BY <1>2, <1>5, <2>1 DEF Naming
  <1>12. Texts'
    <2>1. \A k \in Joiners : Quieter(toJ[k], toJ'[k])
      BY <1>2, <1>3, <1>4, QuietSendTo
    <2>2. \A k \in Joiners : Quieter(toI[k], toI'[k])
      BY <1>2, QuietSame
    <2> QED
      BY <1>2, <2>1, <2>2, QuietTexts
  <1> QED
    BY <1>7, <1>9, <1>10, <1>11, <1>12

\* A joiner leaves: that is the last it sends.
LEMMA EndJoinerStep ==
  ASSUME IInv, NEW j \in Joiners, NEW as \in {"idle", "ended"}, Part(j, [type |-> "leave"], as)
  PROVE  IInv'
  <1> USE DEF IInv
  <1> DEFINE f == [type |-> "leave"]
  <1>1. f \in Frame /\ ~ IsText(f) /\ f.type = "leave" /\ <<>> \in {toJ[j], <<>>}
    BY NoteMade
  <1>2. /\ j \in Everyone /\ Initiator \in Everyone /\ j # Initiator /\ Joiners \subseteq Everyone
        /\ state \in [Everyone -> {"out", "in", "idle", "ended", "gone"}] /\ closing \subseteq Joiners
    BY Typing DEF TypeOK, Everyone
  <1>3. /\ state[j] = "in" /\ state' = [state EXCEPT ![j] = as] /\ SendHub(j, f, <<>>)
        /\ UNCHANGED <<pend, first, peers, hub, count, wired, closed, closing>>
        /\ UNCHANGED <<busy, roster, knows, shown, sent, named, slow>>
    BY <1>2 DEF Part, textVars
  <1> HIDE DEF f
  <1>4. /\ toJ' \in [Joiners -> Seq(Frame)] /\ toI' \in [Joiners -> Seq(Frame)]
        /\ missed' \subseteq Joiners /\ missed \subseteq missed'
        /\ toJ'[j] = <<>> /\ \A k \in Joiners : k # j => toJ'[k] = toJ[k] /\ toI'[k] = toI[k]
    BY <1>1, <1>3, SendHubEffect
  <1>5. /\ j \notin peers => toI'[j] = <<>>
        /\ \A i \in 1 .. Len(toI'[j]) : toI'[j][i].type = "leave" => i = Len(toI'[j])
        /\ In(NameOf(j), toI[j]) => In(NameOf(j), toI'[j])
    BY <1>1, <1>3, JoinerSends
  <1>6. /\ state' \in [Everyone -> {"out", "in", "idle", "ended", "gone"}]
        /\ \A k \in Joiners : k # j => state'[k] = state[k]
        /\ state'[Initiator] = state[Initiator] /\ state'[j] \in {"idle", "ended"}
    BY <1>2, <1>3
  <1>7. TypeOK'
    BY <1>3, <1>4, <1>6 DEF TypeOK, Frame
  <1>8. HubThere'
    <2>1. ASSUME NEW k \in Joiners
          PROVE  /\ state'[k] = "out" => toJ'[k] = <<>>
                 /\ state'[k] = "in" /\ state'[Initiator] \in {"out", "in"} =>
                      hub'[k] /\ \A i \in 1 .. Len(toJ'[k]) : toJ'[k][i].type # "leave"
      <3>1. CASE k = j
        BY <1>6, <3>1
      <3>2. CASE k # j
        <4>1. /\ state'[k] = state[k] /\ toJ'[k] = toJ[k] /\ hub'[k] = hub[k]
              /\ state'[Initiator] = state[Initiator]
          BY <1>3, <1>4, <1>6, <3>2
        <4> QED
          BY <4>1 DEF Leaving, HubThere
      <3> QED
        BY <3>1, <3>2
    <2> QED
      BY <2>1 DEF HubThere
  <1>9. Closing'
    BY <1>2, <1>3, <1>4, <1>6 DEF Closing
  <1>10. Leaving'
    <2>1. LastLeave'
      BY <1>4, <1>5, <1>6 DEF Leaving, LastLeave
    <2>2. Members'
      BY <1>3, <1>4, <1>5, <1>6 DEF Leaving, Members
    <2> QED
      BY <1>8, <2>1, <2>2 DEF Leaving
  <1>11. Naming'
    <2>1. ASSUME NEW k \in Joiners, k \in named', Present(k)'
          PROVE  /\ k \in roster' \/ busy'[k] \/ In(NameOf(k), toI'[k])
                 /\ k \in knows'[Initiator] \/ Initiator \in slow' \/ In(NameOf(k), toI'[k])
                 /\ Initiator \in named' =>
                      Initiator \in knows'[k] \/ k \in slow' \/ busy'[k] \/ In(NameOf(k), toI'[k]) \/ Coming(k)'
      <3>1. k # j /\ k \in named /\ Present(k)
        BY <1>3, <1>4, <1>6, <2>1 DEF Present
      <3>2. toI'[k] = toI[k] /\ toJ'[k] = toJ[k]
        BY <1>4, <3>1
      <3>3. Coming(k) => Coming(k)'
        BY <3>2 DEF Coming
      <3>4. /\ k \in roster \/ busy[k] \/ In(NameOf(k), toI[k])
            /\ k \in knows[Initiator] \/ Initiator \in slow \/ In(NameOf(k), toI[k])
            /\ Initiator \in named =>
                 Initiator \in knows[k] \/ k \in slow \/ busy[k] \/ In(NameOf(k), toI[k]) \/ Coming(k)
        BY <3>1 DEF Naming
      <3> QED
        BY <1>3, <3>2, <3>3, <3>4
    <2>2. /\ roster' \subseteq peers' \cup {Initiator} \cup closed'
          /\ Initiator \in named' => Initiator \in roster'
          /\ \A k \in Joiners : k \in named' /\ k \notin wired' => k \in missed'
      BY <1>3, <1>4 DEF Naming
    <2> QED
      BY <2>1, <2>2 DEF Naming, NameOf
  <1>12. Texts'
    <2>1. \A k \in Joiners : Quieter(toI[k], toI'[k]) /\ Quieter(toJ[k], toJ'[k])
      BY <1>1, <1>3, QuietSendHub
    <2> QED
      BY <1>3, <2>1, QuietTexts
  <1> QED
    BY <1>7, <1>9, <1>10, <1>11, <1>12

\* A process exits: what was sent to it is lost, what it sent is not.
LEMMA ExitStep ==
  ASSUME IInv, NEW x \in Everyone, Exit(x)
  PROVE  IInv'
  <1> USE DEF IInv
  <1>1. /\ Live(x) /\ state' = [state EXCEPT ![x] = "gone"]
        /\ busy' = IF x = Initiator THEN [k \in Joiners |-> FALSE] ELSE busy
        /\ toJ' = IF x = Initiator THEN toJ ELSE [toJ EXCEPT ![x] = <<>>]
        /\ toI' = IF x = Initiator THEN [k \in Joiners |-> <<>>] ELSE toI
        /\ count' = [count EXCEPT ![x] = 1]
        /\ UNCHANGED <<pend, first, peers, hub, missed, wired, closed>>
        /\ UNCHANGED <<roster, knows, shown, sent, named, slow, closing>>
    BY DEF Exit
  <1>2. /\ Initiator \in Everyone /\ Initiator \notin Joiners /\ Joiners \subseteq Everyone
        /\ x # Initiator => x \in Joiners
        /\ toJ \in [Joiners -> Seq(Frame)] /\ state \in [Everyone -> {"out", "in", "idle", "ended", "gone"}]
        /\ closing \subseteq Joiners /\ busy \in [Joiners -> BOOLEAN]
        /\ toI \in [Joiners -> Seq(Frame)] /\ count \in [Everyone -> Nat \ {0}]
    BY InitiatorAssumption DEF TypeOK, Everyone
  <1>3. /\ state' \in [Everyone -> {"out", "in", "idle", "ended", "gone"}] /\ busy' \in [Joiners -> BOOLEAN]
        /\ toJ' \in [Joiners -> Seq(Frame)] /\ state'[x] = "gone" /\ state[x] \in {"in", "idle", "ended"}
        /\ \A z \in Everyone : z # x => state'[z] = state[z]
        /\ \A k \in Joiners : k # x => toJ'[k] = toJ[k]
        /\ \A k \in Joiners : toJ'[k] \in {toJ[k], <<>>}
        /\ x # Initiator => busy' = busy
        /\ \A k \in Joiners : busy'[k] => busy[k]
        /\ toI' \in [Joiners -> Seq(Frame)] /\ count' \in [Everyone -> Nat \ {0}]
        /\ x # Initiator => toI' = toI
        /\ \A k \in Joiners : toI'[k] \in {toI[k], <<>>}
    BY <1>1, <1>2, EmptySeq DEF Live
  <1>4. TypeOK'
    BY <1>1, <1>3 DEF TypeOK, Frame
  <1>5. Texts'
    <2>1. \A k \in Joiners : Quieter(toI[k], toI'[k]) /\ Quieter(toJ[k], toJ'[k])
      BY <1>1, <1>3, QuietSame, QuietEmpty
    <2> QED
      BY <1>1, <2>1, QuietTexts
  <1>6. Members'
    BY <1>1, <1>2, <1>3 DEF Leaving, Members
  <1>7. LastLeave'
    BY <1>1, <1>2, <1>3 DEF Leaving, LastLeave
  <1>8. HubThere'
    BY <1>1, <1>2, <1>3 DEF Leaving, HubThere
  <1>9. Closing'
    BY <1>1, <1>2, <1>3 DEF Closing
  <1>10. Naming'
    <2>1. ASSUME NEW k \in Joiners, k \in named', Present(k)'
          PROVE  /\ k \in roster' \/ busy'[k] \/ In(NameOf(k), toI'[k])
                 /\ k \in knows'[Initiator] \/ Initiator \in slow' \/ In(NameOf(k), toI'[k])
                 /\ Initiator \in named' =>
                      Initiator \in knows'[k] \/ k \in slow' \/ busy'[k] \/ In(NameOf(k), toI'[k]) \/ Coming(k)'
      <3>1. k # x /\ x # Initiator /\ k \in named /\ Present(k)
        BY <1>1, <1>2, <1>3, <2>1 DEF Present
      <3>2. toJ'[k] = toJ[k] /\ busy' = busy /\ toI' = toI
        BY <1>3, <3>1
      <3>3. Coming(k) => Coming(k)'
        BY <3>2 DEF Coming
      <3>4. /\ k \in roster \/ busy[k] \/ In(NameOf(k), toI[k])
            /\ k \in knows[Initiator] \/ Initiator \in slow \/ In(NameOf(k), toI[k])
            /\ Initiator \in named =>
                 Initiator \in knows[k] \/ k \in slow \/ busy[k] \/ In(NameOf(k), toI[k]) \/ Coming(k)
        BY <3>1 DEF Naming
      <3> QED
        BY <1>1, <3>2, <3>3, <3>4
    <2>2. /\ roster' \subseteq peers' \cup {Initiator} \cup closed'
          /\ Initiator \in named' => Initiator \in roster'
          /\ \A k \in Joiners : k \in named' /\ k \notin wired' => k \in missed'
      BY <1>1 DEF Naming
    <2> QED
      BY <2>1, <2>2 DEF Naming, NameOf
  <1> QED
    BY <1>4, <1>5, <1>6, <1>7, <1>8, <1>9, <1>10 DEF Leaving

\* Run has returned: what was sent to it is not heard any more.
LEMMA RunReturnedStep ==
  ASSUME IInv, NEW x \in Everyone, RunReturned(x)
  PROVE  IInv'
  <1> USE DEF IInv
  <1>1. /\ state[x] = "idle" /\ state' = [state EXCEPT ![x] = "ended"]
        /\ toJ' = IF x = Initiator THEN toJ ELSE [toJ EXCEPT ![x] = <<>>]
        /\ UNCHANGED <<pend, first, peers, hub, count, toI, missed, wired, closed>>
        /\ UNCHANGED <<busy, roster, knows, shown, sent, named, slow, closing>>
    BY DEF RunReturned, textVars
  <1>2. /\ Initiator \in Everyone /\ Initiator \notin Joiners /\ Joiners \subseteq Everyone
        /\ x # Initiator => x \in Joiners
        /\ toJ \in [Joiners -> Seq(Frame)] /\ state \in [Everyone -> {"out", "in", "idle", "ended", "gone"}]
        /\ closing \subseteq Joiners /\ busy \in [Joiners -> BOOLEAN]
    BY InitiatorAssumption DEF TypeOK, Everyone
  <1>3. /\ state' \in [Everyone -> {"out", "in", "idle", "ended", "gone"}]
        /\ toJ' \in [Joiners -> Seq(Frame)] /\ state'[x] = "ended"
        /\ \A z \in Everyone : z # x => state'[z] = state[z]
        /\ \A k \in Joiners : k # x => toJ'[k] = toJ[k]
        /\ \A k \in Joiners : toJ'[k] \in {toJ[k], <<>>}
    BY <1>1, <1>2, EmptySeq
  <1>4. TypeOK'
    BY <1>1, <1>3 DEF TypeOK, Frame
  <1>5. Texts'
    <2>1. \A k \in Joiners : Quieter(toI[k], toI'[k]) /\ Quieter(toJ[k], toJ'[k])
      BY <1>1, <1>3, QuietSame, QuietEmpty
    <2> QED
      BY <1>1, <2>1, QuietTexts
  <1>6. Members'
    BY <1>1, <1>2, <1>3 DEF Leaving, Members
  <1>7. LastLeave'
    BY <1>1, <1>2, <1>3 DEF Leaving, LastLeave
  <1>8. HubThere'
    BY <1>1, <1>2, <1>3 DEF Leaving, HubThere
  <1>9. Closing'
    BY <1>1, <1>2, <1>3 DEF Closing
  <1>10. Naming'
    <2>1. ASSUME NEW k \in Joiners, k \in named', Present(k)'
          PROVE  /\ k \in roster' \/ busy'[k] \/ In(NameOf(k), toI'[k])
                 /\ k \in knows'[Initiator] \/ Initiator \in slow' \/ In(NameOf(k), toI'[k])
                 /\ Initiator \in named' =>
                      Initiator \in knows'[k] \/ k \in slow' \/ busy'[k] \/ In(NameOf(k), toI'[k]) \/ Coming(k)'
      <3>1. k # x /\ k \in named /\ Present(k)
        BY <1>1, <1>2, <1>3, <2>1 DEF Present
      <3>2. toJ'[k] = toJ[k]
        BY <1>3, <3>1
      <3>3. Coming(k) => Coming(k)'
        BY <3>2 DEF Coming
      <3>4. /\ k \in roster \/ busy[k] \/ In(NameOf(k), toI[k])
            /\ k \in knows[Initiator] \/ Initiator \in slow \/ In(NameOf(k), toI[k])
            /\ Initiator \in named =>
                 Initiator \in knows[k] \/ k \in slow \/ busy[k] \/ In(NameOf(k), toI[k]) \/ Coming(k)
        BY <3>1 DEF Naming
      <3> QED
        BY <1>1, <3>2, <3>3, <3>4
    <2>2. /\ roster' \subseteq peers' \cup {Initiator} \cup closed'
          /\ Initiator \in named' => Initiator \in roster'
          /\ \A k \in Joiners : k \in named' /\ k \notin wired' => k \in missed'
      BY <1>1 DEF Naming
    <2> QED
      BY <2>1, <2>2 DEF Naming, NameOf
  <1> QED
    BY <1>4, <1>5, <1>6, <1>7, <1>8, <1>9, <1>10 DEF Leaving

-----------------------------------------------------------------------------
(* The theorems.                                                           *)

LEMMA InitInv ==
  ASSUME Init
  PROVE  IInv
  <1>1. /\ pend = [j \in Joiners |-> 0] /\ first = None /\ state = [x \in Everyone |-> "out"]
        /\ peers = {} /\ hub = [j \in Joiners |-> FALSE] /\ count = [x \in Everyone |-> 1]
        /\ toI = [j \in Joiners |-> <<>>] /\ toJ = [j \in Joiners |-> <<>>]
        /\ wired = {} /\ closed = {} /\ busy = [j \in Joiners |-> FALSE]
        /\ roster = {} /\ knows = [x \in Everyone |-> {}]
        /\ shown = [x \in Everyone |-> <<>>] /\ sent = [x \in Everyone |-> 0]
        /\ named = {} /\ slow = {} /\ missed = {} /\ closing = {}
    BY DEF Init
  <1>2. Initiator \in Everyone /\ Joiners \subseteq Everyone /\ <<>> \in Seq(Frame) /\ <<>> \in Seq(Everyone \X Nat)
    BY EmptySeq DEF Everyone
  <1>3. TypeOK
    BY <1>1, <1>2 DEF TypeOK
  <1>4. /\ \A j \in Joiners : toI[j] = <<>> /\ toJ[j] = <<>>
        /\ \A x \in Everyone : shown[x] = <<>>
    BY <1>1
  <1>5. /\ Bodies(<<>>) = {} /\ Ordered(<<>>) /\ Elems(<<>>) = {} /\ InOrder(<<>>)
        /\ \A A : Precedes({}, A)
    BY DEF Bodies, Ordered, Elems, InOrder, Precedes
  <1>6. Texts
    <2>1. ASSUME NEW y \in Joiners
          PROVE  Bodies(toI[y]) = {} /\ Ordered(toI[y]) /\ Bodies(toJ[y]) = {} /\ Ordered(toJ[y])
      BY <1>4, <1>5
    <2>2. ASSUME NEW x \in Everyone
          PROVE  Elems(shown[x]) = {} /\ InOrder(shown[x])
      BY <1>4, <1>5
    <2> QED
      BY <1>2, <1>5, <2>1, <2>2 DEF Texts
  <1>7. Members
    BY <1>1, <1>2, <1>4 DEF Members
  <1>8. LastLeave /\ HubThere
    <2>1. \A j \in Joiners : Len(toI[j]) = 0 /\ state[j] = "out"
      BY <1>1, <1>2, <1>4, EmptySeq
    <2> QED
      BY <1>4, <2>1 DEF LastLeave, HubThere
  <1>9. Naming /\ Closing
    BY <1>1 DEF Naming, Closing
  <1> QED
    BY <1>3, <1>6, <1>7, <1>8, <1>9 DEF IInv, Leaving

LEMMA NextInv ==
  ASSUME IInv, [Next]_vars
  PROVE  IInv'
  <1>1. CASE UNCHANGED vars
    <2>1. /\ UNCHANGED <<state, peers, hub, toI, toJ, missed, wired, closed, closing>>
          /\ UNCHANGED <<pend, first, count, busy, roster, knows, shown, sent, named, slow>>
      BY <1>1 DEF vars, roomVars, linkVars, textVars
    <2>2. TypeOK'
      BY <2>1 DEF IInv, TypeOK, Frame
    <2> QED
      BY <2>1, <2>2, SameStep
  <1>2. ASSUME NEW j \in Joiners, SlotJoin(j) \/ NewJoiner(j) \/ AddPeer(j)
        PROVE  IInv'
    BY <1>2, SlotJoinStep, NewJoinerStep, AddPeerStep
  <1>3. ASSUME NEW j \in Joiners, Hub(j)
        PROVE  IInv'
    BY <1>3, HubTextStep, HubNameStep, HubRosterStep, HubLeaveStep, HubOnCloseStep, HubClosedStep DEF Hub
  <1>4. ASSUME NEW j \in Joiners, Joiner(j)
        PROVE  IInv'
    BY <1>4, JoinerTextStep, JoinerQuietStep, JoinerOnCloseStep DEF Joiner
  <1>5. ASSUME NEW x \in Everyone, SendText(x) \/ SendName(x) \/ Exit(x)
        PROVE  IInv'
    <2>1. x = Initiator \/ x \in Joiners
      BY DEF Everyone
    <2> QED
      BY <1>5, <2>1, SendTextStep, SendNameHub, SendNameJoiner, ExitStep
  <1>6. ASSUME NEW as \in {"idle", "ended"},
               \/ \E t \in {"leave", "close"} : Part(Initiator, [type |-> t], as)
               \/ \E j \in Joiners : Part(j, [type |-> "leave"], as)
        PROVE  IInv'
    BY <1>6, EndHubStep, EndJoinerStep
  <1>7. ASSUME NEW x \in Everyone, Close \/ Leave(x)
        PROVE  IInv'
    <2>1. x = Initiator \/ x \in Joiners
      BY DEF Everyone
    <2>2. CASE Close
      <3>1. Part(Initiator, [type |-> "close"], "ended")
        BY <2>2 DEF Close
      <3> QED
        BY <1>6, <3>1
    <2>3. CASE Leave(x)
      <3>1. Part(x, [type |-> "leave"], "ended")
        BY <2>3 DEF Leave
      <3> QED
        BY <1>6, <2>1, <3>1
    <2> QED
      BY <1>7, <2>2, <2>3
  <1>8. ASSUME NEW x \in Everyone, Idle(x)
        PROVE  IInv'
    <2>1. CASE x = Initiator
      <3>1. Part(Initiator, [type |-> "close"], "idle")
        BY <1>8, <2>1 DEF Idle
      <3> QED
        BY <1>6, <3>1
    <2>2. CASE x # Initiator
      <3>1. Part(x, [type |-> "leave"], "idle") /\ x \in Joiners
        BY <1>8, <2>2 DEF Idle, Everyone
      <3> QED
        BY <1>6, <3>1
    <2> QED
      BY <2>1, <2>2
  <1>9. ASSUME NEW x \in Everyone, RunReturned(x)
        PROVE  IInv'
    BY <1>9, RunReturnedStep
  <1>10. Initiator \in Everyone
    BY DEF Everyone
  <1> QED
    BY <1>1, <1>2, <1>3, <1>4, <1>5, <1>7, <1>8, <1>9, <1>10 DEF Next

\* The inductive invariant of the session: texts on their way are in order, who has left
\* is silent, names and closes stay under way until they have been handled.
THEOREM InvHolds == Spec => []IInv
  <1>1. Init => IInv
    BY InitInv
  <1>2. IInv /\ [Next]_vars => IInv'
    BY NextInv
  <1> QED
    BY <1>1, <1>2, PTL DEF Spec

\* The fields of every participant's session and the control channels are well typed.
THEOREM TypesHold == Spec => []TypeOK
  <1>1. IInv => TypeOK
    BY DEF IInv
  <1> QED
    BY <1>1, InvHolds, PTL

\* handleIncomingMessage and its relay show each text at most once and in order, and
\* nobody sees its own, whoever joins and leaves meanwhile.
THEOREM RelayedOnceHolds == Spec => []RelayedOnce
  <1>1. ASSUME IInv
        PROVE  RelayedOnce
    <2> SUFFICES ASSUME NEW x \in Everyone, NEW i \in 1 .. Len(shown[x])
                 PROVE  /\ shown[x][i][1] # x
                        /\ \A k \in 1 .. i - 1 :
                             shown[x][k][1] = shown[x][i][1] => shown[x][k][2] < shown[x][i][2]
      BY DEF RelayedOnce
    <2>1. InOrder(shown[x]) /\ \A b \in Elems(shown[x]) : b[1] # x
      BY <1>1 DEF IInv, Texts
    <2>2. shown[x][i][1] # x
      BY <2>1 DEF Elems
    <2>3. \A k \in 1 .. i - 1 : Precedes({shown[x][k]}, {shown[x][i]})
      BY <2>1 DEF InOrder
    <2> QED
      BY <2>2, <2>3 DEF Precedes
  <1> QED
    BY <1>1, InvHolds, PTL

\* The initiator's roster names nobody who has left, and once everything has been
\* handled, everybody who is there and has announced a name; they and the initiator
\* know each other's name unless emit had to drop an event of theirs.
THEOREM RosterCurrentHolds == Spec => []RosterCurrent
  <1>1. ASSUME IInv
        PROVE  RosterCurrent
    <2> USE <1>1 DEF IInv
    <2>1. roster \subseteq peers \cup {Initiator} \cup closed
      BY DEF Naming
    <2>2. ASSUME Settled, NEW j \in named, Present(j)
          PROVE  /\ j \in roster
                 /\ j \in knows[Initiator] \/ Initiator \in slow
                 /\ Initiator \in named => Initiator \in knows[j] \/ j \in slow
      <3>1. /\ j \in Joiners /\ state[j] = "in" /\ Live(Initiator)
        BY <2>2 DEF Present, TypeOK, Live
      <3>2. toI[j] = <<>> /\ toJ[j] = <<>> /\ ~ busy[j]
        BY <2>2, <3>1 DEF Settled, Active
      <3>3. Len(toI[j]) = 0 /\ Len(toJ[j]) = 0
        BY <3>2, EmptySeq
      <3>4. ~ In(NameOf(j), toI[j]) /\ ~ Coming(j)
        BY <3>3 DEF In, Coming
      <3>5. /\ j \in roster \/ busy[j] \/ In(NameOf(j), toI[j])
            /\ j \in knows[Initiator] \/ Initiator \in slow \/ In(NameOf(j), toI[j])
            /\ Initiator \in named =>
                 Initiator \in knows[j] \/ j \in slow \/ busy[j] \/ In(NameOf(j), toI[j]) \/ Coming(j)
        BY <2>2, <3>1 DEF Naming
      <3> QED
        BY <3>2, <3>4, <3>5
    <2> QED
      BY <2>1, <2>2 DEF RosterCurrent
  <1> QED
    BY <1>1, InvHolds, PTL

\* After a Close, once everything has been handled, nobody who got it is in the session.
THEOREM ClosedForAllHolds == Spec => []ClosedForAll
  <1>1. ASSUME IInv
        PROVE  ClosedForAll
    <2> SUFFICES ASSUME Settled, NEW j \in closing, state[j] = "in", j \notin missed
                 PROVE  FALSE
      BY DEF ClosedForAll
    <2>1. j \in Joiners
      BY <1>1 DEF IInv, TypeOK
    <2>2. Len(toJ[j]) = 0
      BY <2>1, EmptySeq DEF Settled, Active
    <2>3. In([type |-> "close"], toJ[j])
      BY <1>1 DEF IInv, Closing
    <2> QED
      BY <2>2, <2>3 DEF In
  <1> QED
    BY <1>1, InvHolds, PTL

=============================================================================
