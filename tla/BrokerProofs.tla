---------------------------- MODULE BrokerProofs ----------------------------
(* Theorems about Broker for every number of connections, codes and peers. *)
EXTENDS Broker, FiniteSetTheorems, TLAPS

-----------------------------------------------------------------------------
(* Slots.                                                                  *)

\* A slot's join numbers are finitely many, so its counts are numbers.
LEMMA SlotCounts ==
  ASSUME NEW sl, IsSlot(sl), NEW c, NEW d
  PROVE  /\ IsFiniteSet(PeerNumbers(sl))
         /\ Cardinality(PeerNumbers(sl)) \in Nat
         /\ ConnectedCount(sl) \in Nat
         /\ PeerCopies(sl, c) \in Nat
         /\ OtherMembers(sl, c, d) \in Nat
<1>1. IsFiniteSet(1..sl.joins)
  BY FS_Interval DEF IsSlot
<1>2. \A S \in SUBSET PeerNumbers(sl) : IsFiniteSet(S) /\ Cardinality(S) \in Nat
  <2>1. SUFFICES ASSUME NEW S \in SUBSET PeerNumbers(sl)
                 PROVE  IsFiniteSet(S) /\ Cardinality(S) \in Nat
    OBVIOUS
  <2>2. S \in SUBSET (1..sl.joins)
    BY DEF IsSlot
  <2>3. IsFiniteSet(S)
    BY <1>1, <2>2, FS_Subset
  <2> QED BY <2>3, FS_CardinalityType
<1>3. \A e : {n \in PeerNumbers(sl) : sl.peers[n] = e} \in SUBSET PeerNumbers(sl)
  OBVIOUS
<1>4. \A e : PeerCopies(sl, e) \in Nat
  BY <1>2, <1>3 DEF PeerCopies
<1>5. OtherMembers(sl, c, d) \in Nat
  BY <1>4 DEF OtherMembers
<1> QED BY <1>2, <1>4, <1>5 DEF ConnectedCount

\* New makes a well-formed, empty, waiting slot whatever limit was asked for.
LEMMA NewSlot ==
  ASSUME NEW code \in Codes, NEW c \in Conns, NEW max \in Int
  PROVE  /\ IsSlot(New(code, c, max))
         /\ Shape(New(code, c, max))
         /\ PeerNumbers(New(code, c, max)) = {}
         /\ New(code, c, max).code = code
         /\ New(code, c, max).initiator = c
<1> DEFINE sl == New(code, c, max)
<1>1. ClampMaxPeers(max) \in 2..MaxAllowedPeers
  BY SlotLimits DEF ClampMaxPeers
<1>2. PeerNumbers(sl) = {}
  BY DEF New, PeerNumbers
<1>3. ConnectedCount(sl) = 1
  BY <1>2, FS_EmptySet DEF ConnectedCount
<1>4. IsSlot(sl)
  BY <1>1, <1>2, SlotLimits DEF IsSlot, New, PeerNumbers, States
<1>5. Shape(sl)
  BY <1>1, <1>2, <1>3 DEF Shape, New
<1> QED BY <1>2, <1>4, <1>5 DEF New

\* A join adds one peer with a new number and keeps the slot well-formed.
LEMMA JoinSlot ==
  ASSUME NEW sl, IsSlot(sl), Shape(sl), NEW c \in Conns, CanJoin(sl)
  PROVE  /\ IsSlot(Join(sl, c))
         /\ Shape(Join(sl, c))
         /\ Join(sl, c).code = sl.code
         /\ Join(sl, c).initiator = sl.initiator
         /\ \A d : IsMember(Join(sl, c), d) => d = c \/ IsMember(sl, d)
<1> DEFINE number == sl.joins + 1
           peers  == [n \in PeerNumbers(sl) \cup {number} |->
                        IF n = number THEN c ELSE sl.peers[n]]
           full   == 1 + Cardinality(DOMAIN peers) >= sl.maxPeers
           new    == Join(sl, c)
<1>1. /\ sl.joins \in Nat /\ sl.maxPeers \in Nat
      /\ PeerNumbers(sl) \subseteq 1..sl.joins
      /\ sl.peers \in [PeerNumbers(sl) -> Conns]
      /\ sl.everFull \in BOOLEAN
  BY DEF IsSlot
<1>2. /\ new = [sl EXCEPT !.joins = number, !.peers = peers,
                         !.state = IF full THEN "full" ELSE "active",
                         !.everFull = full \/ sl.everFull]
  BY DEF Join
<1>3. /\ new.joins = number /\ new.peers = peers
      /\ new.state = (IF full THEN "full" ELSE "active")
      /\ new.everFull = (full \/ sl.everFull)
      /\ new.code = sl.code /\ new.initiator = sl.initiator
      /\ new.maxPeers = sl.maxPeers
  BY <1>2 DEF IsSlot
<1>4. /\ PeerNumbers(new) = PeerNumbers(sl) \cup {number}
      /\ DOMAIN peers = PeerNumbers(new)
      /\ peers \in [PeerNumbers(new) -> Conns]
  BY <1>1, <1>3 DEF PeerNumbers
<1>5. number \notin PeerNumbers(sl)
  BY <1>1
<1>6. ConnectedCount(new) = ConnectedCount(sl) + 1
  BY <1>4, <1>5, SlotCounts, FS_AddElement DEF ConnectedCount
<1>7. full \in BOOLEAN /\ full = (ConnectedCount(new) >= sl.maxPeers)
  BY <1>4 DEF ConnectedCount
<1>8. IsSlot(new)
  <2>1. new.everFull \in BOOLEAN /\ new.state \in States
    BY <1>3 DEF States
  <2>2. /\ new = [code |-> sl.code, state |-> new.state, initiator |-> sl.initiator,
                  joins |-> number, peers |-> peers, maxPeers |-> sl.maxPeers,
                  everFull |-> new.everFull]
    BY <1>2, <1>3 DEF IsSlot
  <2>3. PeerNumbers(new) \subseteq 1..new.joins
    BY <1>1, <1>3, <1>4
  <2>4. sl.code \in Codes /\ sl.initiator \in Conns /\ number \in Nat
    BY <1>1 DEF IsSlot
  <2>5. new \in [code : Codes, state : States, initiator : Conns, joins : Nat,
                 peers : [PeerNumbers(new) -> Conns], maxPeers : Nat,
                 everFull : BOOLEAN]
    <3> HIDE DEF new, peers, number
    <3> QED BY <1>1, <1>4, <2>1, <2>2, <2>4
  <2> QED BY <2>3, <2>5 DEF IsSlot
<1>9. Shape(new)
  <2>1. ConnectedCount(sl) \in Nat /\ ConnectedCount(sl) < sl.maxPeers
    BY SlotCounts DEF CanJoin
  <2>2. ~ sl.everFull /\ PeerNumbers(new) # {} /\ sl.maxPeers \in 2..MaxAllowedPeers
    BY <1>4 DEF CanJoin, Shape
  <2>3. CASE full
    <3>1. new.everFull /\ new.state = "full"
      BY <1>3, <2>3
    <3> HIDE DEF new, full
    <3> QED BY <1>1, <1>3, <1>6, <2>1, <2>2, <3>1 DEF Shape
  <2>4. CASE ~ full
    <3>1. ~ new.everFull /\ new.state = "active"
      BY <1>3, <2>2, <2>4
    <3>2. ~ (ConnectedCount(new) >= sl.maxPeers)
      BY <1>7, <2>4
    <3> HIDE DEF new, full
    <3> QED BY <1>1, <1>3, <1>6, <2>1, <2>2, <3>1, <3>2 DEF Shape
  <2> QED BY <2>3, <2>4
<1>10. \A d : IsMember(new, d) => d = c \/ IsMember(sl, d)
  BY <1>3, <1>4 DEF IsMember, IsInitiator, HasPeer
<1> QED BY <1>3, <1>8, <1>9, <1>10

\* A removal drops every entry of one peer and keeps the slot well-formed.
LEMMA RemoveSlot ==
  ASSUME NEW sl, IsSlot(sl), Shape(sl), NEW c \in Conns
  PROVE  /\ IsSlot(RemovePeer(sl, c))
         /\ Shape(RemovePeer(sl, c))
         /\ RemovePeer(sl, c).code = sl.code
         /\ RemovePeer(sl, c).initiator = sl.initiator
         /\ RemovePeer(sl, c).everFull = sl.everFull
         /\ PeerNumbers(RemovePeer(sl, c)) \subseteq PeerNumbers(sl)
         /\ \A d : HasPeer(RemovePeer(sl, c), d) => d # c /\ HasPeer(sl, d)
<1> DEFINE kept  == {n \in PeerNumbers(sl) : sl.peers[n] # c}
           peers == [n \in kept |-> sl.peers[n]]
           state == IF ~ sl.everFull /\ 1 + Cardinality(kept) < sl.maxPeers
                      THEN IF kept = {} THEN "waiting" ELSE "active"
                      ELSE sl.state
           new   == RemovePeer(sl, c)
<1>1. /\ sl.joins \in Nat /\ sl.maxPeers \in Nat
      /\ PeerNumbers(sl) \subseteq 1..sl.joins
      /\ sl.peers \in [PeerNumbers(sl) -> Conns]
      /\ sl.everFull \in BOOLEAN
  BY DEF IsSlot
<1>2. new = [sl EXCEPT !.peers = peers, !.state = state]
  BY DEF RemovePeer
<1>3. /\ new.joins = sl.joins /\ new.peers = peers /\ new.state = state
      /\ new.everFull = sl.everFull
      /\ new.code = sl.code /\ new.initiator = sl.initiator
      /\ new.maxPeers = sl.maxPeers
  BY <1>2 DEF IsSlot
<1>4. PeerNumbers(new) = kept /\ peers \in [kept -> Conns]
  BY <1>1, <1>3 DEF PeerNumbers
<1>5. kept \in SUBSET PeerNumbers(sl)
  OBVIOUS
<1>6. /\ IsFiniteSet(PeerNumbers(sl)) /\ Cardinality(PeerNumbers(sl)) \in Nat
      /\ IsFiniteSet(kept) /\ Cardinality(kept) \in Nat
      /\ Cardinality(kept) <= Cardinality(PeerNumbers(sl))
      /\ Cardinality(kept) = Cardinality(PeerNumbers(sl)) => kept = PeerNumbers(sl)
  <2>1. IsFiniteSet(PeerNumbers(sl)) /\ Cardinality(PeerNumbers(sl)) \in Nat
    BY SlotCounts
  <2> QED BY <1>5, <2>1, FS_Subset, FS_CardinalityType
<1>7. state \in States
  BY DEF IsSlot, States
<1>8. IsSlot(new)
  BY <1>1, <1>2, <1>3, <1>4, <1>5, <1>7 DEF IsSlot
<1>9. ConnectedCount(new) = 1 + Cardinality(kept)
  BY <1>4 DEF ConnectedCount
<1>10. Shape(new)
  BY <1>1, <1>3, <1>4, <1>6, <1>9 DEF Shape, ConnectedCount
<1>11. \A d : HasPeer(new, d) => d # c /\ HasPeer(sl, d)
  BY <1>3, <1>4 DEF HasPeer
<1> QED BY <1>3, <1>4, <1>5, <1>8, <1>10, <1>11

-----------------------------------------------------------------------------
(* Outbound queues.                                                        *)

\* r holds what q held, less what was dropped, and otherwise only frames the
\* broker wrote itself.
NoNewRelay(q, r) ==
  \A d \in Conns : \A i \in DOMAIN r[d] :
    (i \in DOMAIN q[d] /\ r[d][i] = q[d][i]) \/ r[d][i].type # "relay"

\* enqueue keeps the old frames in place, respects the buffer and adds only
\* copies of the new frame.
LEMMA FillQueue ==
  ASSUME NEW q \in Seq(Frame), Len(q) <= SendBufSize, NEW f \in Frame, NEW n \in Nat
  PROVE  /\ Fill(q, f, n) \in Seq(Frame)
         /\ Len(Fill(q, f, n)) <= SendBufSize
         /\ \A i \in DOMAIN Fill(q, f, n) :
              (i \in DOMAIN q /\ Fill(q, f, n)[i] = q[i]) \/ Fill(q, f, n)[i] = f
<1> DEFINE room == SendBufSize - Len(q)
           m    == IF n < room THEN n ELSE room
           tail == [i \in 1..m |-> f]
<1>1. SendBufSize \in Nat /\ Len(q) \in Nat
  BY BrokerConstants
<1>2. m \in Nat /\ m <= SendBufSize - Len(q)
  BY <1>1
<1>3. tail \in Seq(Frame) /\ Len(tail) = m /\ \A i \in 1..m : tail[i] = f
  BY <1>2
<1>4. Fill(q, f, n) = q \o tail
  BY DEF Fill
<1> HIDE DEF m, tail
<1>5. /\ q \o tail \in Seq(Frame)
      /\ Len(q \o tail) = Len(q) + m
      /\ \A i \in 1..(Len(q) + m) :
           (q \o tail)[i] = IF i <= Len(q) THEN q[i] ELSE tail[i - Len(q)]
  BY <1>1, <1>2, <1>3
<1>6. DOMAIN (q \o tail) = 1..(Len(q) + m) /\ DOMAIN q = 1..Len(q)
  BY <1>1, <1>2, <1>5
<1>7. ASSUME NEW i \in 1..(Len(q) + m)
      PROVE  (i \in 1..Len(q) /\ (q \o tail)[i] = q[i]) \/ (q \o tail)[i] = f
  <2>1. CASE i <= Len(q)
    BY <1>1, <1>2, <1>5, <2>1
  <2>2. CASE ~ (i <= Len(q))
    <3>1. i - Len(q) \in 1..m
      BY <1>1, <1>2, <2>2
    <3> QED BY <1>3, <1>5, <2>2, <3>1
  <2> QED BY <2>1, <2>2
<1> QED BY <1>1, <1>2, <1>4, <1>5, <1>6, <1>7

\* One broker frame to one connection.
LEMMA ToQueue ==
  ASSUME NEW q, QueuesOK(q), NEW c \in Conns, NEW type \in HubTypes
  PROVE  QueuesOK(To(q, c, type)) /\ NoNewRelay(q, To(q, c, type))
<1> DEFINE f == [type |-> type, from |-> Hub]
           r == To(q, c, type)
<1>1. f \in Frame /\ f.type # "relay"
  BY DEF Frame, HubTypes
<1>2. q[c] \in Seq(Frame) /\ Len(q[c]) <= SendBufSize
  BY DEF QueuesOK
<1>3. r = [q EXCEPT ![c] = Fill(q[c], f, 1)]
  BY DEF To
<1> HIDE DEF f
<1>4. /\ Fill(q[c], f, 1) \in Seq(Frame) /\ Len(Fill(q[c], f, 1)) <= SendBufSize
      /\ \A i \in DOMAIN Fill(q[c], f, 1) :
           (i \in DOMAIN q[c] /\ Fill(q[c], f, 1)[i] = q[c][i]) \/ Fill(q[c], f, 1)[i] = f
  BY <1>1, <1>2, FillQueue
<1>5. r[c] = Fill(q[c], f, 1) /\ \A d \in Conns : d # c => r[d] = q[d]
  BY <1>3 DEF QueuesOK
<1>6. QueuesOK(r)
  BY <1>3, <1>4, <1>5 DEF QueuesOK
<1>7. NoNewRelay(q, r)
  BY <1>1, <1>4, <1>5 DEF NoNewRelay
<1> QED BY <1>6, <1>7

\* One broker frame to the members of a slot.
LEMMA ToMembersQueue ==
  ASSUME NEW q, QueuesOK(q), NEW sl, IsSlot(sl), NEW c, NEW to,
         NEW type \in HubTypes
  PROVE  QueuesOK(ToMembers(q, sl, c, to, type)) /\ NoNewRelay(q, ToMembers(q, sl, c, to, type))
<1> DEFINE f == [type |-> type, from |-> Hub]
           n(d) == IF d \in conns \cap to THEN OtherMembers(sl, c, d) ELSE 0
           r == ToMembers(q, sl, c, to, type)
<1>1. f \in Frame /\ f.type # "relay"
  BY DEF Frame, HubTypes
<1>2. \A d \in Conns : n(d) \in Nat
  BY SlotCounts
<1>3. r = [d \in Conns |-> Fill(q[d], f, n(d))]
  BY DEF ToMembers
<1> HIDE DEF f, n, r
<1>4. ASSUME NEW d \in Conns
      PROVE  /\ r[d] \in Seq(Frame) /\ Len(r[d]) <= SendBufSize
             /\ \A i \in DOMAIN r[d] :
                  (i \in DOMAIN q[d] /\ r[d][i] = q[d][i]) \/ r[d][i] = f
  <2>1. q[d] \in Seq(Frame) /\ Len(q[d]) <= SendBufSize
    BY DEF QueuesOK
  <2>2. r[d] = Fill(q[d], f, n(d))
    BY <1>3
  <2> QED BY <1>1, <1>2, <2>1, <2>2, FillQueue
<1>5. QueuesOK(r)
  BY <1>3, <1>4 DEF QueuesOK
<1>6. NoNewRelay(q, r)
  BY <1>1, <1>4 DEF NoNewRelay
<1> QED BY <1>5, <1>6 DEF r

\* NoNewRelay is transitive.
LEMMA NoNewRelayTrans ==
  ASSUME NEW p, NEW q, NEW r, NoNewRelay(p, q), NoNewRelay(q, r)
  PROVE  NoNewRelay(p, r)
BY DEF NoNewRelay

\* The frames of a successful join.
LEMMA NotifyQueue ==
  ASSUME QueuesOK(send), NEW sl, IsSlot(sl), NEW c \in Conns, NEW now
  PROVE  /\ QueuesOK(notifyJoinedPeers(c, sl, now))
         /\ NoNewRelay(send, notifyJoinedPeers(c, sl, now))
<1> DEFINE a == To(send, c, "slot.ready")
           b == To(a, sl.initiator, "peer.joined")
           e == ToMembers(b, sl, c, Conns \ {sl.initiator}, "peer.joined")
           g == To(e, sl.initiator, "slot.ready")
<1>1. sl.initiator \in Conns
  BY DEF IsSlot
<1>2. {"slot.ready", "peer.joined"} \subseteq HubTypes
  BY DEF HubTypes
<1>3. QueuesOK(a) /\ NoNewRelay(send, a)
  BY <1>2, ToQueue
<1> HIDE DEF a
<1>4. QueuesOK(b) /\ NoNewRelay(send, b)
  BY <1>1, <1>2, <1>3, ToQueue, NoNewRelayTrans
<1> HIDE DEF b
<1>5. QueuesOK(e) /\ NoNewRelay(send, e)
  BY <1>2, <1>4, ToMembersQueue, NoNewRelayTrans
<1> HIDE DEF e
<1>6. QueuesOK(g) /\ NoNewRelay(send, g)
  BY <1>1, <1>2, <1>5, ToQueue, NoNewRelayTrans
<1> HIDE DEF g
<1>7. notifyJoinedPeers(c, sl, now) = IF Cardinality(PeerNumbers(now)) = 1 THEN g ELSE e
  BY DEF notifyJoinedPeers, a, b, e, g
<1> QED BY <1>5, <1>6, <1>7

-----------------------------------------------------------------------------
(* The store.                                                              *)

StoreInv == StoreTypes /\ CodeIndex /\ SlotShape

\* What FullIsForever says of one step.
FullStep ==
  \A id \in DOMAIN slots :
    (slots[id].state = "full" /\ id \in DOMAIN slots')
      => /\ slots'[id].state = "full"
         /\ PeerNumbers(slots'[id]) \subseteq PeerNumbers(slots[id])

\* A step that changes no membership.
LEMMA SameStore ==
  ASSUME StoreInv, UNCHANGED storeVars
  PROVE  StoreInv' /\ FullStep
BY DEF StoreInv, StoreTypes, storeVars, FullStep, CodeIndex, SlotShape

\* Storing a new slot under a fresh id and a free code keeps the store sound
\* (MemStore.Create as createSlot calls it).
LEMMA CreateStore ==
  ASSUME StoreInv, NEW code \in Codes, NEW c \in Conns, NEW max \in Int,
         Create(issued + 1, New(code, c, max))
  PROVE  /\ StoreInv' /\ FullStep
         /\ DOMAIN slots' = DOMAIN slots \cup {issued + 1}
         /\ slots'[issued + 1] = New(code, c, max)
         /\ \A id \in DOMAIN slots : slots'[id] = slots[id]
<1> DEFINE sl == New(code, c, max)
           new == issued + 1
<1>1. IsSlot(sl) /\ Shape(sl) /\ sl.code = code
  BY NewSlot
<1>2. new \in Nat /\ new \notin DOMAIN slots /\ 1..issued \cup {new} \subseteq 1..new
  BY DEF StoreInv, StoreTypes
<1> HIDE DEF sl
<1>3. /\ sl.code \notin DOMAIN codes
      /\ slots' = Put(slots, new, sl)
      /\ codes' = Put(codes, sl.code, new)
      /\ issued' = new
      /\ expired' = expired
  BY DEF Create, sl
<1> HIDE DEF new
<1>4. /\ DOMAIN slots' = DOMAIN slots \cup {new}
      /\ slots'[new] = sl
      /\ \A id \in DOMAIN slots : slots'[id] = slots[id]
  BY <1>2, <1>3 DEF Put
<1>5. /\ DOMAIN codes' = DOMAIN codes \cup {code}
      /\ codes'[code] = new
      /\ \A k \in DOMAIN codes : codes'[k] = codes[k]
  BY <1>1, <1>3 DEF Put
<1>6. StoreInv'
  <2>1. /\ issued' \in Nat
        /\ DOMAIN slots' \subseteq 1..issued'
        /\ \A id \in DOMAIN slots' : IsSlot(slots'[id])
        /\ DOMAIN codes' \subseteq Codes
        /\ expired' \subseteq DOMAIN slots'
    BY <1>1, <1>2, <1>3, <1>4, <1>5 DEF StoreInv, StoreTypes
  <2>2. CodeIndex'
    BY <1>1, <1>2, <1>3, <1>4, <1>5 DEF StoreInv, StoreTypes, CodeIndex
  <2>3. SlotShape'
    BY <1>1, <1>4 DEF StoreInv, StoreTypes, SlotShape
  <2> QED BY <2>1, <2>2, <2>3 DEF StoreInv, StoreTypes
<1>7. FullStep
  BY <1>4 DEF FullStep
<1> QED BY <1>4, <1>6, <1>7 DEF sl, new

\* Rewriting a slot that keeps its code keeps the store sound (MemStore.Update).
LEMMA UpdateStore ==
  ASSUME StoreInv, NEW id \in DOMAIN slots, NEW sl, IsSlot(sl), Shape(sl),
         sl.code = slots[id].code, Update(id, sl)
  PROVE  /\ StoreInv'
         /\ DOMAIN slots' = DOMAIN slots
         /\ slots'[id] = sl
         /\ \A j \in DOMAIN slots : j # id => slots'[j] = slots[j]
<1>1. /\ DOMAIN slots' = DOMAIN slots
      /\ slots'[id] = sl
      /\ \A j \in DOMAIN slots : j # id => slots'[j] = slots[j]
      /\ codes' = codes /\ issued' = issued /\ expired' = expired
  BY DEF Update, Put
<1>2. CodeIndex'
  BY <1>1 DEF StoreInv, StoreTypes, CodeIndex
<1>3. SlotShape'
  BY <1>1 DEF StoreInv, StoreTypes, SlotShape
<1>4. \A j \in DOMAIN slots' : IsSlot(slots'[j])
  BY <1>1 DEF StoreInv, StoreTypes
<1> QED BY <1>1, <1>2, <1>3, <1>4 DEF StoreInv, StoreTypes

\* Removing a slot removes its code too and leaves the rest (MemStore.Delete).
LEMMA DeleteStore ==
  ASSUME StoreInv, NEW id \in DOMAIN slots, Delete(id)
  PROVE  /\ StoreInv' /\ FullStep
         /\ DOMAIN slots' = DOMAIN slots \ {id}
         /\ \A j \in DOMAIN slots' : slots'[j] = slots[j]
<1>1. /\ DOMAIN slots' = DOMAIN slots \ {id}
      /\ \A j \in DOMAIN slots' : slots'[j] = slots[j]
      /\ DOMAIN codes' = DOMAIN codes \ {slots[id].code}
      /\ \A k \in DOMAIN codes' : codes'[k] = codes[k]
      /\ issued' = issued /\ expired' = expired \ {id}
  BY DEF Delete, Drop
<1>2. CodeIndex'
  BY <1>1 DEF StoreInv, StoreTypes, CodeIndex
<1>3. SlotShape'
  BY <1>1 DEF StoreInv, StoreTypes, SlotShape
<1>4. \A j \in DOMAIN slots' : IsSlot(slots'[j])
  BY <1>1 DEF StoreInv, StoreTypes
<1>5. FullStep
  BY <1>1 DEF FullStep
<1> QED BY <1>1, <1>2, <1>3, <1>4, <1>5 DEF StoreInv, StoreTypes

-----------------------------------------------------------------------------
(* The handlers.  Each lemma says what a handler may do to the state the   *)
(* invariants are about; the invariance proofs below use nothing else.     *)

\* Every member of a slot was one before, unless it is c, which then belongs
\* to that slot; if c had been torn down, its answer has crashed the process.
OnlyJoins(c) ==
  \A id \in DOMAIN slots' : \A d :
    IsMember(slots'[id], d)
      => \/ id \in DOMAIN slots /\ IsMember(slots[id], d)
         \/ d = c /\ slotID'[c] = id /\ (c \in closed => crashed')

\* A new relay frame comes from c and reaches a member of c's slot.
OnlyRelays(c) ==
  \A d \in Conns : \A i \in DOMAIN send'[d] :
    \/ i \in DOMAIN send[d] /\ send'[d][i] = send[d][i]
    \/ send'[d][i].type # "relay"
    \/ /\ send'[d][i].from = c
       /\ slotID[c] \in DOMAIN slots
       /\ IsMember(slots[slotID[c]], d)

\* Everything that handling a message of c may do.
Handled(c, m) ==
  /\ StoreInv' /\ FullStep /\ QueuesOK(send')
  /\ OnlyJoins(c) /\ OnlyRelays(c)
  /\ slotID' \in [Conns -> Nat]
  /\ failedJoins' \in [Conns -> Nat]
  /\ deadline' \in [Conns -> {"live", "expired"}]
  /\ crashed' \in BOOLEAN
  /\ \A d \in Conns : d # c => slotID'[d] = slotID[d]
  /\ slotID' # slotID => IsRequest(m)

HandlerHypothesis ==
  /\ StoreInv /\ QueuesOK(send) /\ crashed = FALSE
  /\ slotID \in [Conns -> Nat]
  /\ failedJoins \in [Conns -> Nat]
  /\ deadline \in [Conns -> {"live", "expired"}]

\* A handler that leaves the slots alone adds no member.
LEMMA SameMembers ==
  ASSUME NEW c, UNCHANGED slots
  PROVE  OnlyJoins(c)
BY DEF OnlyJoins

\* A handler that queues no relayed frame respects the relay rule.
LEMMA NoRelays ==
  ASSUME NEW c, NoNewRelay(send, send')
  PROVE  OnlyRelays(c)
BY DEF OnlyRelays, NoNewRelay

\* An answer is at most one hub frame, or a panic on a closed channel (sendEnvelope).
LEMMA ReplyQueue ==
  ASSUME NEW c \in Conns, NEW type \in HubTypes, QueuesOK(send),
         Reply(c, type)
  PROVE  /\ QueuesOK(send') /\ OnlyRelays(c)
         /\ crashed' = (c \in closed) /\ crashed' \in BOOLEAN
<1>1. crashed' = (c \in closed) /\ crashed' \in BOOLEAN
  BY DEF Reply
<1>2. CASE c \in closed
  <2>1. send' = send
    BY <1>2 DEF Reply
  <2> QED BY <1>1, <2>1 DEF OnlyRelays
<1>3. CASE c \notin closed
  <2>1. send' = To(send, c, type)
    BY <1>3 DEF Reply
  <2>2. QueuesOK(send') /\ NoNewRelay(send, send')
    BY <2>1, ToQueue
  <2> QED BY <1>1, <2>2, NoRelays
<1> QED BY <1>2, <1>3

\* A handler that only answers its connection.
LEMMA HandledReply ==
  ASSUME NEW c \in Conns, NEW m, HandlerHypothesis, Reply(c, "error"),
         UNCHANGED <<connVars, deadline, storeVars>>
  PROVE  Handled(c, m)
<1>1. "error" \in HubTypes
  BY DEF HubTypes
<1>2. QueuesOK(send') /\ OnlyRelays(c) /\ crashed' \in BOOLEAN
  BY <1>1, ReplyQueue DEF HandlerHypothesis
<1>3. StoreInv' /\ FullStep /\ OnlyJoins(c)
  BY SameStore, SameMembers DEF HandlerHypothesis, storeVars
<1>4. slotID' = slotID /\ failedJoins' = failedJoins /\ deadline' = deadline
  BY DEF connVars
<1> QED BY <1>2, <1>3, <1>4 DEF Handled, HandlerHypothesis

\* slot.create: handleSlotCreate meets the common contract.
LEMMA HandledCreate ==
  ASSUME NEW c \in Conns, NEW m \in Envelope, m.type = "slot.create",
         HandlerHypothesis, handleSlotCreate(c, m)
  PROVE  Handled(c, m)
<1>1. m.max \in Int
  BY DEF Envelope
<1>2. CASE /\ Reply(c, "error")
           /\ UNCHANGED <<connVars, deadline, storeVars>>
  BY <1>2, HandledReply
<1>3. ASSUME NEW code \in Codes, Create(issued + 1, New(code, c, m.max)),
             slotID' = [slotID EXCEPT ![c] = issued + 1],
             Reply(c, "slot.created"),
             UNCHANGED <<failedJoins, deadline>>
      PROVE  Handled(c, m)
  <2>1. "slot.created" \in HubTypes
    BY DEF HubTypes
  <2>2. QueuesOK(send') /\ OnlyRelays(c) /\ crashed' = (c \in closed) /\ crashed' \in BOOLEAN
    BY <1>3, <2>1, ReplyQueue DEF HandlerHypothesis
  <2>3. /\ StoreInv' /\ FullStep
        /\ DOMAIN slots' = DOMAIN slots \cup {issued + 1}
        /\ slots'[issued + 1] = New(code, c, m.max)
        /\ \A id \in DOMAIN slots : slots'[id] = slots[id]
    BY <1>1, <1>3, CreateStore DEF HandlerHypothesis
  <2>4. /\ slotID' \in [Conns -> Nat] /\ slotID'[c] = issued + 1
        /\ \A d \in Conns : d # c => slotID'[d] = slotID[d]
    BY <1>3 DEF HandlerHypothesis, StoreInv, StoreTypes
  <2>5. \A d : IsMember(New(code, c, m.max), d) => d = c
    BY <1>1, NewSlot DEF IsMember, IsInitiator, HasPeer
  <2>6. OnlyJoins(c)
    BY <2>2, <2>3, <2>4, <2>5, ZenonT(40) DEF OnlyJoins
  <2>7. IsRequest(m)
    BY DEF IsRequest
  <2> QED BY <1>3, <2>2, <2>3, <2>4, <2>6, <2>7 DEF Handled, HandlerHypothesis
<1> QED BY <1>2, <1>3 DEF handleSlotCreate

\* A rejected slot.join: recordFailedJoin meets the common contract.
LEMMA HandledFailedJoin ==
  ASSUME NEW c \in Conns, NEW m, HandlerHypothesis, recordFailedJoin(c)
  PROVE  Handled(c, m)
<1> DEFINE one == To(send, c, "error")
           two == To(one, c, "error")
<1>1. "error" \in HubTypes
  BY DEF HubTypes
<1>2. QueuesOK(one) /\ NoNewRelay(send, one)
  BY <1>1, ToQueue DEF HandlerHypothesis
<1> HIDE DEF one
<1>3. QueuesOK(two) /\ NoNewRelay(send, two)
  BY <1>1, <1>2, ToQueue, NoNewRelayTrans
<1> HIDE DEF two
<1>4. send' \in {send, one, two}
  BY DEF recordFailedJoin, one, two
<1>5. QueuesOK(send') /\ OnlyRelays(c)
  <2>1. NoNewRelay(send, send)
    BY DEF NoNewRelay
  <2>2. QueuesOK(send') /\ NoNewRelay(send, send')
    BY <1>2, <1>3, <1>4, <2>1 DEF HandlerHypothesis
  <2> QED BY <2>2, NoRelays
<1>6. StoreInv' /\ FullStep /\ OnlyJoins(c)
  BY SameStore, SameMembers DEF HandlerHypothesis, recordFailedJoin, storeVars
<1>7. /\ slotID' = slotID
      /\ failedJoins' \in [Conns -> Nat]
      /\ deadline' \in [Conns -> {"live", "expired"}]
      /\ crashed' \in BOOLEAN
  BY DEF recordFailedJoin, HandlerHypothesis
<1> QED BY <1>5, <1>6, <1>7 DEF Handled, HandlerHypothesis

\* A slot is deleted and the connection that asked gets an error.
LEMMA HandledDelete ==
  ASSUME NEW c \in Conns, NEW m, HandlerHypothesis, NEW id \in DOMAIN slots,
         Delete(id), Reply(c, "error"), UNCHANGED <<failedJoins, deadline>>,
         \/ slotID' = slotID
         \/ IsRequest(m) /\ slotID' = [slotID EXCEPT ![c] = id]
  PROVE  Handled(c, m)
<1>1. "error" \in HubTypes
  BY DEF HubTypes
<1>2. QueuesOK(send') /\ OnlyRelays(c) /\ crashed' = (c \in closed) /\ crashed' \in BOOLEAN
  BY <1>1, ReplyQueue DEF HandlerHypothesis
<1>3. /\ StoreInv' /\ FullStep
      /\ DOMAIN slots' = DOMAIN slots \ {id}
      /\ \A j \in DOMAIN slots' : slots'[j] = slots[j]
  BY DeleteStore DEF HandlerHypothesis
<1>4. OnlyJoins(c)
  BY <1>3 DEF OnlyJoins
<1>5. id \in Nat
  BY DEF HandlerHypothesis, StoreInv, StoreTypes
<1> QED BY <1>2, <1>3, <1>4, <1>5 DEF Handled, HandlerHypothesis

\* slot.join: every outcome of handleSlotJoin meets the common contract.
LEMMA HandledJoin ==
  ASSUME NEW c \in Conns, NEW m \in Envelope, m.type = "slot.join",
         HandlerHypothesis, handleSlotJoin(c, m)
  PROVE  Handled(c, m)
<1> DEFINE id  == codes[m.code]
           sl  == slots[id]
           now == Join(sl, c)
<1>1. CASE m.code \notin DOMAIN codes
  BY <1>1, HandledFailedJoin DEF handleSlotJoin
<1>2. CASE m.code \in DOMAIN codes
  <2>1. id \in DOMAIN slots /\ id \in Nat /\ IsSlot(sl) /\ Shape(sl)
    BY <1>2 DEF HandlerHypothesis, StoreInv, StoreTypes, CodeIndex, SlotShape
  <2>2. IsRequest(m)
    BY DEF IsRequest
  <2>3. UNCHANGED <<failedJoins, deadline>>
    BY <1>2 DEF handleSlotJoin
  <2>4. \/ Delete(id) /\ Reply(c, "error") /\ slotID' = slotID
        \/ Reply(c, "error") /\ UNCHANGED <<slotID, storeVars>>
        \/ /\ CanJoin(sl) /\ slotID' = [slotID EXCEPT ![c] = id]
           /\ Delete(id) /\ Reply(c, "error")
        \/ /\ CanJoin(sl) /\ slotID' = [slotID EXCEPT ![c] = id]
           /\ Update(id, now)
           /\ crashed' = (c \in closed)
           /\ send' = IF c \in closed THEN send ELSE notifyJoinedPeers(c, sl, now)
    BY <1>2 DEF handleSlotJoin
  <2>5. CASE Delete(id) /\ Reply(c, "error") /\ slotID' = slotID
    BY <2>1, <2>3, <2>5, HandledDelete
  <2>6. CASE Reply(c, "error") /\ UNCHANGED <<slotID, storeVars>>
    BY <2>3, <2>6, HandledReply DEF connVars
  <2>7. CASE /\ slotID' = [slotID EXCEPT ![c] = id]
             /\ Delete(id) /\ Reply(c, "error")
    BY <2>1, <2>2, <2>3, <2>7, HandledDelete
  <2>8. CASE /\ CanJoin(sl) /\ slotID' = [slotID EXCEPT ![c] = id]
             /\ Update(id, now)
             /\ crashed' = (c \in closed)
             /\ send' = IF c \in closed THEN send ELSE notifyJoinedPeers(c, sl, now)
    <3>1. /\ IsSlot(now) /\ Shape(now) /\ now.code = sl.code
          /\ \A d : IsMember(now, d) => d = c \/ IsMember(sl, d)
      BY <2>1, <2>8, JoinSlot
    <3> HIDE DEF now
    <3>2. /\ StoreInv' /\ DOMAIN slots' = DOMAIN slots /\ slots'[id] = now
          /\ \A j \in DOMAIN slots : j # id => slots'[j] = slots[j]
      BY <2>1, <2>8, <3>1, UpdateStore DEF HandlerHypothesis
    <3>3. sl.state # "full"
      BY <2>8 DEF CanJoin
    <3>4. FullStep
      BY <3>2, <3>3 DEF FullStep
    <3>5. /\ slotID' \in [Conns -> Nat] /\ slotID'[c] = id
          /\ \A d \in Conns : d # c => slotID'[d] = slotID[d]
      BY <2>1, <2>8 DEF HandlerHypothesis
    <3>6. OnlyJoins(c)
      BY <2>8, <3>1, <3>2, <3>5 DEF OnlyJoins
    <3>7. QueuesOK(send') /\ NoNewRelay(send, send')
      <4>1. NoNewRelay(send, send)
        BY DEF NoNewRelay
      <4> QED BY <2>1, <2>8, <4>1, NotifyQueue DEF HandlerHypothesis
    <3>8. crashed' \in BOOLEAN
      BY <2>8
    <3>9. OnlyRelays(c)
      BY <3>7, NoRelays
    <3> QED BY <2>2, <2>3, <2>8, <3>2, <3>4, <3>5, <3>6, <3>7, <3>8, <3>9
            DEF Handled, HandlerHypothesis
  <2> QED BY <2>4, <2>5, <2>6, <2>7, <2>8
<1> QED BY <1>1, <1>2

\* A nonempty set of join numbers has a least one: sl.PeerIDs[0] exists.
LEMMA LeastNumber ==
  ASSUME NEW S \in SUBSET Nat, S # {}
  PROVE  \E n \in S : \A k \in S : n <= k
<1>1. PICK n \in S : \A k \in S : ~ (<<k, n>> \in OpToRel(<, Nat))
  BY NatLessThanWellFounded, WFMin
<1>2. \A k \in S : ~ (k < n)
  BY <1>1 DEF OpToRel
<1> QED BY <1>2

\* relay picks its target among the members of the sender's slot.
LEMMA TargetsAreMembers ==
  ASSUME NEW sl, IsSlot(sl), NEW c, NEW m \in Envelope, m.type \in {"targeted", "opaque"}
  PROVE  \A d \in RelayTargets(c, m, sl) : IsMember(sl, d)
<1>1. CASE m.type = "targeted"
  BY <1>1 DEF RelayTargets
<1>2. CASE m.type = "opaque" /\ ~ IsInitiator(sl, c)
  BY <1>2 DEF RelayTargets, IsMember, IsInitiator
<1>3. CASE m.type = "opaque" /\ IsInitiator(sl, c) /\ PeerNumbers(sl) = {}
  BY <1>3 DEF RelayTargets
<1>4. CASE m.type = "opaque" /\ IsInitiator(sl, c) /\ PeerNumbers(sl) # {}
  <2>1. RelayTargets(c, m, sl) = {FirstPeer(sl)}
    BY <1>4 DEF RelayTargets
  <2>2. PeerNumbers(sl) \in SUBSET Nat
    BY DEF IsSlot
  <2>3. \E n \in PeerNumbers(sl) : \A k \in PeerNumbers(sl) : n <= k
    BY <1>4, <2>2, LeastNumber
  <2>4. HasPeer(sl, FirstPeer(sl))
    BY <2>3 DEF FirstPeer, HasPeer
  <2> QED BY <2>1, <2>4 DEF IsMember
<1> QED BY <1>1, <1>2, <1>3, <1>4

\* A relayed envelope: relay meets the common contract.
LEMMA HandledRelay ==
  ASSUME NEW c \in Conns, NEW m \in Envelope, m.type \in {"targeted", "opaque"},
         HandlerHypothesis, relay(c, m)
  PROVE  Handled(c, m)
<1> DEFINE sl == slots[slotID[c]]
           to == RelayTargets(c, m, sl) \cap conns
           f  == [type |-> "relay", from |-> c]
<1>1. UNCHANGED <<connVars, deadline, storeVars>>
  BY DEF relay
<1>2. CASE Reply(c, "error")
  BY <1>1, <1>2, HandledReply
<1>3. CASE /\ slotID[c] \in DOMAIN slots
           /\ send' = [d \in Conns |-> IF d \in to THEN Fill(send[d], f, 1) ELSE send[d]]
           /\ UNCHANGED crashed
  <2>1. f \in Frame /\ f.from = c
    BY DEF Frame
  <2>2. \A d \in to : IsMember(sl, d)
    BY <1>3, TargetsAreMembers DEF HandlerHypothesis, StoreInv, StoreTypes
  <2> HIDE DEF f, to
  <2>3. ASSUME NEW d \in Conns
        PROVE  /\ send'[d] \in Seq(Frame) /\ Len(send'[d]) <= SendBufSize
               /\ \A i \in DOMAIN send'[d] :
                    \/ i \in DOMAIN send[d] /\ send'[d][i] = send[d][i]
                    \/ send'[d][i] = f /\ d \in to
    <3>1. send[d] \in Seq(Frame) /\ Len(send[d]) <= SendBufSize
      BY DEF HandlerHypothesis, QueuesOK
    <3>2. CASE d \in to
      <4>1. send'[d] = Fill(send[d], f, 1)
        BY <1>3, <3>2
      <4> QED BY <2>1, <3>1, <3>2, <4>1, FillQueue
    <3>3. CASE d \notin to
      BY <1>3, <3>1, <3>3
    <3> QED BY <3>2, <3>3
  <2>4. QueuesOK(send')
    BY <1>3, <2>3 DEF QueuesOK
  <2>5. OnlyRelays(c)
    BY <1>3, <2>1, <2>2, <2>3 DEF OnlyRelays
  <2>6. StoreInv' /\ FullStep /\ OnlyJoins(c)
    BY <1>1, SameStore, SameMembers DEF HandlerHypothesis, storeVars
  <2> QED BY <1>1, <1>3, <2>4, <2>5, <2>6 DEF Handled, HandlerHypothesis, connVars
<1> QED BY <1>2, <1>3 DEF relay

\* Leaving a slot removes the leaver from it, or the whole slot.
LEMMA LeaveEffect ==
  ASSUME NEW c \in Conns, NEW type \in HubTypes, StoreInv, QueuesOK(send),
         slotID[c] \in DOMAIN slots, LeaveSlot(c, slots[slotID[c]], type)
  PROVE  /\ StoreInv' /\ FullStep /\ QueuesOK(send') /\ OnlyRelays(c)
         /\ \A id \in DOMAIN slots' : \A d :
              IsMember(slots'[id], d)
                => /\ id \in DOMAIN slots /\ IsMember(slots[id], d)
                   /\ ~ (d = c /\ id = slotID[c])
<1> DEFINE id   == slotID[c]
           sl   == slots[id]
           left == RemovePeer(sl, c)
<1>1. IsSlot(sl) /\ Shape(sl)
  BY DEF StoreInv, StoreTypes, SlotShape
<1>2. /\ IsSlot(left) /\ Shape(left) /\ left.code = sl.code
      /\ left.initiator = sl.initiator /\ left.everFull = sl.everFull
      /\ PeerNumbers(left) \subseteq PeerNumbers(sl)
      /\ \A d : HasPeer(left, d) => d # c /\ HasPeer(sl, d)
  BY <1>1, RemoveSlot
<1>3. /\ send' = ToMembers(send, left, c, Conns, type)
      /\ IF IsInitiator(sl, c) THEN Delete(id) ELSE Update(id, left)
  BY DEF LeaveSlot
<1> HIDE DEF left
<1>4. QueuesOK(send') /\ NoNewRelay(send, send')
  BY <1>2, <1>3, ToMembersQueue
<1>5. OnlyRelays(c)
  BY <1>4, NoRelays
<1>6. CASE IsInitiator(sl, c)
  <2>1. /\ StoreInv' /\ FullStep
        /\ DOMAIN slots' = DOMAIN slots \ {id}
        /\ \A j \in DOMAIN slots' : slots'[j] = slots[j]
    BY <1>3, <1>6, DeleteStore
  <2> QED BY <1>4, <1>5, <2>1
<1>7. CASE ~ IsInitiator(sl, c)
  <2>1. /\ StoreInv' /\ DOMAIN slots' = DOMAIN slots /\ slots'[id] = left
        /\ \A j \in DOMAIN slots : j # id => slots'[j] = slots[j]
    BY <1>2, <1>3, <1>7, UpdateStore
  <2>2. FullStep
    <3>1. sl.state = "full" => sl.everFull
      BY <1>1 DEF Shape
    <3>2. sl.everFull => left.state = "full"
      BY <1>2 DEF Shape
    <3> QED BY <1>2, <2>1, <3>1, <3>2 DEF FullStep
  <2>3. \A d : IsMember(left, d) => d # c /\ IsMember(sl, d)
    BY <1>2, <1>7 DEF IsMember, IsInitiator
  <2> QED BY <1>4, <1>5, <2>1, <2>2, <2>3
<1> QED BY <1>6, <1>7

\* bye: handleBye meets the common contract.
LEMMA HandledBye ==
  ASSUME NEW c \in Conns, NEW m, HandlerHypothesis, handleBye(c)
  PROVE  Handled(c, m)
<1>1. UNCHANGED <<connVars, deadline, crashed>>
  BY DEF handleBye
<1>2. CASE slotID[c] \in DOMAIN slots
  <2>1. "bye" \in HubTypes
    BY DEF HubTypes
  <2>2. LeaveSlot(c, slots[slotID[c]], "bye")
    BY <1>2 DEF handleBye
  <2>3. /\ StoreInv' /\ FullStep /\ QueuesOK(send') /\ OnlyRelays(c)
        /\ \A id \in DOMAIN slots' : \A d :
             IsMember(slots'[id], d) => id \in DOMAIN slots /\ IsMember(slots[id], d)
    BY <1>2, <2>1, <2>2, LeaveEffect DEF HandlerHypothesis
  <2>4. OnlyJoins(c)
    BY <2>3 DEF OnlyJoins
  <2> QED BY <1>1, <2>3, <2>4 DEF Handled, HandlerHypothesis, connVars
<1>3. CASE slotID[c] \notin DOMAIN slots
  <2>1. UNCHANGED <<send, storeVars>>
    BY <1>3 DEF handleBye
  <2>2. StoreInv' /\ FullStep /\ OnlyJoins(c)
    BY <2>1, SameStore, SameMembers DEF HandlerHypothesis, storeVars
  <2>3. OnlyRelays(c)
    BY <2>1 DEF OnlyRelays
  <2> QED BY <1>1, <2>1, <2>2, <2>3 DEF Handled, HandlerHypothesis, connVars
<1> QED BY <1>2, <1>3

\* Whatever the envelope, handleMessage meets the common contract.
LEMMA HandledMessage ==
  ASSUME NEW c \in Conns, NEW m \in Envelope, HandlerHypothesis, handleMessage(c, m)
  PROVE  Handled(c, m)
<1>1. CASE m.type = "slot.create" /\ handleSlotCreate(c, m)
  BY <1>1, HandledCreate
<1>2. CASE m.type = "slot.join" /\ handleSlotJoin(c, m)
  BY <1>2, HandledJoin
<1>3. CASE m.type \in {"targeted", "opaque"} /\ relay(c, m)
  BY <1>3, HandledRelay
<1>4. CASE m.type = "bye" /\ handleBye(c)
  BY <1>4, HandledBye
<1>5. CASE m.type = "pong" /\ UNCHANGED <<connVars, deadline, send, storeVars, crashed>>
  <2>1. StoreInv' /\ FullStep /\ OnlyJoins(c)
    BY <1>5, SameStore, SameMembers DEF HandlerHypothesis, storeVars
  <2>2. OnlyRelays(c)
    BY <1>5 DEF OnlyRelays
  <2> QED BY <1>5, <2>1, <2>2 DEF Handled, HandlerHypothesis, connVars
<1>6. CASE /\ m.type = "bad" /\ Reply(c, "error")
           /\ UNCHANGED <<connVars, deadline, storeVars>>
  BY <1>6, HandledReply
<1> QED BY <1>1, <1>2, <1>3, <1>4, <1>5, <1>6 DEF handleMessage

\* What handling a disconnect may do.
LEMMA DisconnectEffect ==
  ASSUME NEW c \in Conns, StoreInv, QueuesOK(send), handleDisconnect(c)
  PROVE  /\ StoreInv' /\ FullStep /\ QueuesOK(send') /\ OnlyRelays(c)
         /\ conns' = conns \ {c}
         /\ closed' = IF c \in conns THEN closed \cup {c} ELSE closed
         /\ \A id \in DOMAIN slots' : \A d :
              IsMember(slots'[id], d)
                => /\ id \in DOMAIN slots /\ IsMember(slots[id], d)
                   /\ ~ (c \in conns /\ d = c /\ id = slotID[c])
<1>1. /\ conns' = conns \ {c}
      /\ closed' = IF c \in conns THEN closed \cup {c} ELSE closed
  BY DEF handleDisconnect
<1>2. CASE UNCHANGED <<send, storeVars>> /\ (c \in conns => slotID[c] \notin DOMAIN slots)
  <2>1. StoreInv' /\ FullStep
    BY <1>2, SameStore
  <2>2. OnlyRelays(c) /\ slots' = slots
    BY <1>2 DEF OnlyRelays, storeVars
  <2> QED BY <1>1, <1>2, <2>1, <2>2
<1>3. CASE slotID[c] \in DOMAIN slots /\ LeaveSlot(c, slots[slotID[c]], "peer.left")
  <2>1. "peer.left" \in HubTypes
    BY DEF HubTypes
  <2>2. /\ StoreInv' /\ FullStep /\ QueuesOK(send') /\ OnlyRelays(c)
        /\ \A id \in DOMAIN slots' : \A d :
             IsMember(slots'[id], d)
               => /\ id \in DOMAIN slots /\ IsMember(slots[id], d)
                  /\ ~ (d = c /\ id = slotID[c])
    BY <1>3, <2>1, LeaveEffect
  <2> QED BY <1>1, <2>2
<1> QED BY <1>2, <1>3 DEF handleDisconnect

-----------------------------------------------------------------------------
(* The life of a connection: not yet served, waiting in register, known to *)
(* the hub, closed, in this order and each at most once.                   *)

Lifecycle ==
  /\ \A i, j \in DOMAIN register : register[i] = register[j] => i = j
  /\ \A i \in DOMAIN register : register[i] \notin conns \cup closed
  /\ \A c \in Conns :
       reader[c] = "none"
         <=> c \notin conns \cup closed /\ \A i \in DOMAIN register : register[i] # c
  /\ \A i \in DOMAIN unregister : reader[unregister[i]] = "exited"
  /\ \A i \in DOMAIN inbound : reader[inbound[i][1]] # "none"
  /\ RoutesToOpen

\* When a client sends one create or join at most, a request still waiting in
\* inbound is its only one and its connection has no slot yet, and whoever is
\* listed in a slot belongs to that slot.
SingleRequest ==
  /\ \A c \in Conns : requests[c] <= 1 /\ (requests[c] = 0 => slotID[c] = NoSlot)
  /\ \A i \in DOMAIN inbound :
       IsRequest(inbound[i][2])
         => requests[inbound[i][1]] = 1 /\ slotID[inbound[i][1]] = NoSlot
  /\ \A i, j \in DOMAIN inbound :
       (IsRequest(inbound[i][2]) /\ IsRequest(inbound[j][2])
          /\ inbound[i][1] = inbound[j][1]) => i = j
  /\ \A id \in DOMAIN slots : \A c : IsMember(slots[id], c) => slotID[c] = id

\* The head and the tail of a channel that is not empty.
LEMMA Received ==
  ASSUME NEW T, NEW q \in Seq(T), q # <<>>
  PROVE  /\ 1 \in DOMAIN q /\ Head(q) = q[1] /\ Head(q) \in T
         /\ Tail(q) \in Seq(T) /\ Len(Tail(q)) = Len(q) - 1
         /\ \A i \in DOMAIN Tail(q) : i + 1 \in DOMAIN q /\ Tail(q)[i] = q[i + 1]
                                      /\ i \in Nat /\ i + 1 # 1
         /\ \A i \in DOMAIN q : i # 1 => i - 1 \in DOMAIN Tail(q) /\ Tail(q)[i - 1] = q[i]
OBVIOUS

\* A channel after a send.
LEMMA Sent ==
  ASSUME NEW T, NEW q \in Seq(T), NEW x \in T
  PROVE  /\ Append(q, x) \in Seq(T) /\ Len(Append(q, x)) = Len(q) + 1
         /\ DOMAIN Append(q, x) = DOMAIN q \cup {Len(q) + 1}
         /\ Len(q) + 1 \notin DOMAIN q
         /\ Append(q, x)[Len(q) + 1] = x
         /\ \A i \in DOMAIN q : Append(q, x)[i] = q[i]
OBVIOUS

Inv == TypeOK /\ StoreInv /\ Lifecycle

\* The invariant holds of a broker that has just been made.
LEMMA InitInv == Init => Inv
<1> SUFFICES ASSUME Init PROVE Inv
  OBVIOUS
<1>1. DOMAIN slots = {} /\ DOMAIN codes = {} /\ issued = 0
  BY DEF Init
<1>2. StoreInv
  BY <1>1 DEF Init, StoreInv, StoreTypes, CodeIndex, SlotShape
<1>3. QueuesOK(send)
  BY BrokerConstants DEF Init, QueuesOK
<1>4. ChannelTypes /\ ConnTypes /\ crashed \in BOOLEAN
  <2>1. ChannelTypes
    BY BrokerConstants DEF Init, ChannelTypes
  <2>2. ConnTypes
    BY DEF Init, ConnTypes, NoSlot
  <2>3. crashed \in BOOLEAN
    BY DEF Init
  <2> QED BY <2>1, <2>2, <2>3
<1>5. Lifecycle
  BY DEF Init, Lifecycle, RoutesToOpen
<1> QED BY <1>2, <1>3, <1>4, <1>5 DEF Inv, TypeOK, StoreInv

\* The register case of the hub's select preserves the invariant.
LEMMA RegisterInv ==
  ASSUME Inv, HubRegister
  PROVE  Inv' /\ FullStep
<1> USE DEF Inv
<1>1. StoreInv' /\ FullStep
  BY SameStore DEF HubRegister
<1>2. register \in Seq(Conns)
  BY DEF TypeOK, ChannelTypes
<1>3. register # <<>>
  BY DEF HubRegister
<1>4. /\ 1 \in DOMAIN register /\ Head(register) = register[1] /\ Head(register) \in Conns
      /\ Tail(register) \in Seq(Conns) /\ Len(Tail(register)) = Len(register) - 1
      /\ \A i \in DOMAIN Tail(register) : i + 1 \in DOMAIN register
           /\ Tail(register)[i] = register[i + 1] /\ i \in Nat /\ i + 1 # 1
      /\ \A i \in DOMAIN register : i # 1 =>
           i - 1 \in DOMAIN Tail(register) /\ Tail(register)[i - 1] = register[i]
  BY <1>2, <1>3, Received
<1>5. TypeOK'
  <2>1. ChannelTypes'
    BY <1>4, BrokerConstants DEF TypeOK, ChannelTypes, HubRegister
  <2>2. ConnTypes' /\ QueuesOK(send') /\ crashed' \in BOOLEAN
    BY DEF TypeOK, ConnTypes, HubRegister, connVars, pumps
  <2> QED BY <1>1, <2>1, <2>2 DEF TypeOK, StoreInv
<1>6. Lifecycle'
  <2>1. /\ register' = Tail(register) /\ conns' = conns \cup {register[1]}
        /\ closed' = closed /\ reader' = reader /\ unregister' = unregister
        /\ inbound' = inbound
    BY <1>4 DEF HubRegister, pumps
  <2>2. /\ \A i, j \in DOMAIN register' : register'[i] = register'[j] => i = j
        /\ \A i \in DOMAIN register' : register'[i] \notin conns' \cup closed'
    BY <1>4, <2>1 DEF Lifecycle
  <2>3. ASSUME NEW c \in Conns
        PROVE  reader'[c] = "none"
                 <=> c \notin conns' \cup closed' /\ \A i \in DOMAIN register' : register'[i] # c
    <3>1. (\E i \in DOMAIN register : register[i] = c)
            <=> c = register[1] \/ \E i \in DOMAIN register' : register'[i] = c
      <4>1. ASSUME NEW i \in DOMAIN register, register[i] = c, c # register[1]
            PROVE  \E j \in DOMAIN register' : register'[j] = c
        <5>1. i - 1 \in DOMAIN register' /\ register'[i - 1] = c
          BY <1>4, <2>1, <4>1
        <5> QED BY <5>1
      <4>2. ASSUME NEW i \in DOMAIN register', register'[i] = c
            PROVE  \E j \in DOMAIN register : register[j] = c
        <5>1. i + 1 \in DOMAIN register /\ register[i + 1] = c
          BY <1>4, <2>1, <4>2
        <5> QED BY <5>1
      <4> QED BY <1>4, <4>1, <4>2
    <3> QED BY <2>1, <2>3, <3>1 DEF Lifecycle
  <2>4. /\ \A i \in DOMAIN unregister' : reader'[unregister'[i]] = "exited"
        /\ \A i \in DOMAIN inbound' : reader'[inbound'[i][1]] # "none"
        /\ RoutesToOpen'
    BY <1>4, <2>1 DEF Lifecycle, RoutesToOpen
  <2> QED BY <2>2, <2>3, <2>4 DEF Lifecycle
<1> QED BY <1>1, <1>5, <1>6

\* The unregister case, handleDisconnect, preserves the invariant.
LEMMA UnregisterInv ==
  ASSUME Inv, HubUnregister
  PROVE  Inv' /\ FullStep
<1> USE DEF Inv
<1> DEFINE c == Head(unregister)
<1>1. unregister \in Seq(Conns) /\ unregister # <<>>
  BY DEF TypeOK, ChannelTypes, HubUnregister
<1>2. /\ 1 \in DOMAIN unregister /\ c = unregister[1] /\ c \in Conns
      /\ Tail(unregister) \in Seq(Conns) /\ Len(Tail(unregister)) = Len(unregister) - 1
      /\ \A i \in DOMAIN Tail(unregister) : i + 1 \in DOMAIN unregister
           /\ Tail(unregister)[i] = unregister[i + 1]
  BY <1>1, Received
<1> HIDE DEF c
<1>3. /\ StoreInv' /\ FullStep /\ QueuesOK(send')
      /\ conns' = conns \ {c}
      /\ closed' = IF c \in conns THEN closed \cup {c} ELSE closed
  BY <1>2, DisconnectEffect DEF HubUnregister, TypeOK, c
<1>4. TypeOK'
  <2>1. ChannelTypes'
    BY <1>2, <1>3, BrokerConstants DEF TypeOK, ChannelTypes, HubUnregister
  <2>2. ConnTypes' /\ crashed' \in BOOLEAN
    BY DEF TypeOK, ConnTypes, HubUnregister, connVars, pumps
  <2> QED BY <1>3, <2>1, <2>2 DEF TypeOK, StoreInv
<1>5. Lifecycle'
  <2>1. /\ register' = register /\ unregister' = Tail(unregister)
        /\ inbound' = inbound /\ reader' = reader
    BY DEF HubUnregister, pumps
  <2> QED BY <1>2, <1>3, <2>1 DEF Lifecycle, RoutesToOpen, TypeOK
<1> QED BY <1>3, <1>4, <1>5

\* What the inbound case takes from its channel and does with it.
LEMMA InboundEffect ==
  ASSUME Inv, ~ crashed, HubInbound
  PROVE  /\ Head(inbound)[1] \in Conns /\ Head(inbound)[2] \in Envelope
         /\ Head(inbound) = inbound[1] /\ 1 \in DOMAIN inbound
         /\ inbound' = Tail(inbound)
         /\ inbound' \in Seq(Conns \X Envelope) /\ Len(inbound') = Len(inbound) - 1
         /\ \A i \in DOMAIN inbound' : i + 1 \in DOMAIN inbound
              /\ inbound'[i] = inbound[i + 1] /\ i \in Nat /\ i + 1 # 1
         /\ Handled(Head(inbound)[1], Head(inbound)[2])
<1> USE DEF Inv
<1>1. inbound \in Seq(Conns \X Envelope) /\ inbound # <<>> /\ inbound' = Tail(inbound)
  BY DEF TypeOK, ChannelTypes, HubInbound
<1>2. /\ 1 \in DOMAIN inbound /\ Head(inbound) = inbound[1]
      /\ Head(inbound) \in Conns \X Envelope
      /\ Tail(inbound) \in Seq(Conns \X Envelope) /\ Len(Tail(inbound)) = Len(inbound) - 1
      /\ \A i \in DOMAIN Tail(inbound) : i + 1 \in DOMAIN inbound
           /\ Tail(inbound)[i] = inbound[i + 1] /\ i \in Nat /\ i + 1 # 1
  BY <1>1, Received
<1>3. Head(inbound)[1] \in Conns /\ Head(inbound)[2] \in Envelope
  BY <1>2
<1>4. HandlerHypothesis
  BY DEF HandlerHypothesis, TypeOK, ConnTypes
<1>5. Handled(Head(inbound)[1], Head(inbound)[2])
  BY <1>3, <1>4, HandledMessage DEF HubInbound
<1> QED BY <1>1, <1>2, <1>3, <1>5

\* The inbound case, handleMessage, preserves the invariant.
LEMMA InboundInv ==
  ASSUME Inv, ~ crashed, HubInbound
  PROVE  Inv' /\ FullStep
<1> USE DEF Inv
<1> DEFINE c == Head(inbound)[1]
           m == Head(inbound)[2]
<1>1. /\ c \in Conns /\ inbound' \in Seq(Conns \X Envelope)
      /\ Len(inbound') = Len(inbound) - 1
      /\ \A i \in DOMAIN inbound' : i + 1 \in DOMAIN inbound /\ inbound'[i] = inbound[i + 1]
      /\ Handled(c, m)
  BY InboundEffect
<1> HIDE DEF c, m
<1>2. StoreInv' /\ FullStep /\ QueuesOK(send')
  BY <1>1 DEF Handled
<1>3. TypeOK'
  <2>1. ChannelTypes'
    BY <1>1, BrokerConstants DEF TypeOK, ChannelTypes, HubInbound
  <2>2. ConnTypes' /\ crashed' \in BOOLEAN
    BY <1>1 DEF TypeOK, ConnTypes, HubInbound, Handled
  <2> QED BY <1>2, <2>1, <2>2 DEF TypeOK, StoreInv
<1>4. Lifecycle'
  BY <1>1 DEF HubInbound, Lifecycle, RoutesToOpen
<1> QED BY <1>2, <1>3, <1>4

\* A new connection enters the register channel; it was nowhere before.
LEMMA ServeInv ==
  ASSUME Inv, NEW c \in Conns, ServeHTTP(c)
  PROVE  Inv' /\ FullStep
<1> USE DEF Inv
<1>1. StoreInv' /\ FullStep
  BY SameStore DEF ServeHTTP
<1>2. register \in Seq(Conns) /\ Len(register) \in Nat
  BY DEF TypeOK, ChannelTypes
<1>3. /\ register' \in Seq(Conns) /\ Len(register') = Len(register) + 1
      /\ DOMAIN register' = DOMAIN register \cup {Len(register) + 1}
      /\ Len(register) + 1 \notin DOMAIN register
      /\ register'[Len(register) + 1] = c
      /\ \A i \in DOMAIN register : register'[i] = register[i]
  BY <1>2, Sent DEF ServeHTTP
<1>4. TypeOK'
  <2>1. ChannelTypes'
    BY <1>2, <1>3, BrokerConstants DEF TypeOK, ChannelTypes, ServeHTTP
  <2>2. ConnTypes' /\ QueuesOK(send') /\ crashed' \in BOOLEAN
    BY DEF TypeOK, ConnTypes, ServeHTTP, connVars
  <2> QED BY <1>1, <2>1, <2>2 DEF TypeOK, StoreInv
<1>5. Lifecycle'
  <2>1. /\ reader[c] = "none" /\ reader'[c] = "reading"
        /\ \A d \in Conns : d # c => reader'[d] = reader[d]
        /\ conns' = conns /\ closed' = closed /\ unregister' = unregister
        /\ inbound' = inbound
    BY DEF ServeHTTP, TypeOK, ConnTypes
  <2>2. /\ c \notin conns \cup closed
        /\ \A i \in DOMAIN register : register[i] # c
    BY <2>1 DEF Lifecycle
  <2>3. \A i \in DOMAIN unregister : unregister[i] \in Conns
    BY DEF TypeOK, ChannelTypes
  <2>4. \A i \in DOMAIN inbound : inbound[i][1] \in Conns
    BY DEF TypeOK, ChannelTypes
  <2>5. /\ \A i, j \in DOMAIN register' : register'[i] = register'[j] => i = j
        /\ \A i \in DOMAIN register' : register'[i] \notin conns' \cup closed'
    BY <1>3, <2>1, <2>2 DEF Lifecycle
  <2>6. \A d \in Conns :
          reader'[d] = "none"
            <=> d \notin conns' \cup closed' /\ \A i \in DOMAIN register' : register'[i] # d
    BY <1>3, <2>1, <2>2 DEF Lifecycle
  <2>7. \A i \in DOMAIN unregister' : reader'[unregister'[i]] = "exited"
    BY <2>1, <2>3 DEF Lifecycle
  <2>8. \A i \in DOMAIN inbound' : reader'[inbound'[i][1]] # "none"
    BY <2>1, <2>4 DEF Lifecycle
  <2>9. RoutesToOpen'
    BY <2>1, <2>2 DEF Lifecycle, RoutesToOpen, TypeOK, ChannelTypes
  <2> QED BY <2>5, <2>6, <2>7, <2>8, <2>9 DEF Lifecycle
<1> QED BY <1>1, <1>4, <1>5

\* readPump handing an envelope to the hub preserves the invariant.
LEMMA ReadInv ==
  ASSUME Inv, NEW c \in Conns, NEW m \in Messages, ReadMessage(c, m)
  PROVE  Inv' /\ FullStep
<1> USE DEF Inv
<1>1. StoreInv' /\ FullStep
  BY SameStore DEF ReadMessage
<1>2. inbound \in Seq(Conns \X Envelope) /\ <<c, m>> \in Conns \X Envelope
  BY BrokerConstants DEF TypeOK, ChannelTypes
<1>3. /\ inbound' \in Seq(Conns \X Envelope) /\ Len(inbound') = Len(inbound) + 1
      /\ DOMAIN inbound' = DOMAIN inbound \cup {Len(inbound) + 1}
      /\ inbound'[Len(inbound) + 1] = <<c, m>>
      /\ \A i \in DOMAIN inbound : inbound'[i] = inbound[i]
  BY <1>2, Sent DEF ReadMessage
<1>4. TypeOK'
  <2>1. ChannelTypes'
    BY <1>2, <1>3, BrokerConstants DEF TypeOK, ChannelTypes, ReadMessage
  <2>2. ConnTypes' /\ QueuesOK(send') /\ crashed' \in BOOLEAN
    BY DEF TypeOK, ConnTypes, ReadMessage, connVars
  <2> QED BY <1>1, <2>1, <2>2 DEF TypeOK, StoreInv
<1>5. Lifecycle'
  <2>1. /\ reader[c] = "reading" /\ reader' = reader /\ register' = register
        /\ conns' = conns /\ closed' = closed /\ unregister' = unregister
    BY DEF ReadMessage
  <2> QED BY <1>3, <2>1 DEF Lifecycle, RoutesToOpen
<1> QED BY <1>1, <1>4, <1>5

\* readPump returning, its deferred unregister, preserves the invariant.
LEMMA ReadPumpReturnInv ==
  ASSUME Inv, NEW c \in Conns, ReadPumpReturn(c)
  PROVE  Inv' /\ FullStep
<1> USE DEF Inv
<1>1. StoreInv' /\ FullStep
  BY SameStore DEF ReadPumpReturn
<1>2. unregister \in Seq(Conns)
  BY DEF TypeOK, ChannelTypes
<1>3. /\ unregister' \in Seq(Conns) /\ Len(unregister') = Len(unregister) + 1
      /\ DOMAIN unregister' = DOMAIN unregister \cup {Len(unregister) + 1}
      /\ unregister'[Len(unregister) + 1] = c
      /\ \A i \in DOMAIN unregister : unregister'[i] = unregister[i]
  BY <1>2, Sent DEF ReadPumpReturn
<1>4. TypeOK'
  <2>1. ChannelTypes'
    BY <1>2, <1>3, BrokerConstants DEF TypeOK, ChannelTypes, ReadPumpReturn
  <2>2. ConnTypes' /\ QueuesOK(send') /\ crashed' \in BOOLEAN
    BY DEF TypeOK, ConnTypes, ReadPumpReturn, connVars
  <2> QED BY <1>1, <2>1, <2>2 DEF TypeOK, StoreInv
<1>5. Lifecycle'
  <2>1. /\ reader[c] = "reading" /\ reader'[c] = "exited"
        /\ \A d \in Conns : d # c => reader'[d] = reader[d]
        /\ conns' = conns /\ closed' = closed /\ register' = register
        /\ inbound' = inbound
    BY DEF ReadPumpReturn, TypeOK, ConnTypes
  <2>2. \A i \in DOMAIN unregister : unregister[i] \in Conns
    BY <1>2
  <2>3. \A i \in DOMAIN inbound : inbound[i][1] \in Conns
    BY DEF TypeOK, ChannelTypes
  <2>4. \A i \in DOMAIN unregister' : reader'[unregister'[i]] = "exited"
    BY <1>3, <2>1, <2>2 DEF Lifecycle
  <2>5. \A d \in Conns : reader'[d] = "none" <=> reader[d] = "none"
    BY <2>1
  <2>6. \A i \in DOMAIN inbound' : reader'[inbound'[i][1]] # "none"
    BY <2>1, <2>3, <2>5 DEF Lifecycle
  <2>7. RoutesToOpen'
    BY <2>1 DEF Lifecycle, RoutesToOpen, TypeOK, ChannelTypes
  <2> QED BY <2>1, <2>4, <2>5, <2>6, <2>7 DEF Lifecycle
<1> QED BY <1>1, <1>4, <1>5

\* The other steps of a connection leave the channels to the hub alone.
LEMMA QuietInv ==
  ASSUME Inv, NEW c \in Conns,
         \/ ReadBadJSON(c) \/ PongHandler(c)
         \/ WritePumpDrain(c) \/ WritePumpReturn(c)
  PROVE  Inv' /\ FullStep
<1> USE DEF Inv
<1>1. /\ UNCHANGED storeVars
      /\ conns' = conns /\ closed' = closed /\ register' = register
      /\ unregister' = unregister /\ inbound' = inbound /\ reader' = reader
      /\ UNCHANGED connVars /\ requests' = requests
  BY DEF ReadBadJSON, PongHandler, WritePumpDrain, WritePumpReturn, pumps
<1>2. StoreInv' /\ FullStep
  BY <1>1, SameStore
<1>3. ConnTypes'
  BY <1>1 DEF ReadBadJSON, PongHandler, WritePumpDrain, WritePumpReturn, pumps,
              TypeOK, ConnTypes, connVars
<1>4. QueuesOK(send') /\ crashed' \in BOOLEAN
  <2>1. CASE ReadBadJSON(c)
    <3>1. "error" \in HubTypes
      BY DEF HubTypes
    <3> QED BY <2>1, <3>1, ReplyQueue DEF ReadBadJSON, TypeOK
  <2>2. CASE WritePumpDrain(c)
    <3>1. send[c] \in Seq(Frame) /\ send[c] # <<>> /\ Len(send[c]) <= SendBufSize
      BY <2>2 DEF WritePumpDrain, TypeOK, QueuesOK
    <3>2. Tail(send[c]) \in Seq(Frame) /\ Len(Tail(send[c])) <= SendBufSize
      BY <3>1, Received, BrokerConstants
    <3> QED BY <2>2, <3>2 DEF WritePumpDrain, TypeOK, QueuesOK
  <2>3. CASE PongHandler(c) \/ WritePumpReturn(c)
    BY <2>3 DEF PongHandler, WritePumpReturn, TypeOK
  <2> QED BY <2>1, <2>2, <2>3
<1>5. TypeOK'
  BY <1>1, <1>2, <1>3, <1>4 DEF TypeOK, ChannelTypes, StoreInv
<1>6. Lifecycle'
  BY <1>1 DEF Lifecycle, RoutesToOpen
<1> QED BY <1>2, <1>5, <1>6

\* A slot's expiry preserves the invariant.
LEMMA ExpireInv ==
  ASSUME Inv, NEW id \in DOMAIN slots, Expire(id)
  PROVE  Inv' /\ FullStep
<1> USE DEF Inv
<1>1. /\ slots' = slots /\ codes' = codes /\ issued' = issued
      /\ expired' = expired \cup {id}
      /\ conns' = conns /\ closed' = closed /\ register' = register
      /\ unregister' = unregister /\ inbound' = inbound
      /\ UNCHANGED connVars /\ UNCHANGED pumps /\ send' = send /\ crashed' = crashed
  BY DEF Expire
<1>2. StoreInv' /\ FullStep
  BY <1>1 DEF StoreInv, StoreTypes, CodeIndex, SlotShape, FullStep
<1>3. TypeOK'
  BY <1>1, <1>2 DEF TypeOK, ChannelTypes, ConnTypes, StoreInv, connVars, pumps
<1>4. Lifecycle'
  BY <1>1 DEF Lifecycle, RoutesToOpen, pumps
<1> QED BY <1>2, <1>3, <1>4

\* Every step of the broker preserves the invariant and keeps full slots full.
LEMMA NextInv == Inv /\ [Next]_vars => Inv' /\ (FullStep \/ UNCHANGED vars)
<1> SUFFICES ASSUME Inv, [Next]_vars PROVE Inv' /\ (FullStep \/ UNCHANGED vars)
  OBVIOUS
<1>1. CASE UNCHANGED vars
  <2>1. StoreInv' /\ FullStep
    BY <1>1, SameStore DEF vars, Inv
  <2>2. TypeOK'
    BY <1>1, <2>1 DEF Inv, TypeOK, ChannelTypes, ConnTypes, StoreInv, vars, connVars, pumps
  <2>3. Lifecycle'
    BY <1>1 DEF Inv, Lifecycle, RoutesToOpen, vars, pumps
  <2> QED BY <1>1, <2>1, <2>2, <2>3 DEF Inv
<1>2. CASE ~ crashed /\ HubRegister
  BY <1>2, RegisterInv
<1>3. CASE ~ crashed /\ HubUnregister
  BY <1>3, UnregisterInv
<1>4. CASE ~ crashed /\ HubInbound
  BY <1>4, InboundInv
<1>5. ASSUME NEW c \in Conns, PumpStep(c)
      PROVE  Inv' /\ FullStep
  <2>1. CASE ServeHTTP(c)
    BY <2>1, ServeInv
  <2>2. CASE \E m \in Messages : ReadMessage(c, m)
    BY <2>2, ReadInv
  <2>3. CASE ReadPumpReturn(c)
    BY <2>3, ReadPumpReturnInv
  <2>4. CASE ReadBadJSON(c) \/ PongHandler(c) \/ WritePumpDrain(c) \/ WritePumpReturn(c)
    BY <2>4, QuietInv
  <2> QED BY <1>5, <2>1, <2>2, <2>3, <2>4 DEF PumpStep
<1>6. ASSUME NEW id \in DOMAIN slots, Expire(id)
      PROVE  Inv' /\ FullStep
  BY <1>6, ExpireInv
<1> QED BY <1>1, <1>2, <1>3, <1>4, <1>5, <1>6 DEF Next, HubStep

\* The inductive invariant holds throughout.
THEOREM Invariance == Spec => []Inv
BY InitInv, NextInv, PTL DEF Spec

\* Every reachable state of the broker is well typed and within its channels'
\* capacities, for any number of connections, codes and peers.
THEOREM TypeCorrect == Spec => []TypeOK
<1>1. Inv => TypeOK
  BY DEF Inv
<1> QED BY <1>1, Invariance, PTL

\* The code index and the slots of the in-memory store never disagree.
THEOREM CodesAndSlotsAgree == Spec => []CodeIndex
<1>1. Inv => CodeIndex
  BY DEF Inv, StoreInv
<1> QED BY <1>1, Invariance, PTL

\* No slot ever exceeds its limit, and its state follows from its history.
THEOREM SlotsWellFormed == Spec => []SlotShape
<1>1. Inv => SlotShape
  BY DEF Inv, StoreInv
<1> QED BY <1>1, Invariance, PTL

\* The hub never routes a frame to a closed channel.
THEOREM HubRoutesToOpen == Spec => []RoutesToOpen
<1>1. Inv => RoutesToOpen
  BY DEF Inv, Lifecycle
<1> QED BY <1>1, Invariance, PTL

\* A slot that has been full once admits nobody again.
THEOREM FullStaysFull == Spec => FullIsForever
<1>1. Inv /\ [Next]_vars => [FullStep]_vars
  BY NextInv
<1>2. [][FullStep]_vars => FullIsForever
  BY DEF FullStep, FullIsForever
<1> QED BY <1>1, <1>2, Invariance, PTL DEF Spec

-----------------------------------------------------------------------------
(* Sessions of clients that send a single create or join per connection,   *)
(* as every client of the repository does.                                 *)

SessionInv == SingleRequest /\ NoGhostMember /\ RelayIsolation

\* The session invariant holds of a broker that has just been made.
LEMMA InitSession == Init => SessionInv
<1> SUFFICES ASSUME Init PROVE SessionInv
  OBVIOUS
<1>1. DOMAIN slots = {} /\ DOMAIN inbound = {} /\ \A d \in Conns : DOMAIN send[d] = {}
  BY DEF Init
<1>2. SingleRequest
  BY <1>1 DEF Init, SingleRequest
<1> QED BY <1>1, <1>2 DEF SessionInv, NoGhostMember, RelayIsolation

\* Handling a message keeps the session invariant.
LEMMA InboundSession ==
  ASSUME Inv, SessionInv, ~ crashed, HubInbound
  PROVE  SessionInv'
<1> USE DEF Inv, SessionInv
<1> DEFINE c == Head(inbound)[1]
           m == Head(inbound)[2]
<1>1. /\ c \in Conns /\ c = inbound[1][1] /\ m = inbound[1][2] /\ 1 \in DOMAIN inbound
      /\ \A i \in DOMAIN inbound' : i + 1 \in DOMAIN inbound
              /\ inbound'[i] = inbound[i + 1] /\ i \in Nat /\ i + 1 # 1
      /\ inbound' \in Seq(Conns \X Envelope)
      /\ Handled(c, m)
  BY InboundEffect
<1> HIDE DEF c, m
<1>2. /\ requests' = requests /\ conns' = conns /\ register' = register
      /\ closed' = closed
  BY DEF HubInbound
<1>3. slotID' # slotID => IsRequest(m) /\ requests[c] = 1 /\ slotID[c] = NoSlot
  BY <1>1 DEF Handled, SingleRequest
<1>4. /\ slotID \in [Conns -> Nat] /\ slotID' \in [Conns -> Nat]
      /\ \A d \in Conns : d # c => slotID'[d] = slotID[d]
  BY <1>1 DEF Handled, TypeOK, ConnTypes
<1>5. \A d \in Conns : slotID[d] # NoSlot => slotID'[d] = slotID[d]
  BY <1>3, <1>4
<1>6. \A id \in DOMAIN slots : id # NoSlot
  BY DEF StoreInv, StoreTypes, NoSlot
<1>7. \A id \in DOMAIN slots : \A d : IsMember(slots[id], d) => d \in Conns
  BY DEF StoreInv, StoreTypes, IsSlot, IsMember, IsInitiator, HasPeer
<1>8. SingleRequest'
  <2>1. \A d \in Conns : requests'[d] <= 1 /\ (requests'[d] = 0 => slotID'[d] = NoSlot)
    <3>1. \A d \in Conns : requests[d] = 0 => slotID[d] = NoSlot /\ ~ (d = c /\ slotID' # slotID)
      BY <1>3 DEF SingleRequest
    <3> QED BY <1>2, <1>4, <3>1 DEF SingleRequest
  <2>2. ASSUME NEW i \in DOMAIN inbound', IsRequest(inbound'[i][2])
        PROVE  requests'[inbound'[i][1]] = 1 /\ slotID'[inbound'[i][1]] = NoSlot
    <3>1. /\ i + 1 \in DOMAIN inbound /\ inbound'[i] = inbound[i + 1] /\ i + 1 # 1
          /\ inbound'[i][1] \in Conns
      BY <1>1
    <3>2. requests[inbound'[i][1]] = 1 /\ slotID[inbound'[i][1]] = NoSlot
      BY <2>2, <3>1 DEF SingleRequest
    <3>3. slotID' # slotID => inbound'[i][1] # c
      BY <1>1, <1>3, <2>2, <3>1 DEF SingleRequest
    <3> QED BY <1>2, <1>4, <3>1, <3>2, <3>3
  <2>3. \A i, j \in DOMAIN inbound' :
          (IsRequest(inbound'[i][2]) /\ IsRequest(inbound'[j][2])
             /\ inbound'[i][1] = inbound'[j][1]) => i = j
    <3>1. SUFFICES ASSUME NEW i \in DOMAIN inbound', NEW j \in DOMAIN inbound',
                          IsRequest(inbound'[i][2]), IsRequest(inbound'[j][2]),
                          inbound'[i][1] = inbound'[j][1]
                   PROVE  i = j
      OBVIOUS
    <3>2. /\ i + 1 \in DOMAIN inbound /\ inbound'[i] = inbound[i + 1] /\ i \in Nat
          /\ j + 1 \in DOMAIN inbound /\ inbound'[j] = inbound[j + 1] /\ j \in Nat
      BY <1>1
    <3>3. /\ IsRequest(inbound[i + 1][2]) /\ IsRequest(inbound[j + 1][2])
          /\ inbound[i + 1][1] = inbound[j + 1][1]
      BY <3>1, <3>2
    <3>4. \A k, l \in DOMAIN inbound :
            (IsRequest(inbound[k][2]) /\ IsRequest(inbound[l][2])
               /\ inbound[k][1] = inbound[l][1]) => k = l
      BY DEF SingleRequest
    <3>5. i + 1 = j + 1
      BY <3>2, <3>3, <3>4
    <3> QED BY <3>2, <3>5
  <2>4. \A id \in DOMAIN slots' : \A d : IsMember(slots'[id], d) => slotID'[d] = id
    <3>1. SUFFICES ASSUME NEW id \in DOMAIN slots', NEW d, IsMember(slots'[id], d)
                   PROVE  slotID'[d] = id
      OBVIOUS
    <3>2. CASE id \in DOMAIN slots /\ IsMember(slots[id], d)
      BY <1>5, <1>6, <1>7, <3>2 DEF SingleRequest
    <3>3. CASE d = c /\ slotID'[c] = id
      BY <3>3
    <3> QED BY <1>1, <3>1, <3>2, <3>3 DEF Handled, OnlyJoins
  <2> QED BY <2>1, <2>2, <2>3, <2>4 DEF SingleRequest
<1>9. NoGhostMember'
  <2>1. SUFFICES ASSUME ~ crashed', NEW id \in DOMAIN slots', NEW d \in Conns,
                        IsMember(slots'[id], d)
                 PROVE  d \in conns' \/ \E i \in DOMAIN register' : register'[i] = d
    BY DEF NoGhostMember
  <2>2. CASE id \in DOMAIN slots /\ IsMember(slots[id], d)
    BY <1>2, <2>2 DEF NoGhostMember
  <2>3. CASE d = c /\ c \notin closed
    <3>1. reader[c] # "none"
      BY <1>1 DEF Lifecycle
    <3> QED BY <1>1, <1>2, <2>3, <3>1 DEF Lifecycle
  <2> QED BY <1>1, <2>1, <2>2, <2>3 DEF Handled, OnlyJoins
<1>10. RelayIsolation'
  <2>1. SUFFICES ASSUME NEW d \in Conns, NEW i \in DOMAIN send'[d], send'[d][i].type = "relay"
                 PROVE  slotID'[d] # NoSlot /\ slotID'[send'[d][i].from] = slotID'[d]
    BY DEF RelayIsolation
  <2>2. CASE i \in DOMAIN send[d] /\ send'[d][i] = send[d][i]
    <3>1. slotID[d] # NoSlot /\ slotID[send[d][i].from] = slotID[d]
      BY <2>1, <2>2 DEF RelayIsolation
    <3>2. send[d][i].from \in Conns
      <4>1. send[d] \in Seq(Frame) /\ send[d][i] \in Frame
        BY <2>2 DEF TypeOK, QueuesOK
      <4> QED BY <2>1, <2>2, <4>1 DEF Frame, HubTypes
    <3> QED BY <1>5, <2>2, <3>1, <3>2
  <2>3. CASE /\ send'[d][i].from = c /\ slotID[c] \in DOMAIN slots
             /\ IsMember(slots[slotID[c]], d)
    <3>1. slotID[d] = slotID[c] /\ slotID[c] # NoSlot
      BY <1>6, <2>3 DEF SingleRequest
    <3> QED BY <1>1, <1>5, <2>3, <3>1
  <2> QED BY <1>1, <2>1, <2>2, <2>3 DEF Handled, OnlyRelays
<1> QED BY <1>8, <1>9, <1>10

\* A disconnect removes its connection from the slot it was in.
LEMMA UnregisterSession ==
  ASSUME Inv, SessionInv, ~ crashed, HubUnregister
  PROVE  SessionInv'
<1> USE DEF Inv, SessionInv
<1> DEFINE c == Head(unregister)
<1>1. c \in Conns
  BY Received DEF TypeOK, ChannelTypes, HubUnregister
<1> HIDE DEF c
<1>2. /\ QueuesOK(send') /\ OnlyRelays(c) /\ conns' = conns \ {c}
      /\ \A id \in DOMAIN slots' : \A d :
           IsMember(slots'[id], d)
             => /\ id \in DOMAIN slots /\ IsMember(slots[id], d)
                /\ ~ (c \in conns /\ d = c /\ id = slotID[c])
  BY <1>1, DisconnectEffect DEF HubUnregister, TypeOK, c
<1>3. /\ slotID' = slotID /\ requests' = requests /\ inbound' = inbound
      /\ register' = register
  BY DEF HubUnregister, connVars, pumps
<1>4. SingleRequest'
  BY <1>2, <1>3 DEF SingleRequest
<1>5. NoGhostMember'
  <2>1. SUFFICES ASSUME NEW id \in DOMAIN slots', NEW d \in Conns, IsMember(slots'[id], d)
                 PROVE  d \in conns' \/ \E i \in DOMAIN register' : register'[i] = d
    BY DEF NoGhostMember
  <2>2. id \in DOMAIN slots /\ IsMember(slots[id], d) /\ slotID[d] = id
    BY <1>2, <2>1 DEF SingleRequest
  <2>3. d \in conns \/ \E i \in DOMAIN register : register[i] = d
    BY <2>2 DEF NoGhostMember
  <2>4. ~ (c \in conns /\ d = c)
    BY <1>2, <2>1, <2>2
  <2> QED BY <1>2, <1>3, <2>3, <2>4
<1>6. RelayIsolation'
  <2>1. SUFFICES ASSUME NEW d \in Conns, NEW i \in DOMAIN send'[d], send'[d][i].type = "relay"
                 PROVE  slotID'[d] # NoSlot /\ slotID'[send'[d][i].from] = slotID'[d]
    BY DEF RelayIsolation
  <2>2. CASE i \in DOMAIN send[d] /\ send'[d][i] = send[d][i]
    BY <1>3, <2>1, <2>2 DEF RelayIsolation
  <2>3. CASE /\ send'[d][i].from = c /\ slotID[c] \in DOMAIN slots
             /\ IsMember(slots[slotID[c]], d)
    <3>1. slotID[d] = slotID[c] /\ slotID[c] # NoSlot
      BY <2>3 DEF SingleRequest, StoreInv, StoreTypes, NoSlot
    <3> QED BY <1>3, <2>3, <3>1
  <2> QED BY <1>2, <2>1, <2>2, <2>3 DEF OnlyRelays
<1> QED BY <1>4, <1>5, <1>6

\* A registered connection moves from the channel to the map.
LEMMA RegisterSession ==
  ASSUME Inv, SessionInv, HubRegister
  PROVE  SessionInv'
<1> USE DEF Inv, SessionInv
<1>1. register \in Seq(Conns) /\ register # <<>>
  BY DEF TypeOK, ChannelTypes, HubRegister
<1>2. \A i \in DOMAIN register :
        i # 1 => i - 1 \in DOMAIN Tail(register) /\ Tail(register)[i - 1] = register[i]
  BY <1>1, Received
<1>3. /\ slotID' = slotID /\ requests' = requests /\ inbound' = inbound
      /\ slots' = slots /\ send' = send /\ crashed' = crashed
      /\ register' = Tail(register) /\ conns' = conns \cup {register[1]}
  BY <1>1, Received DEF HubRegister, connVars, pumps, storeVars
<1>4. SingleRequest' /\ RelayIsolation'
  BY <1>3 DEF SingleRequest, RelayIsolation
<1>5. ASSUME NEW d \in Conns, d \in conns \/ \E i \in DOMAIN register : register[i] = d
      PROVE  d \in conns' \/ \E i \in DOMAIN register' : register'[i] = d
  <2>1. ASSUME NEW i \in DOMAIN register, register[i] = d, i # 1
        PROVE  \E j \in DOMAIN register' : register'[j] = d
    <3>1. i - 1 \in DOMAIN register' /\ register'[i - 1] = d
      BY <1>2, <1>3, <2>1
    <3> QED BY <3>1
  <2> QED BY <1>3, <1>5, <2>1
<1>6. NoGhostMember'
  BY <1>3, <1>5 DEF NoGhostMember
<1> QED BY <1>4, <1>6

\* A new connection only adds to the register channel.
LEMMA ServeSession ==
  ASSUME Inv, SessionInv, NEW c \in Conns, ServeHTTP(c)
  PROVE  SessionInv'
<1> USE DEF Inv, SessionInv
<1>1. register \in Seq(Conns)
  BY DEF TypeOK, ChannelTypes
<1>2. /\ DOMAIN register \subseteq DOMAIN register'
      /\ \A i \in DOMAIN register : register'[i] = register[i]
  BY <1>1, Sent DEF ServeHTTP
<1>3. /\ slotID' = slotID /\ requests' = requests /\ inbound' = inbound
      /\ slots' = slots /\ send' = send /\ crashed' = crashed /\ conns' = conns
  BY DEF ServeHTTP, connVars, storeVars
<1>4. SingleRequest' /\ RelayIsolation'
  BY <1>3 DEF SingleRequest, RelayIsolation
<1>5. NoGhostMember'
  BY <1>2, <1>3 DEF NoGhostMember
<1> QED BY <1>4, <1>5

\* With one request per connection no second create or join is read.
LEMMA ReadSession ==
  ASSUME MaxRequests <= 1, Inv, SessionInv, NEW c \in Conns, NEW m \in Messages,
         ReadMessage(c, m)
  PROVE  SessionInv'
<1> USE DEF Inv, SessionInv
<1> DEFINE n == Len(inbound) + 1
<1>1. inbound \in Seq(Conns \X Envelope) /\ <<c, m>> \in Conns \X Envelope
  BY BrokerConstants DEF TypeOK, ChannelTypes
<1>2. /\ DOMAIN inbound' = DOMAIN inbound \cup {n} /\ n \notin DOMAIN inbound
      /\ inbound'[n] = <<c, m>>
      /\ \A i \in DOMAIN inbound : inbound'[i] = inbound[i] /\ inbound[i][1] \in Conns
  BY <1>1, Sent DEF ReadMessage
<1>3. /\ slotID' = slotID /\ slots' = slots /\ send' = send /\ crashed' = crashed
      /\ conns' = conns /\ register' = register
  BY DEF ReadMessage, connVars, storeVars
<1>4. NoGhostMember' /\ RelayIsolation'
  BY <1>3 DEF NoGhostMember, RelayIsolation
<1>5. CASE ~ IsRequest(m)
  <2>1. requests' = requests
    BY <1>5 DEF ReadMessage
  <2>2. SingleRequest'
    BY <1>2, <1>3, <1>5, <2>1 DEF SingleRequest
  <2> QED BY <1>4, <2>2
<1>6. CASE IsRequest(m)
  <2>1. /\ requests[c] = 0 /\ requests'[c] = 1
        /\ \A d \in Conns : d # c => requests'[d] = requests[d]
    BY <1>6, BrokerConstants DEF ReadMessage, TypeOK, ConnTypes
  <2>2. slotID[c] = NoSlot
    BY <2>1 DEF SingleRequest
  <2>3. \A i \in DOMAIN inbound : IsRequest(inbound[i][2]) => inbound[i][1] # c
    BY <2>1 DEF SingleRequest
  <2>4. \A d \in Conns : requests'[d] <= 1 /\ (requests'[d] = 0 => slotID'[d] = NoSlot)
    BY <1>3, <2>1 DEF SingleRequest
  <2>5. \A i \in DOMAIN inbound' :
          IsRequest(inbound'[i][2])
            => requests'[inbound'[i][1]] = 1 /\ slotID'[inbound'[i][1]] = NoSlot
    BY <1>2, <1>3, <2>1, <2>2 DEF SingleRequest
  <2>6. \A i, j \in DOMAIN inbound' :
          (IsRequest(inbound'[i][2]) /\ IsRequest(inbound'[j][2])
             /\ inbound'[i][1] = inbound'[j][1]) => i = j
    BY <1>2, <2>3 DEF SingleRequest
  <2>7. SingleRequest'
    BY <1>3, <2>4, <2>5, <2>6 DEF SingleRequest
  <2> QED BY <1>4, <2>7
<1> QED BY <1>5, <1>6

\* The remaining pump steps touch neither slots nor members.
LEMMA QuietSession ==
  ASSUME Inv, SessionInv, ~ crashed, NEW c \in Conns,
         \/ ReadBadJSON(c) \/ PongHandler(c) \/ ReadPumpReturn(c)
         \/ WritePumpDrain(c) \/ WritePumpReturn(c)
  PROVE  SessionInv'
<1> USE DEF Inv, SessionInv
<1>1. /\ slotID' = slotID /\ slots' = slots /\ conns' = conns
      /\ register' = register /\ inbound' = inbound /\ requests' = requests
  BY DEF ReadBadJSON, PongHandler, ReadPumpReturn, WritePumpDrain, WritePumpReturn,
         pumps, connVars, storeVars
<1>2. SingleRequest'
  BY <1>1 DEF SingleRequest
<1>4. NoGhostMember'
  BY <1>1 DEF NoGhostMember
<1>5. RelayIsolation'
  <2>1. CASE ReadBadJSON(c)
    <3>1. "error" \in HubTypes
      BY DEF HubTypes
    <3>2. QueuesOK(send)
      BY DEF TypeOK
    <3>3. NoNewRelay(send, send')
      <4>1. NoNewRelay(send, send) /\ NoNewRelay(send, To(send, c, "error"))
        BY <3>1, <3>2, ToQueue DEF NoNewRelay
      <4> QED BY <2>1, <4>1 DEF ReadBadJSON, Reply
    <3> QED BY <1>1, <3>3 DEF RelayIsolation, NoNewRelay
  <2>2. CASE WritePumpDrain(c)
    <3>1. send[c] \in Seq(Frame) /\ send[c] # <<>>
      BY <2>2 DEF WritePumpDrain, TypeOK, QueuesOK
    <3>2. \A i \in DOMAIN Tail(send[c]) :
            i + 1 \in DOMAIN send[c] /\ Tail(send[c])[i] = send[c][i + 1]
      BY <3>1, Received
    <3>3. send'[c] = Tail(send[c]) /\ \A d \in Conns : d # c => send'[d] = send[d]
      BY <2>2 DEF WritePumpDrain, TypeOK, QueuesOK
    <3>4. ASSUME NEW i \in DOMAIN send'[c]
          PROVE  \E j \in DOMAIN send[c] : send'[c][i] = send[c][j]
      BY <3>2, <3>3
    <3>5. ASSUME NEW d \in Conns, NEW i \in DOMAIN send'[d], send'[d][i].type = "relay"
          PROVE  slotID[d] # NoSlot /\ slotID[send'[d][i].from] = slotID[d]
      <4>1. \E j \in DOMAIN send[d] : send'[d][i] = send[d][j]
        BY <3>3, <3>4
      <4> QED BY <3>5, <4>1 DEF RelayIsolation
    <3> QED BY <1>1, <3>5 DEF RelayIsolation
  <2>3. CASE PongHandler(c) \/ ReadPumpReturn(c) \/ WritePumpReturn(c)
    BY <1>1, <2>3 DEF RelayIsolation, PongHandler, ReadPumpReturn, WritePumpReturn
  <2> QED BY <2>1, <2>2, <2>3
<1> QED BY <1>2, <1>4, <1>5

\* Every step of the broker preserves the session invariant.
LEMMA NextSession ==
  ASSUME MaxRequests <= 1, Inv, SessionInv, [Next]_vars
  PROVE  SessionInv'
<1>1. CASE UNCHANGED vars
  BY <1>1 DEF SessionInv, SingleRequest, NoGhostMember, RelayIsolation, vars,
              connVars, storeVars, pumps
<1>2. CASE ~ crashed /\ HubRegister
  BY <1>2, RegisterSession
<1>3. CASE ~ crashed /\ HubUnregister
  BY <1>3, UnregisterSession
<1>4. CASE ~ crashed /\ HubInbound
  BY <1>4, InboundSession
<1>5. ASSUME NEW c \in Conns, PumpStep(c), ~ crashed
      PROVE  SessionInv'
  <2>1. CASE ServeHTTP(c)
    BY <2>1, ServeSession
  <2>2. CASE \E m \in Messages : ReadMessage(c, m)
    BY <2>2, ReadSession
  <2>3. CASE \/ ReadBadJSON(c) \/ PongHandler(c) \/ ReadPumpReturn(c)
             \/ WritePumpDrain(c) \/ WritePumpReturn(c)
    BY <1>5, <2>3, QuietSession
  <2> QED BY <1>5, <2>1, <2>2, <2>3 DEF PumpStep
<1>6. ASSUME NEW id \in DOMAIN slots, Expire(id)
      PROVE  SessionInv'
  <2>1. /\ slotID' = slotID /\ slots' = slots /\ send' = send /\ crashed' = crashed
        /\ conns' = conns /\ register' = register /\ inbound' = inbound
        /\ requests' = requests
    BY <1>6 DEF Expire, connVars, pumps
  <2> QED BY <2>1 DEF SessionInv, SingleRequest, NoGhostMember, RelayIsolation
<1> QED BY <1>1, <1>2, <1>3, <1>4, <1>5, <1>6 DEF Next, HubStep

\* With clients that send one create or join per connection, the inductive
\* session invariant holds throughout.
THEOREM SessionInvariance ==
  ASSUME MaxRequests <= 1
  PROVE  Spec => [](Inv /\ SessionInv)
<1>1. Init => Inv /\ SessionInv
  BY InitInv, InitSession
<1>2. Inv /\ SessionInv /\ [Next]_vars => (Inv /\ SessionInv)'
  BY NextInv, NextSession
<1> QED BY <1>1, <1>2, PTL DEF Spec

\* A relayed frame never leaves the session it was sent in.
THEOREM RelayStaysInSession ==
  ASSUME MaxRequests <= 1
  PROVE  Spec => []RelayIsolation
<1>1. SessionInv => RelayIsolation
  BY DEF SessionInv
<1> QED BY <1>1, SessionInvariance, PTL

\* No live slot lists a connection the hub has already torn down.
THEOREM NoGhostMembers ==
  ASSUME MaxRequests <= 1
  PROVE  Spec => []NoGhostMember
<1>1. SessionInv => NoGhostMember
  BY DEF SessionInv
<1> QED BY <1>1, SessionInvariance, PTL

=============================================================================
