---------------------------- MODULE RedisProofs -----------------------------
(***************************************************************************)
(* Proofs about RedisStore, for any number of processes, connections,      *)
(* codes and faults, and any times to live.                                *)
(*                                                                         *)
(* That a code which is found leads to the slot of its holder rests on:    *)
(* what a task has read or is about to write belongs to the connection the *)
(* slot is named after (Tasks, Records); the code key is written first and *)
(* deleted last, and never lives longer than the slot key (Named); between *)
(* SETNX and SET nobody but its own task takes the code key away without   *)
(* leaving a trace in hit (Claimed); and a slot that has not expired has   *)
(* at least as much time left in both keys, but for what the ttl falls     *)
(* short of a slot's life (Held).                                          *)
(***************************************************************************)
EXTENDS RedisStore, TLAPS

Slots ==
  [code : Codes \cup {None}, state : States, initiator : Conns \cup {None}, joins : Nat,
   peers : UNION {[S -> Conns] : S \in SUBSET Nat}, maxPeers : Nat, everFull : BOOLEAN]

Ops == {"idle", "create", "join", "leave"}

TaskSet ==
  [op : Ops, at : Ats, c : Conns \cup {None}, code : Codes \cup {None}, id : Conns \cup {None},
   sl : Slots, n : 0 .. MaxAttempts, ticks : {0, 1}]

\* TypeOK with the types of slots and tasks.
Types ==
  /\ code \in [Codes -> [id : Conns \cup {None}, left : 0 .. TTL]]
  /\ stored \in [Conns -> [sl : Slots, left : 0 .. TTL]]
  /\ \A k \in Codes : code[k].left > 0 <=> code[k].id # None
  /\ \A id \in Conns : stored[id].left > 0 <=> stored[id].sl.code # None
  /\ fresh \in [Conns -> 0 .. DefaultTTL]
  /\ conns \in SUBSET Conns /\ moves \in [Conns -> 0 .. 2]
  /\ slotID \in [Conns -> Conns \cup {None}]
  /\ told \in [Conns -> Codes \cup {None}]
  /\ hit \in SUBSET Codes
  /\ faults \in 0 .. MaxFaults
  /\ task \in [Brokers -> TaskSet]

Writing == {"setnx", "set", "undo"}
Reading == {"getslot", "update"}
Deleting == {"get", "delslot", "delcode"}

\* sl is what connection id made, under the code it was told if it was told one.
Belongs(id, sl, tl, mv) ==
  /\ sl.code \in Codes /\ sl.initiator = id
  /\ tl[id] # None => sl.code = tl[id]
  /\ mv[id] > 0

\* What task t of hub b is about, command by command.
Shape(b, t, tl, mv, f) ==
  /\ t.at = "idle" => t = Idle
  /\ t.at # "idle" => t.c \in Conns /\ Home[t.c] = b /\ mv[t.c] > 0 /\ t.op # "idle"
  /\ t.op = "create" => /\ t.at \in Writing /\ t.id = t.c /\ t.code \in Codes
                        /\ t.sl.code = t.code /\ t.sl.initiator = t.c /\ tl[t.c] = None
  /\ t.op = "join" => t.at \in {"getcode"} \cup Reading \cup Deleting /\ tl[t.c] = None
  /\ t.op = "leave" => /\ t.at \in Reading \cup Deleting /\ mv[t.c] = 2
                       /\ t.at \in Deleting => t.c = t.id
  /\ t.at = "getcode" => t.code \in Codes
  /\ t.at \in Reading \cup Deleting => t.id \in Conns
  /\ t.at = "undo" => f > 0
  /\ t.at = "update" => Belongs(t.id, t.sl, tl, mv)
  /\ t.at \in {"delslot", "delcode"} =>
       t.code \in Codes /\ (tl[t.id] # None => t.code = tl[t.id]) /\ mv[t.id] > 0

Tasks == \A b \in Brokers : Shape(b, task[b], told, moves, faults)

\* The keys in Redis belong to connections that have asked for them; nobody else is at
\* the keys of a slot that is being created.
Records ==
  /\ \A i \in Conns : stored[i].left > 0 => Belongs(i, stored[i].sl, told, moves)
  /\ \A k \in Codes : code[k].left > 0 => moves[code[k].id] > 0
  /\ \A c \in Conns : told[c] # None => moves[c] > 0
  /\ \A b \in Brokers : task[b].at \in {"setnx", "set"} =>
       /\ stored[task[b].id].left = 0
       /\ \A d \in Brokers : task[d].at \in {"update", "delslot", "delcode"} => task[d].id # task[b].id

\* While nothing has failed, a code key is that of a slot being created, of a slot that
\* is there at least as long, or of one whose deletion has come to the code key.
Named ==
  faults = 0 =>
    \A k \in Codes : code[k].left > 0 =>
      \/ \E b \in Brokers : task[b].at = "set" /\ task[b].id = code[k].id /\ task[b].code = k
      \/ /\ told[code[k].id] = k
         /\ \/ stored[code[k].id].left > 0 /\ code[k].left <= stored[code[k].id].left
            \/ \E b \in Brokers : task[b].at = "delcode" /\ task[b].code = k

\* The code key that a task has claimed is its own and young.
Claimed ==
  \A b \in Brokers : task[b].at \in {"set", "undo"} /\ task[b].code \notin hit =>
    /\ code[task[b].code].id = task[b].id
    /\ code[task[b].code].left >= TTL - task[b].ticks
    /\ fresh[task[b].id] <= code[task[b].code].left + Shortfall

\* CodeKept with the time that both keys have left.
Held ==
  \A c \in conns :
    told[c] # None /\ told[c] \notin hit /\ moves[c] = 1 /\ fresh[c] > Shortfall
      => /\ code[told[c]].id = c /\ fresh[c] <= code[told[c]].left + Shortfall
         /\ stored[c].left > 0 /\ fresh[c] <= stored[c].left + Shortfall

Inv == Types /\ Tasks /\ Records /\ Named /\ Claimed /\ Held

-----------------------------------------------------------------------------
(* Slots and tasks.                                                        *)

\* No slot's life is longer than the ttl and what it falls short of it.
LEMMA ShortfallFact == Shortfall \in Nat /\ DefaultTTL <= TTL + Shortfall
BY RedisAssumption DEF Shortfall

\* A new slot, and the empty one.
LEMMA NewSlotFact ==
  ASSUME NEW k \in Codes \cup {None}, NEW c \in Conns \cup {None}
  PROVE  New(k, c, 0) \in Slots /\ New(k, c, 0).code = k /\ New(k, c, 0).initiator = c
<1>1. [n \in {} |-> c] \in UNION {[S -> Conns] : S \in SUBSET Nat}
  <2>1. [n \in {} |-> c] \in [{} -> Conns]
    OBVIOUS
  <2>2. {} \in SUBSET Nat
    OBVIOUS
  <2> QED BY <2>1, <2>2
<1>2. ClampMaxPeers(0) \in Nat
  BY SlotLimits DEF ClampMaxPeers
<1> QED BY <1>1, <1>2 DEF New, Slots, States

\* A join changes neither the code nor the initiator of a slot.
LEMMA JoinFact ==
  ASSUME NEW sl \in Slots, NEW c \in Conns
  PROVE  Join(sl, c) \in Slots /\ Join(sl, c).code = sl.code /\ Join(sl, c).initiator = sl.initiator
<1> DEFINE number == sl.joins + 1
           ps == [n \in PeerNumbers(sl) \cup {number} |-> IF n = number THEN c ELSE sl.peers[n]]
           full == 1 + Cardinality(DOMAIN ps) >= sl.maxPeers
<1>1. PICK S \in SUBSET Nat : sl.peers \in [S -> Conns]
  BY DEF Slots
<1>2. number \in Nat
  BY DEF Slots
<1>3. ps \in [S \cup {number} -> Conns]
  BY <1>1, <1>2 DEF PeerNumbers
<1>4. S \cup {number} \in SUBSET Nat
  BY <1>1, <1>2
<1>5. ps \in UNION {[T -> Conns] : T \in SUBSET Nat}
  BY <1>3, <1>4
<1>6. Join(sl, c) = [sl EXCEPT !.joins = number, !.peers = ps,
                               !.state = IF full THEN "full" ELSE "active", !.everFull = full \/ @]
  BY DEF Join
<1>7. full \in BOOLEAN /\ (full \/ sl.everFull) \in BOOLEAN
  BY DEF Slots
<1> HIDE DEF number, ps, full
<1> QED BY <1>2, <1>5, <1>6, <1>7 DEF Slots, States

\* Nor does the removal of a peer.
LEMMA RemovePeerFact ==
  ASSUME NEW sl \in Slots, NEW c \in Conns
  PROVE  /\ RemovePeer(sl, c) \in Slots /\ RemovePeer(sl, c).code = sl.code
         /\ RemovePeer(sl, c).initiator = sl.initiator
<1> DEFINE kept == {n \in PeerNumbers(sl) : sl.peers[n] # c}
           ps == [n \in kept |-> sl.peers[n]]
           st == IF ~ sl.everFull /\ 1 + Cardinality(kept) < sl.maxPeers
                   THEN IF kept = {} THEN "waiting" ELSE "active" ELSE sl.state
<1>1. PICK S \in SUBSET Nat : sl.peers \in [S -> Conns]
  BY DEF Slots
<1>2. kept \in SUBSET Nat /\ ps \in [kept -> Conns]
  BY <1>1 DEF PeerNumbers
<1>3. ps \in UNION {[T -> Conns] : T \in SUBSET Nat}
  BY <1>2
<1>4. st \in States
  BY DEF Slots, States
<1>5. RemovePeer(sl, c) = [sl EXCEPT !.peers = ps, !.state = st]
  BY DEF RemovePeer
<1> HIDE DEF kept, ps, st
<1> QED BY <1>3, <1>4, <1>5 DEF Slots

\* A hub at rest.
LEMMA IdleFact ==
  /\ Idle \in TaskSet /\ NoSlot \in Slots /\ NoSlot.code = None
  /\ Idle.at = "idle" /\ Idle.op = "idle"
<1>1. NoSlot \in Slots /\ NoSlot.code = None
  BY NewSlotFact DEF NoSlot
<1> QED BY <1>1, RedisAssumption, ShortfallFact DEF Idle, TaskSet, Ops, Ats

\* A hub at rest has the shape of one.
LEMMA IdleShape ==
  ASSUME NEW b, NEW tl, NEW mv, NEW f
  PROVE  Shape(b, Idle, tl, mv, f)
BY IdleFact DEF Shape, Writing, Reading, Deleting

\* A task keeps its shape as long as nobody is told a code.
LEMMA ShapeKept ==
  ASSUME NEW b, NEW t \in TaskSet, NEW tl, NEW mv \in [Conns -> 0 .. 2], NEW mv2 \in [Conns -> 0 .. 2],
         \A c \in Conns : mv2[c] >= mv[c], NEW f \in Nat, NEW f2 \in Nat, f2 >= f,
         Shape(b, t, tl, mv, f)
  PROVE  Shape(b, t, tl, mv2, f2)
BY DEF Shape, Belongs, TaskSet, Writing, Reading, Deleting, Ops

-----------------------------------------------------------------------------
(* Steps that leave the keys alone.                                        *)

\* Types of one task's new state and of the rest.
LEMMA TaskTypes ==
  ASSUME Types, NEW b \in Brokers, NEW t2 \in TaskSet, task' = [task EXCEPT ![b] = t2]
  PROVE  /\ task' \in [Brokers -> TaskSet] /\ task'[b] = t2
         /\ \A d \in Brokers : d # b => task'[d] = task[d]
BY DEF Types

\* The other tasks keep their shape.
LEMMA OthersShape ==
  ASSUME Types, Tasks, NEW b \in Brokers, NEW t2 \in TaskSet, task' = [task EXCEPT ![b] = t2],
         told' = told, moves' \in [Conns -> 0 .. 2], \A c \in Conns : moves'[c] >= moves[c],
         faults' \in 0 .. MaxFaults, faults' >= faults, Shape(b, t2, told', moves', faults')
  PROVE  Tasks'
<1> SUFFICES ASSUME NEW d \in Brokers
             PROVE  Shape(d, task'[d], told', moves', faults')
  BY DEF Tasks
<1>1. CASE d = b
  BY <1>1, TaskTypes
<1>2. CASE d # b
  <2>1. task'[d] = task[d] /\ task[d] \in TaskSet
    BY <1>2, TaskTypes DEF Types
  <2>2. Shape(d, task[d], told, moves, faults)
    BY DEF Tasks
  <2>3. faults \in Nat /\ faults' \in Nat /\ moves \in [Conns -> 0 .. 2]
    BY RedisAssumption, ShortfallFact DEF Types
  <2>4. Shape(d, task[d], told, moves', faults')
    BY <2>1, <2>2, <2>3, ShapeKept
  <2> QED BY <2>1, <2>4
<1> QED BY <1>1, <1>2

\* A step that changes what hub b does, but no key.
LEMMA TaskOnly ==
  ASSUME Inv, NEW b \in Brokers, NEW t2 \in TaskSet, task' = [task EXCEPT ![b] = t2],
         UNCHANGED <<code, stored, told>>,
         fresh' \in [Conns -> 0 .. DefaultTTL],
         \A c \in Conns : \/ fresh'[c] = fresh[c]
                          \/ /\ told[c] = None
                             /\ \A d \in Brokers : d # b /\ task[d].at \in {"set", "undo"} => task[d].id # c,
         conns' \in SUBSET conns, slotID' \in [Conns -> Conns \cup {None}],
         moves' \in [Conns -> 0 .. 2], \A c \in Conns : moves'[c] >= moves[c],
         faults' \in 0 .. MaxFaults, faults' >= faults,
         hit' \in SUBSET Codes, hit \subseteq hit',
         Shape(b, t2, told', moves', faults'), t2.at \notin {"set", "undo"},
         t2.at = "setnx" => /\ stored[t2.id].left = 0
                            /\ \A d \in Brokers : d # b /\ task[d].at \in {"update", "delslot", "delcode"}
                                 => task[d].id # t2.id,
         t2.at \in {"update", "delslot", "delcode"} =>
           \A d \in Brokers : d # b /\ task[d].at \in {"setnx", "set"} => task[d].id # t2.id,
         faults' = 0 => task[b].at \notin {"set", "delcode"}
  PROVE  Inv'
<1> USE DEF Inv
<1>1. /\ task' \in [Brokers -> TaskSet] /\ task'[b] = t2
      /\ \A d \in Brokers : d # b => task'[d] = task[d]
  BY TaskTypes
<1>2. Types'
  BY <1>1 DEF Types
<1>3. Tasks'
  BY OthersShape
<1>4. Records'
  <2>1. \A i \in Conns : stored'[i].left > 0 => Belongs(i, stored'[i].sl, told', moves')
    BY DEF Records, Types, Belongs
  <2>2. \A k \in Codes : code'[k].left > 0 => moves'[code'[k].id] > 0
    <3> SUFFICES ASSUME NEW k \in Codes, code'[k].left > 0 PROVE moves'[code'[k].id] > 0
      OBVIOUS
    <3>1. code[k].id \in Conns /\ moves[code[k].id] > 0
      BY DEF Types, Records
    <3> QED BY <3>1 DEF Types
  <2>3. ASSUME NEW c \in Conns, told'[c] # None
        PROVE  moves'[c] > 0
    <3>1. moves[c] > 0
      BY <2>3 DEF Records
    <3>2. moves'[c] >= moves[c] /\ moves[c] \in Int /\ moves'[c] \in Int
      BY DEF Types
    <3> QED BY <3>1, <3>2
  <2>4. ASSUME NEW d \in Brokers, task'[d].at \in {"setnx", "set"}
        PROVE  /\ stored'[task'[d].id].left = 0
               /\ \A e \in Brokers : task'[e].at \in {"update", "delslot", "delcode"} => task'[e].id # task'[d].id
    <3>1. CASE d = b
      <4>1. task'[d] = t2 /\ t2.at = "setnx"
        BY <1>1, <2>4, <3>1
      <4>2. stored[t2.id].left = 0
        BY <4>1
      <4>3. ASSUME NEW e \in Brokers, task'[e].at \in {"update", "delslot", "delcode"}
            PROVE  task'[e].id # t2.id
        <5>1. e # b
          BY <4>1, <4>3, <1>1
        <5> QED BY <5>1, <4>1, <4>3, <1>1
      <4> QED BY <4>1, <4>2, <4>3
    <3>2. CASE d # b
      <4>1. task'[d] = task[d]
        BY <1>1, <3>2
      <4>2. stored[task[d].id].left = 0
        BY <4>1, <2>4 DEF Records
      <4>3. ASSUME NEW e \in Brokers, task'[e].at \in {"update", "delslot", "delcode"}
            PROVE  task'[e].id # task[d].id
        <5>1. CASE e = b
          BY <5>1, <4>1, <4>3, <2>4, <3>2, <1>1
        <5>2. CASE e # b
          BY <5>2, <4>1, <4>3, <2>4, <1>1 DEF Records
        <5> QED BY <5>1, <5>2
      <4> QED BY <4>1, <4>2, <4>3
    <3> QED BY <3>1, <3>2
  <2> QED BY <2>1, <2>2, <2>3, <2>4 DEF Records
<1>5. Named'
  <2> SUFFICES ASSUME faults' = 0, NEW k \in Codes, code[k].left > 0
               PROVE  \/ \E d \in Brokers : task'[d].at = "set" /\ task'[d].id = code[k].id /\ task'[d].code = k
                      \/ /\ told[code[k].id] = k
                         /\ \/ stored[code[k].id].left > 0 /\ code[k].left <= stored[code[k].id].left
                            \/ \E d \in Brokers : task'[d].at = "delcode" /\ task'[d].code = k
    BY DEF Named
  <2>1. faults = 0 /\ task[b].at \notin {"set", "delcode"}
    BY DEF Types
  <2>2. \/ \E d \in Brokers : task[d].at = "set" /\ task[d].id = code[k].id /\ task[d].code = k
        \/ /\ told[code[k].id] = k
           /\ \/ stored[code[k].id].left > 0 /\ code[k].left <= stored[code[k].id].left
              \/ \E d \in Brokers : task[d].at = "delcode" /\ task[d].code = k
    BY <2>1 DEF Named
  <2>3. \A d \in Brokers : task[d].at \in {"set", "delcode"} => task'[d] = task[d]
    BY <2>1, <1>1
  <2> QED BY <2>2, <2>3
<1>6. Claimed'
  <2> SUFFICES ASSUME NEW d \in Brokers, task'[d].at \in {"set", "undo"}, task'[d].code \notin hit'
               PROVE  /\ code[task'[d].code].id = task'[d].id
                      /\ code[task'[d].code].left >= TTL - task'[d].ticks
                      /\ fresh'[task'[d].id] <= code[task'[d].code].left + Shortfall
    BY DEF Claimed
  <2>1. d # b /\ task'[d] = task[d]
    BY <1>1
  <2>2. /\ code[task[d].code].id = task[d].id
        /\ code[task[d].code].left >= TTL - task[d].ticks
        /\ fresh[task[d].id] <= code[task[d].code].left + Shortfall
    BY <2>1 DEF Claimed
  <2>3. task[d].id \in Conns
    BY <2>1 DEF Tasks, Shape, Types, TaskSet, Ops, Reading, Deleting
  <2>4. fresh'[task[d].id] = fresh[task[d].id]
    BY <2>1, <2>3
  <2> QED BY <2>1, <2>2, <2>4
<1>7. Held'
  <2> SUFFICES ASSUME NEW c \in conns', told[c] # None, told[c] \notin hit', moves'[c] = 1, fresh'[c] > Shortfall
               PROVE  /\ code[told[c]].id = c /\ fresh'[c] <= code[told[c]].left + Shortfall
                      /\ stored[c].left > 0 /\ fresh'[c] <= stored[c].left + Shortfall
    BY DEF Held
  <2>1. c \in conns /\ c \in Conns /\ fresh'[c] = fresh[c]
    BY DEF Types
  <2>2. moves[c] = 1
    <3>1. moves[c] > 0
      BY <2>1 DEF Records
    <3>2. moves'[c] >= moves[c] /\ moves[c] \in Int
      BY <2>1 DEF Types
    <3> QED BY <3>1, <3>2
  <2> QED BY <2>1, <2>2 DEF Held
<1> QED BY <1>2, <1>3, <1>4, <1>5, <1>6, <1>7

\* createSlot begins.
LEMMA CreateSlotStep ==
  ASSUME Inv, NEW c \in Conns, NEW k \in Codes, CreateSlot(c, k)
  PROVE  Inv'
<1> USE DEF Inv
<1> DEFINE b == Home[c]
           t2 == [Idle EXCEPT !.op = "create", !.at = "setnx", !.c = c, !.code = k, !.id = c,
                              !.sl = New(k, c, 0), !.n = 1]
<1>1. b \in Brokers
  BY RedisAssumption, ShortfallFact
<1>2. /\ t2 \in TaskSet /\ t2.op = "create" /\ t2.at = "setnx" /\ t2.c = c /\ t2.code = k /\ t2.id = c
      /\ t2.sl = New(k, c, 0)
  <2>1. New(k, c, 0) \in Slots /\ 1 \in 0 .. MaxAttempts /\ Idle \in TaskSet
    BY NewSlotFact, IdleFact, RedisAssumption, ShortfallFact
  <2> QED BY <2>1 DEF TaskSet, Ops, Ats
<1>3. New(k, c, 0).code = k /\ New(k, c, 0).initiator = c
  BY NewSlotFact
<1>4. /\ task' = [task EXCEPT ![b] = t2] /\ moves[c] = 0 /\ moves' = [moves EXCEPT ![c] = 1]
      /\ fresh' = [fresh EXCEPT ![c] = DefaultTTL] /\ task[b] = Idle
      /\ UNCHANGED <<code, stored, conns, slotID, told, hit, faults>>
  BY DEF CreateSlot, Begin, redis
<1> HIDE DEF b, t2
<1>5. told[c] = None /\ stored[c].left = 0
  BY <1>4 DEF Records, Belongs, Types
<1>6. \A d \in Brokers : task[d].at \in {"update", "delslot", "delcode", "set", "undo", "setnx"} => task[d].id # c
  BY <1>4 DEF Tasks, Shape, Belongs, Types, TaskSet, Ops, Writing, Reading, Deleting
<1>7. moves' \in [Conns -> 0 .. 2] /\ (\A d \in Conns : moves'[d] >= moves[d]) /\ moves'[c] > 0
  BY <1>4 DEF Types
<1>8. Shape(b, t2, told', moves', faults')
  BY <1>2, <1>3, <1>4, <1>5, <1>7 DEF Shape, Writing, Reading, Deleting, b
<1>9. fresh' \in [Conns -> 0 .. DefaultTTL] /\ \A d \in Conns : d # c => fresh'[d] = fresh[d]
  BY <1>4, RedisAssumption, ShortfallFact DEF Types
<1>10. faults' \in 0 .. MaxFaults /\ faults' >= faults /\ slotID' \in [Conns -> Conns \cup {None}]
       /\ conns' \in SUBSET conns /\ hit' \in SUBSET Codes /\ hit \subseteq hit'
  BY <1>4 DEF Types
<1>11. task[b].at = "idle"
  BY <1>4, IdleFact
<1>12. UNCHANGED <<code, stored, told>>
  BY <1>4
<1>13. \A x \in Conns : \/ fresh'[x] = fresh[x]
                         \/ /\ told[x] = None
                            /\ \A d \in Brokers : d # b /\ task[d].at \in {"set", "undo"} => task[d].id # x
  BY <1>5, <1>6, <1>9
<1>14. \A d \in Brokers : d # b /\ task[d].at \in {"update", "delslot", "delcode"} => task[d].id # t2.id
  BY <1>2, <1>6
<1> QED BY <1>1, <1>2, <1>4, <1>5, <1>7, <1>8, <1>9, <1>10, <1>11, <1>12, <1>13, <1>14, TaskOnly, ZenonT(40)

\* A step of hub b's task that changes nothing but the task, the map and the connections' state.
LEMMA QuietStep ==
  ASSUME Inv, NEW b \in Brokers, NEW t2 \in TaskSet, task' = [task EXCEPT ![b] = t2],
         UNCHANGED <<code, stored, fresh, told>>,
         conns' \in SUBSET conns, slotID' \in [Conns -> Conns \cup {None}],
         moves' \in [Conns -> 0 .. 2], \A c \in Conns : moves'[c] >= moves[c],
         faults' \in 0 .. MaxFaults, faults' >= faults,
         hit' \in SUBSET Codes, hit \subseteq hit',
         Shape(b, t2, told', moves', faults'), t2.at \notin {"setnx", "set", "undo"},
         t2.at \in {"update", "delslot", "delcode"} =>
           \A d \in Brokers : d # b /\ task[d].at \in {"setnx", "set"} => task[d].id # t2.id,
         faults' = 0 => task[b].at \notin {"set", "delcode"}
  PROVE  Inv'
<1>1. UNCHANGED <<code, stored, told>>
  OBVIOUS
<1>2. fresh' \in [Conns -> 0 .. DefaultTTL]
  BY DEF Inv, Types
<1>3. \A c \in Conns : fresh'[c] = fresh[c]
  OBVIOUS
<1> QED BY <1>1, <1>2, <1>3, TaskOnly

\* handleSlotJoin begins.
LEMMA JoinSlotStep ==
  ASSUME Inv, NEW c \in Conns, NEW k \in Codes, JoinSlot(c, k)
  PROVE  Inv'
<1> USE DEF Inv
<1> DEFINE b == Home[c]
           t2 == [Idle EXCEPT !.op = "join", !.at = "getcode", !.c = c, !.code = k]
<1>1. b \in Brokers
  BY RedisAssumption, ShortfallFact
<1>2. t2 \in TaskSet /\ t2.op = "join" /\ t2.at = "getcode" /\ t2.c = c /\ t2.code = k
  BY IdleFact DEF TaskSet, Ops, Ats
<1>3. /\ task' = [task EXCEPT ![b] = t2] /\ moves[c] = 0 /\ moves' = [moves EXCEPT ![c] = 1]
      /\ task[b] = Idle /\ UNCHANGED <<code, stored, fresh, conns, slotID, told, hit, faults>>
  BY DEF JoinSlot, Begin, redis
<1> HIDE DEF b, t2
<1>4. told[c] = None
  BY <1>3 DEF Records, Types
<1>5. moves' \in [Conns -> 0 .. 2] /\ (\A d \in Conns : moves'[d] >= moves[d]) /\ moves'[c] > 0
  BY <1>3 DEF Types
<1>6. Shape(b, t2, told', moves', faults')
  BY <1>2, <1>3, <1>4, <1>5 DEF Shape, Writing, Reading, Deleting, b
<1>7. faults' \in 0 .. MaxFaults /\ faults' >= faults /\ slotID' \in [Conns -> Conns \cup {None}]
      /\ conns' \in SUBSET conns /\ hit' \in SUBSET Codes /\ hit \subseteq hit'
  BY <1>3 DEF Types
<1>8. task[b].at = "idle"
  BY <1>3, IdleFact
<1>9. UNCHANGED <<code, stored, fresh, told>>
  BY <1>3
<1> QED BY <1>1, <1>2, <1>3, <1>5, <1>6, <1>7, <1>8, <1>9, QuietStep

\* handleDisconnect and handleBye begin, or have nothing to do.
LEMMA LeaveSlotStep ==
  ASSUME Inv, NEW c \in Conns, NEW gone \in BOOLEAN, LeaveSlot(c, gone)
  PROVE  Inv'
<1> USE DEF Inv
<1> DEFINE b == Home[c]
           t2 == IF slotID[c] = None THEN Idle
                 ELSE [Idle EXCEPT !.op = "leave", !.at = "getslot", !.c = c, !.id = slotID[c]]
<1>1. b \in Brokers
  BY RedisAssumption, ShortfallFact
<1>2. /\ moves' = [moves EXCEPT ![c] = 2] /\ conns' \in SUBSET conns /\ task[b] = Idle
      /\ UNCHANGED <<code, stored, fresh, slotID, told, hit, faults>>
  BY DEF LeaveSlot, Begin, redis
<1>3. moves' \in [Conns -> 0 .. 2] /\ (\A d \in Conns : moves'[d] >= moves[d]) /\ moves'[c] = 2
  BY <1>2 DEF Types
<1>4. task' = [task EXCEPT ![b] = t2] /\ t2 \in TaskSet /\ Shape(b, t2, told', moves', faults')
      /\ t2.at \in {"idle", "getslot"}
  <2>1. CASE slotID[c] = None
    <3>1. t2 = Idle /\ task' = task
      BY <2>1 DEF LeaveSlot
    <3>2. task' = [task EXCEPT ![b] = t2]
      BY <3>1, <1>1, <1>2 DEF Types
    <3> HIDE DEF t2
    <3> QED BY <3>1, <3>2, IdleFact, IdleShape
  <2>2. CASE slotID[c] # None
    <3>1. t2 = [Idle EXCEPT !.op = "leave", !.at = "getslot", !.c = c, !.id = slotID[c]]
      BY <2>2
    <3>2. task' = [task EXCEPT ![b] = t2]
      BY <2>2, <3>1 DEF LeaveSlot, Begin
    <3>3. slotID[c] \in Conns
      BY <2>2 DEF Types
    <3>4. t2 \in TaskSet /\ t2.op = "leave" /\ t2.at = "getslot" /\ t2.c = c /\ t2.id = slotID[c]
      BY <3>1, <3>3, IdleFact DEF TaskSet, Ops, Ats
    <3> HIDE DEF t2
    <3>5. Shape(b, t2, told', moves', faults')
      BY <3>3, <3>4, <1>3 DEF Shape, Writing, Reading, Deleting
    <3> QED BY <3>2, <3>4, <3>5
  <2> QED BY <2>1, <2>2
<1> HIDE DEF b, t2
<1>7. faults' \in 0 .. MaxFaults /\ faults' >= faults /\ slotID' \in [Conns -> Conns \cup {None}]
      /\ hit' \in SUBSET Codes /\ hit \subseteq hit'
  BY <1>2 DEF Types
<1>8. task[b].at = "idle"
  BY <1>2, IdleFact
<1>9. UNCHANGED <<code, stored, fresh, told>>
  BY <1>2
<1> QED BY <1>1, <1>2, <1>3, <1>4, <1>7, <1>8, <1>9, QuietStep

-----------------------------------------------------------------------------
(* Commands that only read, and commands that fail without effect.         *)

\* What a failing and a working command do to the count of faults.
LEMMA FaultsFact ==
  ASSUME Types, Works \/ Fails
  PROVE  faults' \in 0 .. MaxFaults /\ faults' >= faults /\ (Fails => faults' > 0)
BY RedisAssumption, ShortfallFact DEF Types, Works, Fails

\* The hub gives up, or is done, and no key has changed.
LEMMA ReturnStep ==
  ASSUME Inv, NEW b \in Brokers, Return(b), UNCHANGED <<code, stored, fresh, told, moves>>,
         conns' \in SUBSET conns, slotID' \in [Conns -> Conns \cup {None}],
         hit' \in SUBSET Codes, hit \subseteq hit', Works \/ Fails,
         Works => task[b].at \notin {"set", "delcode"}
  PROVE  Inv'
<1>1. task' = [task EXCEPT ![b] = Idle]
  BY DEF Return
<1>2. faults' \in 0 .. MaxFaults /\ faults' >= faults /\ (faults' = 0 => task[b].at \notin {"set", "delcode"})
  BY FaultsFact DEF Inv, Types
<1>3. moves' \in [Conns -> 0 .. 2] /\ \A c \in Conns : moves'[c] >= moves[c]
  BY DEF Inv, Types
<1>4. UNCHANGED <<code, stored, fresh, told>>
  OBVIOUS
<1> QED BY <1>1, <1>2, <1>3, <1>4, IdleFact, IdleShape, QuietStep

\* The same for a handler's command, which leaves the connections alone.
LEMMA GiveUp ==
  ASSUME Inv, NEW b \in Brokers, Return(b), UNCHANGED <<code, stored, fresh, hubVars>>,
         hit' \in SUBSET Codes, hit \subseteq hit', Works \/ Fails,
         Works => task[b].at \notin {"set", "delcode"}
  PROVE  Inv'
<1>1. UNCHANGED <<code, stored, fresh, told, moves>> /\ conns' = conns /\ slotID' = slotID
  BY DEF hubVars
<1>2. conns' \in SUBSET conns /\ slotID' \in [Conns -> Conns \cup {None}]
  BY <1>1 DEF Inv, Types
<1> QED BY <1>1, <1>2, ReturnStep

\* The task goes on to another command without having changed a key.
LEMMA GoesOn ==
  ASSUME Inv, NEW b \in Brokers, NEW t2 \in TaskSet, task' = [task EXCEPT ![b] = t2],
         UNCHANGED <<code, stored, fresh, hubVars, hit>>, Works,
         Shape(b, t2, told, moves, faults), t2.at \notin {"setnx", "set", "undo"},
         t2.at \in {"update", "delslot", "delcode"} => t2.id \in Conns /\ stored[t2.id].left > 0,
         task[b].at \notin {"set", "delcode"}
  PROVE  Inv'
<1>1. /\ UNCHANGED <<code, stored, fresh, told>> /\ conns' = conns /\ slotID' = slotID /\ moves' = moves
      /\ hit' = hit /\ faults' = faults
  BY DEF hubVars, Works
<1>2. conns' \in SUBSET conns /\ slotID' \in [Conns -> Conns \cup {None}] /\ hit' \in SUBSET Codes
      /\ hit \subseteq hit' /\ faults' \in 0 .. MaxFaults /\ faults' >= faults
      /\ moves' \in [Conns -> 0 .. 2] /\ \A c \in Conns : moves'[c] >= moves[c]
  BY <1>1 DEF Inv, Types
<1>3. t2.at \in {"update", "delslot", "delcode"} =>
        \A d \in Brokers : d # b /\ task[d].at \in {"setnx", "set"} => task[d].id # t2.id
  BY DEF Inv, Records
<1>4. Shape(b, t2, told', moves', faults')
  BY <1>1
<1> QED BY <1>1, <1>2, <1>3, <1>4, QuietStep

\* GetByCode's first command.
LEMMA GetCodeStep ==
  ASSUME Inv, NEW b \in Brokers, GetCode(b)
  PROVE  Inv'
<1> USE DEF Inv
<1> DEFINE t == task[b]
<1>1. t.at = "getcode" /\ UNCHANGED <<code, stored, fresh, hubVars, hit>>
  BY DEF GetCode, redis
<1>2. hit' \in SUBSET Codes /\ hit \subseteq hit'
  BY <1>1 DEF Types
<1>3. CASE Return(b) /\ (Works \/ Fails)
  BY <1>1, <1>2, <1>3, GiveUp
<1>4. CASE Works /\ HasCode(t.code) /\ task' = [task EXCEPT ![b].at = "getslot", ![b].id = code[t.code].id]
  <2> DEFINE t2 == [t EXCEPT !.at = "getslot", !.id = code[t.code].id]
  <2>1. t \in TaskSet /\ Shape(b, t, told, moves, faults)
    BY DEF Types, Tasks
  <2>2. t.code \in Codes /\ t.op = "join" /\ t.c \in Conns /\ Home[t.c] = b /\ moves[t.c] > 0 /\ told[t.c] = None
    BY <1>1, <2>1 DEF Shape, TaskSet, Ops, Writing, Reading, Deleting
  <2>3. code[t.code].id \in Conns
    BY <1>4, <2>2 DEF HasCode, Types
  <2>4. task' = [task EXCEPT ![b] = t2]
    BY <1>4 DEF Types
  <2>5. /\ t2 \in TaskSet /\ t2.at = "getslot" /\ t2.id = code[t.code].id /\ t2.c = t.c /\ t2.op = "join"
    BY <2>1, <2>2, <2>3 DEF TaskSet, Ats
  <2> HIDE DEF t2
  <2>6. Shape(b, t2, told, moves, faults)
    BY <2>2, <2>3, <2>5 DEF Shape, Writing, Reading, Deleting
  <2> QED BY <1>1, <1>4, <2>4, <2>5, <2>6, GoesOn
<1> QED BY <1>3, <1>4 DEF GetCode

\* GetByCode's second command or GetByID, and what the handler makes of the slot.
LEMMA GetSlotStep ==
  ASSUME Inv, NEW b \in Brokers, GetSlot(b)
  PROVE  Inv'
<1> USE DEF Inv
<1> DEFINE t == task[b]
           sl == stored[t.id].sl
<1>1. t.at = "getslot" /\ UNCHANGED <<code, stored, fresh, hubVars, hit>>
  BY DEF GetSlot, redis
<1>2. hit' \in SUBSET Codes /\ hit \subseteq hit'
  BY <1>1 DEF Types
<1>3. CASE Return(b) /\ (Works \/ Fails)
  BY <1>1, <1>2, <1>3, GiveUp
<1>4. CASE Works /\ HasSlot(t.id) /\ task' = [task EXCEPT ![b] = Decide(t, sl)]
  <2>1. t \in TaskSet /\ Shape(b, t, told, moves, faults)
    BY DEF Types, Tasks
  <2>2. /\ t.id \in Conns /\ t.op \in {"join", "leave"} /\ t.c \in Conns /\ Home[t.c] = b /\ moves[t.c] > 0
        /\ t.op = "join" => told[t.c] = None
        /\ t.op = "leave" => moves[t.c] = 2
    BY <1>1, <2>1 DEF Shape, TaskSet, Ops, Writing, Reading, Deleting
  <2>3. sl \in Slots /\ stored[t.id].left > 0
    BY <1>4, <2>2 DEF HasSlot, Types
  <2>4. Belongs(t.id, sl, told, moves)
    BY <2>2, <2>3 DEF Records
  <2> HIDE DEF t, sl
  <2>5. CASE Decide(t, sl) = Idle
    <3>1. Return(b)
      BY <1>4, <2>5 DEF Return
    <3> QED BY <3>1, <1>1, <1>2, <1>4, GiveUp DEF t
  <2>6. CASE Decide(t, sl) = [t EXCEPT !.at = "get"] /\ (t.op = "leave" => t.c = t.id)
    <3> DEFINE t2 == [t EXCEPT !.at = "get"]
    <3>1. task' = [task EXCEPT ![b] = t2]
      BY <1>4, <2>6
    <3>2. t2 \in TaskSet /\ t2.at = "get" /\ t2.id = t.id /\ t2.c = t.c /\ t2.op = t.op
      BY <2>1 DEF TaskSet, Ats
    <3> HIDE DEF t2
    <3>3. Shape(b, t2, told, moves, faults)
      BY <2>2, <2>6, <3>2 DEF Shape, Writing, Reading, Deleting
    <3> QED BY <1>1, <1>4, <3>1, <3>2, <3>3, GoesOn DEF t
  <2>7. ASSUME NEW sl2 \in Slots, sl2.code = sl.code, sl2.initiator = sl.initiator,
               Decide(t, sl) = [t EXCEPT !.at = "update", !.sl = sl2]
        PROVE  Inv'
    <3> DEFINE t2 == [t EXCEPT !.at = "update", !.sl = sl2]
    <3>1. task' = [task EXCEPT ![b] = t2]
      BY <1>4, <2>7
    <3>2. t2 \in TaskSet /\ t2.at = "update" /\ t2.id = t.id /\ t2.c = t.c /\ t2.op = t.op /\ t2.sl = sl2
      BY <2>1, <2>7 DEF TaskSet, Ats
    <3> HIDE DEF t2
    <3>3. Belongs(t2.id, t2.sl, told, moves)
      BY <2>4, <2>7, <3>2 DEF Belongs
    <3>4. Shape(b, t2, told, moves, faults)
      BY <2>2, <3>2, <3>3 DEF Shape, Writing, Reading, Deleting
    <3> QED BY <1>1, <1>4, <2>2, <2>3, <3>1, <3>2, <3>4, GoesOn DEF t
  <2>8. CASE t.op = "join"
    <3>1. \/ Decide(t, sl) = Idle \/ Decide(t, sl) = [t EXCEPT !.at = "get"]
          \/ Decide(t, sl) = [t EXCEPT !.at = "update", !.sl = Join(sl, t.c)]
      BY <2>8 DEF Decide
    <3>2. Join(sl, t.c) \in Slots /\ Join(sl, t.c).code = sl.code /\ Join(sl, t.c).initiator = sl.initiator
      BY <2>2, <2>3, JoinFact
    <3> QED BY <2>5, <2>6, <2>7, <2>8, <3>1, <3>2
  <2>9. CASE t.op = "leave"
    <3>1. \/ Decide(t, sl) = [t EXCEPT !.at = "get"] /\ t.c = t.id
          \/ Decide(t, sl) = [t EXCEPT !.at = "update", !.sl = RemovePeer(sl, t.c)]
      BY <2>9, <2>4 DEF Decide, IsInitiator, Belongs
    <3>2. /\ RemovePeer(sl, t.c) \in Slots /\ RemovePeer(sl, t.c).code = sl.code
          /\ RemovePeer(sl, t.c).initiator = sl.initiator
      BY <2>2, <2>3, RemovePeerFact
    <3> QED BY <2>6, <2>7, <2>9, <3>1, <3>2
  <2> QED BY <2>2, <2>8, <2>9
<1> QED BY <1>3, <1>4 DEF GetSlot

\* Delete reads the slot for its code.
LEMMA DeleteGetStep ==
  ASSUME Inv, NEW b \in Brokers, DeleteGet(b)
  PROVE  Inv'
<1> USE DEF Inv
<1> DEFINE t == task[b]
<1>1. t.at = "get" /\ UNCHANGED <<code, stored, fresh, hubVars, hit>>
  BY DEF DeleteGet, redis
<1>2. hit' \in SUBSET Codes /\ hit \subseteq hit'
  BY <1>1 DEF Types
<1>3. CASE Return(b) /\ (Works \/ Fails)
  BY <1>1, <1>2, <1>3, GiveUp
<1>4. CASE /\ Works /\ HasSlot(t.id)
           /\ task' = [task EXCEPT ![b].at = "delslot", ![b].code = stored[t.id].sl.code]
  <2> DEFINE k == stored[t.id].sl.code
             t2 == [t EXCEPT !.at = "delslot", !.code = k]
  <2>1. t \in TaskSet /\ Shape(b, t, told, moves, faults)
    BY DEF Types, Tasks
  <2>2. /\ t.id \in Conns /\ t.op \in {"join", "leave"} /\ t.c \in Conns /\ Home[t.c] = b /\ moves[t.c] > 0
        /\ t.op = "join" => told[t.c] = None
        /\ t.op = "leave" => moves[t.c] = 2 /\ t.c = t.id
    BY <1>1, <2>1 DEF Shape, TaskSet, Ops, Writing, Reading, Deleting
  <2>3. stored[t.id].left > 0 /\ Belongs(t.id, stored[t.id].sl, told, moves)
    BY <1>4, <2>2 DEF HasSlot, Records, Types
  <2>4. k \in Codes /\ (told[t.id] # None => k = told[t.id]) /\ moves[t.id] > 0
    BY <2>3 DEF Belongs
  <2>5. task' = [task EXCEPT ![b] = t2]
    BY <1>4 DEF Types
  <2> HIDE DEF k
  <2>6. t2 \in TaskSet /\ t2.at = "delslot" /\ t2.id = t.id /\ t2.c = t.c /\ t2.op = t.op /\ t2.code = k
    BY <2>1, <2>4 DEF TaskSet, Ats
  <2> HIDE DEF t2
  <2>7. Shape(b, t2, told, moves, faults)
    BY <2>2, <2>4, <2>6 DEF Shape, Writing, Reading, Deleting
  <2> QED BY <1>1, <1>4, <2>2, <2>3, <2>5, <2>6, <2>7, GoesOn
<1> QED BY <1>3, <1>4 DEF DeleteGet

\* A process dies and comes back.
LEMMA CrashStep ==
  ASSUME Inv, NEW b \in Brokers, Crash(b)
  PROVE  Inv'
<1>1. /\ Fails /\ Return(b) /\ conns' \in SUBSET conns /\ UNCHANGED <<code, stored, fresh, told, moves>>
      /\ hit' = hit /\ slotID' = [c \in Conns |-> IF Home[c] = b THEN None ELSE slotID[c]]
  BY DEF Crash, redis
<1>2. slotID' \in [Conns -> Conns \cup {None}] /\ hit' \in SUBSET Codes /\ hit \subseteq hit'
  BY <1>1 DEF Inv, Types
<1>3. ~ Works
  BY <1>1 DEF Works, Fails, Inv, Types
<1> QED BY <1>1, <1>2, <1>3, ReturnStep

-----------------------------------------------------------------------------
(* Commands that write or delete a key.                                    *)

\* A task that is creating a slot creates that of its connection, on its own hub.
LEMMA CreatorFact ==
  ASSUME Types, Tasks, NEW b \in Brokers, task[b].at \in Writing
  PROVE  /\ task[b] \in TaskSet /\ task[b].op = "create" /\ task[b].c \in Conns /\ Home[task[b].c] = b
         /\ task[b].id = task[b].c /\ task[b].code \in Codes /\ moves[task[b].c] > 0
         /\ told[task[b].c] = None /\ task[b].sl.code = task[b].code /\ task[b].sl.initiator = task[b].c
         /\ task[b].at = "undo" => faults > 0
BY DEF Types, Tasks, Shape, TaskSet, Ops, Writing, Reading, Deleting

\* A task at a Delete: nobody deletes under the name of a connection that is there and was told a code.
LEMMA DeleterFact ==
  ASSUME Types, Tasks, NEW b \in Brokers, task[b].at \in Deleting
  PROVE  /\ task[b] \in TaskSet /\ task[b].op \in {"join", "leave"} /\ task[b].c \in Conns
         /\ Home[task[b].c] = b /\ task[b].id \in Conns
         /\ told[task[b].c] = None \/ moves[task[b].c] = 2
         /\ task[b].at \in {"delslot", "delcode"} =>
              /\ task[b].code \in Codes /\ moves[task[b].id] > 0
              /\ told[task[b].id] # None => task[b].code = told[task[b].id]
BY DEF Types, Tasks, Shape, TaskSet, Ops, Writing, Reading, Deleting

\* A code key goes that no other task has claimed and no holder is to be found under.
LEMMA CodeGone ==
  ASSUME Inv, NEW b \in Brokers, Return(b), NEW k \in Codes, task[b].code = k,
         task[b].at \in {"undo", "delcode"}, DelCode(k), UNCHANGED <<stored, fresh, hubVars>>,
         Works \/ Fails, hit' \in SUBSET Codes, hit \subseteq hit',
         \A d \in Brokers : d # b /\ task[d].at \in {"set", "undo"} /\ task[d].code = k => k \in hit',
         \A c \in conns : told[c] = k /\ moves[c] = 1 /\ fresh[c] > Shortfall => k \in hit'
  PROVE  Inv'
<1> USE DEF Inv
<1>1. /\ task' \in [Brokers -> TaskSet] /\ task'[b] = Idle /\ Idle.at = "idle"
      /\ \A d \in Brokers : d # b => task'[d] = task[d]
  BY TaskTypes, IdleFact DEF Return
<1>2. /\ conns' = conns /\ slotID' = slotID /\ moves' = moves /\ told' = told
      /\ stored' = stored /\ fresh' = fresh
  BY DEF hubVars
<1>3. faults' \in 0 .. MaxFaults /\ faults' >= faults
  BY FaultsFact
<1>4. /\ code' \in [Codes -> [id : Conns \cup {None}, left : 0 .. TTL]]
      /\ code'[k].left = 0 /\ code'[k].id = None /\ \A j \in Codes : j # k => code'[j] = code[j]
  BY RedisAssumption, ShortfallFact DEF DelCode, NoKey, Types
<1>5. Types'
  BY <1>1, <1>2, <1>3, <1>4 DEF Types
<1>6. Tasks'
  <2>1. moves' \in [Conns -> 0 .. 2] /\ \A c \in Conns : moves'[c] >= moves[c]
    BY <1>2 DEF Types
  <2>2. task' = [task EXCEPT ![b] = Idle]
    BY DEF Return
  <2> QED BY <2>1, <2>2, <1>2, <1>3, IdleFact, IdleShape, OthersShape
<1>7. Records'
  <2>1. \A j \in Codes : code'[j].left > 0 => moves'[code'[j].id] > 0
    BY <1>2, <1>4 DEF Records
  <2>2. ASSUME NEW d \in Brokers, task'[d].at \in {"setnx", "set"}
        PROVE  /\ stored'[task'[d].id].left = 0
               /\ \A e \in Brokers : task'[e].at \in {"update", "delslot", "delcode"} => task'[e].id # task'[d].id
    BY <2>2, <1>1, <1>2 DEF Records
  <2> QED BY <2>1, <2>2, <1>2 DEF Records
<1>8. Named'
  <2> SUFFICES ASSUME faults' = 0, NEW j \in Codes, code'[j].left > 0
               PROVE  \/ \E d \in Brokers : task'[d].at = "set" /\ task'[d].id = code'[j].id /\ task'[d].code = j
                      \/ /\ told[code'[j].id] = j
                         /\ \/ stored[code'[j].id].left > 0 /\ code'[j].left <= stored[code'[j].id].left
                            \/ \E d \in Brokers : task'[d].at = "delcode" /\ task'[d].code = j
    BY <1>2 DEF Named
  <2>1. faults = 0 /\ j # k /\ code'[j] = code[j]
    BY <1>3, <1>4 DEF Types
  <2>2. \/ \E d \in Brokers : task[d].at = "set" /\ task[d].id = code[j].id /\ task[d].code = j
        \/ /\ told[code[j].id] = j
           /\ \/ stored[code[j].id].left > 0 /\ code[j].left <= stored[code[j].id].left
              \/ \E d \in Brokers : task[d].at = "delcode" /\ task[d].code = j
    BY <2>1 DEF Named
  <2>3. \A d \in Brokers : task[d].code = j => task'[d] = task[d]
    BY <2>1, <1>1
  <2> QED BY <2>1, <2>2, <2>3
<1>9. Claimed'
  <2> SUFFICES ASSUME NEW d \in Brokers, task'[d].at \in {"set", "undo"}, task'[d].code \notin hit'
               PROVE  /\ code'[task'[d].code].id = task'[d].id
                      /\ code'[task'[d].code].left >= TTL - task'[d].ticks
                      /\ fresh[task'[d].id] <= code'[task'[d].code].left + Shortfall
    BY <1>2 DEF Claimed
  <2>1. d # b /\ task'[d] = task[d] /\ task[d].code # k
    BY <1>1
  <2>2. task[d].code \in Codes
    BY <2>1, CreatorFact DEF Writing
  <2> QED BY <2>1, <2>2, <1>4 DEF Claimed
<1>10. Held'
  <2> SUFFICES ASSUME NEW c \in conns, told[c] # None, told[c] \notin hit', moves[c] = 1, fresh[c] > Shortfall
               PROVE  /\ code'[told[c]].id = c /\ fresh[c] <= code'[told[c]].left + Shortfall
                      /\ stored[c].left > 0 /\ fresh[c] <= stored[c].left + Shortfall
    BY <1>2 DEF Held
  <2>1. told[c] \in Codes /\ told[c] # k
    BY DEF Types
  <2> QED BY <2>1, <1>4 DEF Held
<1> QED BY <1>5, <1>6, <1>7, <1>8, <1>9, <1>10

\* Create takes back the code key it has claimed.
LEMMA UndoStep ==
  ASSUME Inv, NEW b \in Brokers, Undo(b)
  PROVE  Inv'
<1> USE DEF Inv
<1>1. /\ task[b].at = "undo" /\ Return(b) /\ UNCHANGED <<stored, fresh, hubVars>> /\ hit' = hit
      /\ Works \/ Fails
  BY DEF Undo
<1>2. hit' \in SUBSET Codes /\ hit \subseteq hit'
  BY <1>1 DEF Types
<1>3. /\ task[b].code \in Codes /\ task[b].c \in Conns /\ Home[task[b].c] = b /\ task[b].id = task[b].c
      /\ told[task[b].c] = None
  BY <1>1, CreatorFact DEF Writing
<1>4. CASE DelCode(task[b].code)
  <2>1. ASSUME NEW d \in Brokers, d # b, task[d].at \in {"set", "undo"}, task[d].code = task[b].code,
               task[b].code \notin hit
        PROVE  FALSE
    <3>1. task[d].id = task[d].c /\ Home[task[d].c] = d
      BY <2>1, CreatorFact DEF Writing
    <3>2. code[task[b].code].id = task[d].id /\ code[task[b].code].id = task[b].id
      BY <2>1, <1>1 DEF Claimed
    <3> QED BY <2>1, <3>1, <3>2, <1>3
  <2>2. ASSUME NEW c \in conns, told[c] = task[b].code, moves[c] = 1, fresh[c] > Shortfall, task[b].code \notin hit
        PROVE  FALSE
    <3>1. told[c] # None
      BY <2>2, <1>3, RedisAssumption, ShortfallFact
    <3>2. code[task[b].code].id = c /\ code[task[b].code].id = task[b].id
      BY <2>2, <3>1, <1>1 DEF Claimed, Held
    <3> QED BY <3>1, <3>2, <1>3
  <2> QED BY <1>1, <1>2, <1>3, <1>4, <2>1, <2>2, CodeGone
<1>5. CASE UNCHANGED code /\ Fails
  <2>1. ~ Works /\ UNCHANGED <<code, stored, fresh, hubVars>>
    BY <1>1, <1>5 DEF Works, Fails, Types
  <2> QED BY <1>1, <1>2, <2>1, GiveUp
<1> QED BY <1>4, <1>5 DEF Undo

\* The second half of Delete's pipeline.
LEMMA DeleteCodeKeyStep ==
  ASSUME Inv, NEW b \in Brokers, DeleteCodeKey(b)
  PROVE  Inv'
<1> USE DEF Inv
<1> DEFINE t == task[b]
<1>1. /\ t.at = "delcode" /\ Return(b) /\ UNCHANGED <<stored, fresh, hubVars>> /\ (Works \/ Fails)
      /\ hit' = IF HasCode(t.code) /\ code[t.code].id # t.c THEN hit \cup {t.code} ELSE hit
  BY DEF DeleteCodeKey
<1>2. /\ t.c \in Conns /\ Home[t.c] = b /\ t.code \in Codes /\ (told[t.c] = None \/ moves[t.c] = 2)
      /\ t.at # "set" /\ t.at # "undo"
  BY <1>1, DeleterFact DEF Deleting
<1>3. hit' \in SUBSET Codes /\ hit \subseteq hit'
  BY <1>1, <1>2 DEF Types
<1>4. CASE DelCode(t.code)
  <2>1. ASSUME NEW d \in Brokers, d # b, task[d].at \in {"set", "undo"}, task[d].code = t.code, t.code \notin hit'
        PROVE  FALSE
    <3>1. task[d] \in TaskSet /\ task[d].id = task[d].c /\ Home[task[d].c] = d
      BY <2>1, CreatorFact DEF Writing
    <3>2. code[t.code].id = task[d].id /\ code[t.code].left >= TTL - task[d].ticks
      BY <2>1, <1>3 DEF Claimed
    <3>3. HasCode(t.code)
      BY <3>1, <3>2, <1>2, RedisAssumption, ShortfallFact DEF HasCode, Types, TaskSet
    <3>4. code[t.code].id = t.c
      BY <3>3, <1>1, <2>1
    <3> QED BY <2>1, <3>1, <3>2, <3>4, <1>2
  <2>2. ASSUME NEW c \in conns, told[c] = t.code, moves[c] = 1, fresh[c] > Shortfall, t.code \notin hit'
        PROVE  FALSE
    <3>1. told[c] # None /\ c \in Conns
      BY <2>2, <1>2, RedisAssumption, ShortfallFact DEF Types
    <3>2. code[t.code].id = c /\ fresh[c] <= code[t.code].left + Shortfall
      BY <2>2, <3>1, <1>3 DEF Held
    <3>3. HasCode(t.code)
      BY <3>1, <3>2, <2>2, <1>2, RedisAssumption, ShortfallFact DEF HasCode, Types
    <3>4. code[t.code].id = t.c
      BY <3>3, <1>1, <2>2
    <3> QED BY <2>2, <3>1, <3>2, <3>4, <1>2
  <2> QED BY <1>1, <1>2, <1>3, <1>4, <2>1, <2>2, CodeGone
<1>5. CASE UNCHANGED code /\ Fails
  <2>1. ~ Works /\ UNCHANGED <<code, stored, fresh, hubVars>>
    BY <1>1, <1>5 DEF Works, Fails, Types
  <2> QED BY <1>1, <1>3, <2>1, GiveUp
<1> QED BY <1>4, <1>5 DEF DeleteCodeKey

\* SETNX takes effect: the task goes on to SET, or has lost the answer.
LEMMA Claims ==
  ASSUME Inv, NEW b \in Brokers, task[b].at = "setnx", ~ HasCode(task[b].code),
         code' = [code EXCEPT ![task[b].code] = [id |-> task[b].id, left |-> TTL]],
         UNCHANGED <<stored, fresh, hubVars, hit>>,
         (Works /\ Goto(b, "set")) \/ (Fails /\ Return(b))
  PROVE  Inv'
<1> USE DEF Inv
<1> DEFINE t == task[b]
           k == t.code
           t2 == IF Works THEN [t EXCEPT !.at = "set"] ELSE Idle
<1>1. /\ t \in TaskSet /\ t.op = "create" /\ t.c \in Conns /\ Home[t.c] = b
      /\ t.id = t.c /\ k \in Codes /\ moves[t.c] > 0
      /\ told[t.c] = None /\ t.sl.code = k /\ t.sl.initiator = t.c
  BY CreatorFact DEF Writing
<1>2. Fails => ~ Works
  BY DEF Works, Fails, Types
<1>3. task' = [task EXCEPT ![b] = t2]
  BY <1>2 DEF Goto, Return, Types
<1>4. /\ t2 \in TaskSet /\ t2.at \in {"set", "idle"}
      /\ t2.at = "idle" => t2 = Idle /\ faults' > 0
      /\ t2.at = "set" => /\ t2.op = "create" /\ t2.c = t.c /\ t2.code = k /\ t2.id = t.c
                          /\ t2.sl = t.sl /\ t2.ticks = t.ticks
  <2>1. CASE Works
    <3>1. t2 = [t EXCEPT !.at = "set"]
      BY <2>1
    <3> HIDE DEF t2, t
    <3> QED BY <1>1, <3>1 DEF TaskSet, Ats
  <2>2. CASE ~ Works
    <3>1. t2 = Idle /\ Fails
      BY <2>2
    <3>2. faults' > 0
      BY <3>1, FaultsFact
    <3> HIDE DEF t2
    <3> QED BY <3>1, <3>2, IdleFact
  <2> QED BY <2>1, <2>2
<1>5. /\ conns' = conns /\ slotID' = slotID /\ moves' = moves /\ told' = told
      /\ stored' = stored /\ fresh' = fresh /\ hit' = hit
  BY DEF hubVars
<1>6. faults' \in 0 .. MaxFaults /\ faults' >= faults
  BY FaultsFact
<1>7. code[k].left = 0 /\ code[k].id = None
  BY <1>1, RedisAssumption, ShortfallFact DEF HasCode, Types
<1> HIDE DEF t2, k, t
<1>8. /\ task' \in [Brokers -> TaskSet] /\ task'[b] = t2 /\ task[b] = t
      /\ \A d \in Brokers : d # b => task'[d] = task[d]
  BY <1>3, <1>4, TaskTypes DEF t
<1>9. /\ code' \in [Codes -> [id : Conns \cup {None}, left : 0 .. TTL]]
      /\ code'[k].left = TTL /\ code'[k].id = t.c /\ \A j \in Codes : j # k => code'[j] = code[j]
  BY <1>1, RedisAssumption, ShortfallFact DEF Types, t, k
<1>10. Types'
  BY <1>1, <1>5, <1>6, <1>8, <1>9, RedisAssumption, ShortfallFact DEF Types
<1>11. Tasks'
  <2>0. moves \in [Conns -> 0 .. 2]
    BY DEF Types
  <2>1. moves' \in [Conns -> 0 .. 2] /\ \A c \in Conns : moves'[c] >= moves[c]
    BY <1>5, <2>0
  <2>2. Shape(b, t2, told', moves', faults')
    <3>1. CASE t2.at = "idle"
      BY <3>1, <1>4, IdleShape
    <3>2. CASE t2.at = "set"
      BY <3>2, <1>1, <1>4, <1>5 DEF Shape, Writing, Reading, Deleting
    <3> QED BY <3>1, <3>2, <1>4
  <2> QED BY <2>1, <2>2, <1>3, <1>4, <1>5, <1>6, OthersShape
<1>12. Records'
  <2>1. \A j \in Codes : code'[j].left > 0 => moves'[code'[j].id] > 0
    BY <1>1, <1>5, <1>9 DEF Records
  <2>2. ASSUME NEW d \in Brokers, task'[d].at \in {"setnx", "set"}
        PROVE  /\ stored'[task'[d].id].left = 0
               /\ \A e \in Brokers : task'[e].at \in {"update", "delslot", "delcode"} => task'[e].id # task'[d].id
    <3>1. task[d].at \in {"setnx", "set"} /\ task'[d].id = task[d].id
      BY <2>2, <1>1, <1>4, <1>8 DEF t
    <3>2. \A e \in Brokers : task'[e].at \in {"update", "delslot", "delcode"} => task'[e] = task[e]
      BY <1>4, <1>8
    <3> QED BY <3>1, <3>2, <1>5 DEF Records
  <2> QED BY <2>1, <2>2, <1>5 DEF Records
<1>13. Named'
  <2> SUFFICES ASSUME faults' = 0, NEW j \in Codes, code'[j].left > 0
               PROVE  \/ \E d \in Brokers : task'[d].at = "set" /\ task'[d].id = code'[j].id /\ task'[d].code = j
                      \/ /\ told[code'[j].id] = j
                         /\ \/ stored[code'[j].id].left > 0 /\ code'[j].left <= stored[code'[j].id].left
                            \/ \E d \in Brokers : task'[d].at = "delcode" /\ task'[d].code = j
    BY <1>5 DEF Named
  <2>1. faults = 0 /\ t2.at = "set"
    BY <1>4, <1>6 DEF Types
  <2>2. CASE j = k
    BY <2>1, <2>2, <1>4, <1>8, <1>9
  <2>3. CASE j # k
    <3>1. code'[j] = code[j]
      BY <2>3, <1>9
    <3>2. \/ \E d \in Brokers : task[d].at = "set" /\ task[d].id = code[j].id /\ task[d].code = j
          \/ /\ told[code[j].id] = j
             /\ \/ stored[code[j].id].left > 0 /\ code[j].left <= stored[code[j].id].left
                \/ \E d \in Brokers : task[d].at = "delcode" /\ task[d].code = j
      BY <2>1, <3>1 DEF Named
    <3>3. \A d \in Brokers : task[d].at \in {"set", "delcode"} => task'[d] = task[d]
      BY <1>8 DEF t
    <3> QED BY <3>1, <3>2, <3>3
  <2> QED BY <2>2, <2>3
<1>14. Claimed'
  <2> SUFFICES ASSUME NEW d \in Brokers, task'[d].at \in {"set", "undo"}, task'[d].code \notin hit
               PROVE  /\ code'[task'[d].code].id = task'[d].id
                      /\ code'[task'[d].code].left >= TTL - task'[d].ticks
                      /\ fresh[task'[d].id] <= code'[task'[d].code].left + Shortfall
    BY <1>5 DEF Claimed
  <2>1. CASE d = b
    <3>1. task'[d] = t2 /\ t2.at = "set" /\ t2.ticks \in {0, 1}
      BY <2>1, <1>4, <1>8 DEF TaskSet
    <3>2. fresh[t.c] \in 0 .. DefaultTTL
      BY <1>1 DEF Types
    <3> QED BY <3>1, <3>2, <1>4, <1>9, RedisAssumption, ShortfallFact
  <2>2. CASE d # b
    <3>1. task'[d] = task[d] /\ task[d].code \in Codes /\ task[d].ticks \in {0, 1}
      BY <2>2, <1>8, CreatorFact DEF Writing, TaskSet
    <3>2. code[task[d].code].left >= TTL - task[d].ticks
      BY <3>1 DEF Claimed
    <3>3. task[d].code # k
      BY <3>1, <3>2, <1>7, RedisAssumption, ShortfallFact
    <3> QED BY <3>1, <3>3, <1>9 DEF Claimed
  <2> QED BY <2>1, <2>2
<1>15. Held'
  <2> SUFFICES ASSUME NEW c \in conns, told[c] # None, told[c] \notin hit, moves[c] = 1, fresh[c] > Shortfall
               PROVE  /\ code'[told[c]].id = c /\ fresh[c] <= code'[told[c]].left + Shortfall
                      /\ stored[c].left > 0 /\ fresh[c] <= stored[c].left + Shortfall
    BY <1>5 DEF Held
  <2>1. told[c] \in Codes /\ c \in Conns /\ c # None
    BY RedisAssumption, ShortfallFact DEF Types
  <2>2. told[c] # k
    BY <2>1, <1>7 DEF Held
  <2> QED BY <2>1, <2>2, <1>9 DEF Held
<1> QED BY <1>10, <1>11, <1>12, <1>13, <1>14, <1>15

\* Create's first command: the code is claimed, tried again or given up.
LEMMA SetNXStep ==
  ASSUME Inv, NEW b \in Brokers, SetNX(b)
  PROVE  Inv'
<1> USE DEF Inv
<1> DEFINE t == task[b]
<1>1. t.at = "setnx" /\ UNCHANGED <<stored, hubVars, hit>>
  BY DEF SetNX
<1>2. /\ t \in TaskSet /\ t.op = "create" /\ t.c \in Conns /\ Home[t.c] = b
      /\ t.id = t.c /\ t.code \in Codes /\ moves[t.c] > 0
      /\ told[t.c] = None /\ t.sl.code = t.code /\ t.sl.initiator = t.c
  BY <1>1, CreatorFact DEF Writing
<1>3. hit' \in SUBSET Codes /\ hit \subseteq hit'
  BY <1>1 DEF Types
<1>4. ASSUME Claim(t.code, t.id), ~ HasCode(t.code)
      PROVE  code' = [code EXCEPT ![t.code] = [id |-> t.id, left |-> TTL]] /\ code' # code
  <2>1. code' = [code EXCEPT ![t.code] = [id |-> t.id, left |-> TTL]]
    BY <1>4 DEF Claim
  <2>2. code'[t.code].left = TTL /\ code[t.code].left = 0
    BY <2>1, <1>2, <1>4, RedisAssumption, ShortfallFact DEF Types, HasCode
  <2> QED BY <2>1, <2>2, RedisAssumption, ShortfallFact
<1>5. ASSUME Claim(t.code, t.id), HasCode(t.code)
      PROVE  code' = code
  BY <1>5 DEF Claim
<1>6. CASE Works /\ Claim(t.code, t.id) /\ ~ HasCode(t.code)
  <2>0. code' # code /\ ~ Fails
    BY <1>4, <1>6 DEF Works, Fails, Types
  <2>1. Goto(b, "set") /\ UNCHANGED fresh
    BY <2>0 DEF SetNX
  <2>2. UNCHANGED <<stored, fresh, hubVars, hit>>
    BY <1>1, <2>1
  <2> QED BY <1>1, <1>4, <1>6, <2>1, <2>2, Claims
<1>7. CASE Fails /\ Return(b) /\ Claim(t.code, t.id) /\ ~ HasCode(t.code) /\ UNCHANGED fresh
  <2>2. UNCHANGED <<stored, fresh, hubVars, hit>>
    BY <1>1, <1>7
  <2> QED BY <1>1, <1>4, <1>7, <2>2, Claims
<1>8. CASE (Works \/ Fails) /\ Return(b) /\ UNCHANGED code /\ UNCHANGED fresh
  <2>1. UNCHANGED <<code, stored, fresh, hubVars>>
    BY <1>1, <1>8
  <2> QED BY <1>1, <1>3, <1>8, <2>1, GiveUp
<1>9. CASE /\ Works /\ UNCHANGED code /\ t.n # MaxAttempts
           /\ \E k \in Codes : task' = [task EXCEPT ![b].code = k, ![b].sl = New(k, t.c, 0), ![b].n = @ + 1]
           /\ fresh' = [fresh EXCEPT ![t.id] = DefaultTTL]
  <2>1. PICK k \in Codes : task' = [task EXCEPT ![b].code = k, ![b].sl = New(k, t.c, 0), ![b].n = @ + 1]
    BY <1>9
  <2> DEFINE t2 == [t EXCEPT !.code = k, !.sl = New(k, t.c, 0), !.n = @ + 1]
  <2>2. task' = [task EXCEPT ![b] = t2]
    BY <2>1 DEF Types
  <2>3. New(k, t.c, 0) \in Slots /\ New(k, t.c, 0).code = k /\ New(k, t.c, 0).initiator = t.c
    BY <1>2, NewSlotFact
  <2>4. t.n \in 0 .. MaxAttempts /\ t.n + 1 \in 0 .. MaxAttempts
    BY <1>2, <1>9, RedisAssumption, ShortfallFact DEF TaskSet
  <2>5. /\ t2 \in TaskSet /\ t2.op = "create" /\ t2.at = "setnx" /\ t2.c = t.c /\ t2.code = k /\ t2.id = t.c
        /\ t2.sl = New(k, t.c, 0)
    BY <1>1, <1>2, <2>3, <2>4 DEF TaskSet
  <2> HIDE DEF t2
  <2>6. /\ conns' = conns /\ slotID' = slotID /\ moves' = moves /\ told' = told
        /\ stored' = stored /\ code' = code /\ faults' = faults
    BY <1>1, <1>9 DEF hubVars, Works
  <2>7. Shape(b, t2, told', moves', faults')
    BY <1>2, <2>3, <2>5, <2>6 DEF Shape, Writing, Reading, Deleting
  <2>8. fresh' \in [Conns -> 0 .. DefaultTTL] /\ \A d \in Conns : d # t.c => fresh'[d] = fresh[d]
    BY <1>2, <1>9, RedisAssumption, ShortfallFact DEF Types
  <2>9. \A d \in Brokers : d # b /\ task[d].at \in {"set", "undo"} => task[d].id # t.c
    BY <1>2, CreatorFact DEF Writing
  <2>10. stored[t.c].left = 0 /\ \A d \in Brokers : task[d].at \in {"update", "delslot", "delcode"} => task[d].id # t.c
    BY <1>1, <1>2 DEF Records
  <2>11. conns' \in SUBSET conns /\ slotID' \in [Conns -> Conns \cup {None}]
         /\ moves' \in [Conns -> 0 .. 2] /\ (\A c \in Conns : moves'[c] >= moves[c])
         /\ faults' \in 0 .. MaxFaults /\ faults' >= faults
    BY <2>6 DEF Types
  <2>12. UNCHANGED <<code, stored, told>>
    BY <2>6
  <2> QED BY <1>1, <1>2, <1>3, <2>2, <2>5, <2>7, <2>8, <2>9, <2>10, <2>11, <2>12, TaskOnly
<1> QED BY <1>4, <1>5, <1>6, <1>7, <1>8, <1>9 DEF SetNX

\* Create's second command, and the code is told.
LEMMA SetStep ==
  ASSUME Inv, NEW b \in Brokers, Set(b)
  PROVE  Inv'
<1> USE DEF Inv
<1> DEFINE t == task[b]
           k == t.code
           c == t.c
           t2 == IF Works THEN Idle ELSE [t EXCEPT !.at = "undo"]
<1>1. /\ t.at = "set" /\ UNCHANGED <<code, fresh, conns, moves, hit>>
      /\ \/ /\ Works /\ SetSlot(t.id, t.sl) /\ Return(b)
            /\ slotID' = [slotID EXCEPT ![t.c] = t.id]
            /\ told' = [told EXCEPT ![t.c] = t.code]
         \/ /\ Fails /\ (SetSlot(t.id, t.sl) \/ UNCHANGED stored) /\ Goto(b, "undo")
            /\ UNCHANGED <<slotID, told>>
  BY DEF Set
<1>2. /\ t \in TaskSet /\ t.op = "create" /\ c \in Conns /\ Home[c] = b
      /\ t.id = c /\ k \in Codes /\ moves[c] > 0 /\ k # None
      /\ told[c] = None /\ t.sl.code = k /\ t.sl.initiator = c
  BY <1>1, CreatorFact, RedisAssumption, ShortfallFact DEF Writing
<1>3. (Fails => ~ Works) /\ faults' \in 0 .. MaxFaults /\ faults' >= faults /\ (Fails => faults' > 0)
  <2>1. Fails => ~ Works
    BY DEF Works, Fails, Types
  <2>2. Works \/ Fails
    BY <1>1
  <2> QED BY <2>1, <2>2, FaultsFact
<1>4. task' = [task EXCEPT ![b] = t2]
  BY <1>1, <1>3 DEF Goto, Return, Types
<1>5. t2 \in TaskSet /\ \/ Works /\ t2 = Idle /\ t2.at = "idle"
                        \/ /\ Fails /\ t2.at = "undo" /\ t2.op = "create" /\ t2.c = c /\ t2.code = k
                           /\ t2.id = c /\ t2.sl = t.sl /\ t2.ticks = t.ticks
  <2>1. CASE Works
    <3>1. t2 = Idle
      BY <2>1
    <3> HIDE DEF t2
    <3> QED BY <2>1, <3>1, IdleFact
  <2>2. CASE Fails
    <3>1. t2 = [t EXCEPT !.at = "undo"]
      BY <2>2, <1>3
    <3> HIDE DEF t2
    <3> QED BY <2>2, <3>1, <1>2 DEF TaskSet, Ats
  <2> QED BY <1>1, <2>1, <2>2
<1>6. code' = code /\ fresh' = fresh /\ conns' = conns /\ moves' = moves /\ hit' = hit
  BY <1>1
<1>7. t.sl \in Slots /\ \A e \in Brokers : task[e].at \in {"update", "delslot", "delcode"} => task[e].id # c
  BY <1>1, <1>2 DEF TaskSet, Records
<1>8. /\ stored' \in [Conns -> [sl : Slots, left : 0 .. TTL]]
      /\ \A i \in Conns : i # c => stored'[i] = stored[i]
      /\ stored'[c] = stored[c] \/ (stored'[c].sl = t.sl /\ stored'[c].left = TTL)
      /\ Works => stored'[c].sl = t.sl /\ stored'[c].left = TTL
  <2>1. CASE SetSlot(t.id, t.sl)
    BY <2>1, <1>2, <1>7, RedisAssumption, ShortfallFact DEF SetSlot, Life, Types
  <2>2. CASE UNCHANGED stored /\ Fails
    BY <2>2, <1>3 DEF Types
  <2> QED BY <1>1, <2>1, <2>2
<1>9. /\ told' \in [Conns -> Codes \cup {None}] /\ slotID' \in [Conns -> Conns \cup {None}]
      /\ \A d \in Conns : d # c => told'[d] = told[d]
      /\ told'[c] \in {None, k} /\ (Works => told'[c] = k) /\ (Fails => told' = told)
  BY <1>1, <1>2, <1>3 DEF Types
<1> HIDE DEF t, k, c, t2
<1>10. /\ task' \in [Brokers -> TaskSet] /\ task'[b] = t2 /\ task[b] = t
       /\ \A d \in Brokers : d # b => task'[d] = task[d]
  BY <1>4, <1>5, TaskTypes DEF t
<1>11. Types'
  <2>1. \A i \in Conns : stored'[i].left > 0 <=> stored'[i].sl.code # None
    BY <1>2, <1>8, RedisAssumption, ShortfallFact DEF Types
  <2> QED BY <2>1, <1>3, <1>6, <1>8, <1>9, <1>10 DEF Types
<1>12. Tasks'
  <2> SUFFICES ASSUME NEW d \in Brokers
               PROVE  Shape(d, task'[d], told', moves', faults')
    BY DEF Tasks
  <2>1. CASE d = b
    <3>1. CASE t2 = Idle
      BY <3>1, <2>1, <1>10, IdleShape
    <3>2. CASE Fails /\ t2.at = "undo" /\ t2.op = "create" /\ t2.c = c /\ t2.code = k /\ t2.id = c /\ t2.sl = t.sl
      BY <3>2, <2>1, <1>2, <1>3, <1>6, <1>9, <1>10 DEF Shape, Writing, Reading, Deleting
    <3> QED BY <3>1, <3>2, <1>5
  <2>2. CASE d # b
    <3>1. task'[d] = task[d] /\ task[d] \in TaskSet /\ Shape(d, task[d], told, moves, faults)
      BY <2>2, <1>10 DEF Types, Tasks
    <3>2. task[d].at # "idle" => task[d].c # c /\ task[d].c \in Conns
      BY <2>2, <3>1, <1>2 DEF Shape
    <3>3. faults > 0 => faults' > 0
      BY <1>3 DEF Types
    <3>4. task[d].at # "idle" => told'[task[d].c] = told[task[d].c]
      BY <3>2, <1>9
    <3>5. task[d].at \in {"update", "delslot", "delcode"} =>
            task[d].id \in Conns /\ told'[task[d].id] = told[task[d].id]
      BY <3>1, <1>7, <1>9 DEF Shape, Reading, Deleting
    <3>6. task[d].at = "update" => Belongs(task[d].id, task[d].sl, told', moves')
      BY <3>1, <3>5, <1>6 DEF Shape, Belongs
    <3>7. task[d].at = "idle" => task[d] = Idle /\ Idle.op = "idle"
      BY <3>1, IdleFact DEF Shape
    <3>8. task[d].op \in Ops
      BY <3>1 DEF TaskSet
    <3> QED BY <3>1, <3>2, <3>3, <3>4, <3>5, <3>6, <3>7, <3>8, <1>6 DEF Shape, Ops
  <2> QED BY <2>1, <2>2
<1>13. Records'
  <2>1. ASSUME NEW i \in Conns, stored'[i].left > 0
        PROVE  Belongs(i, stored'[i].sl, told', moves')
    <3>1. CASE i # c
      <4>1. stored'[i] = stored[i] /\ told'[i] = told[i]
        BY <3>1, <1>8, <1>9
      <4> QED BY <2>1, <4>1, <1>6 DEF Records, Belongs
    <3>2. CASE i = c
      <4>1. stored[c].left = 0
        BY <1>1, <1>2, <1>10 DEF Records, t
      <4>2. stored'[c].sl = t.sl
        BY <2>1, <3>2, <4>1, <1>8
      <4> QED BY <3>2, <4>2, <1>2, <1>6, <1>9 DEF Belongs
    <3> QED BY <3>1, <3>2
  <2>2. \A j \in Codes : code'[j].left > 0 => moves'[code'[j].id] > 0
    BY <1>6 DEF Records
  <2>3. \A d \in Conns : told'[d] # None => moves'[d] > 0
    BY <1>2, <1>6, <1>9 DEF Records
  <2>4. ASSUME NEW d \in Brokers, task'[d].at \in {"setnx", "set"}
        PROVE  /\ stored'[task'[d].id].left = 0
               /\ \A e \in Brokers : task'[e].at \in {"update", "delslot", "delcode"} => task'[e].id # task'[d].id
    <3>1. d # b /\ task'[d] = task[d]
      BY <2>4, <1>5, <1>10
    <3>2. task[d].id = task[d].c /\ Home[task[d].c] = d /\ task[d].c \in Conns
      BY <2>4, <3>1, CreatorFact DEF Writing
    <3>3. stored'[task[d].id] = stored[task[d].id]
      BY <3>1, <3>2, <1>2, <1>8
    <3>4. \A e \in Brokers : task'[e].at \in {"update", "delslot", "delcode"} => task'[e] = task[e]
      BY <1>5, <1>10
    <3> QED BY <2>4, <3>1, <3>3, <3>4 DEF Records
  <2> QED BY <2>1, <2>2, <2>3, <2>4 DEF Records
<1>14. Named'
  <2> SUFFICES ASSUME faults' = 0, NEW j \in Codes, code[j].left > 0
               PROVE  \/ \E d \in Brokers : task'[d].at = "set" /\ task'[d].id = code[j].id /\ task'[d].code = j
                      \/ /\ told'[code[j].id] = j
                         /\ \/ stored'[code[j].id].left > 0 /\ code[j].left <= stored'[code[j].id].left
                            \/ \E d \in Brokers : task'[d].at = "delcode" /\ task'[d].code = j
    BY <1>6 DEF Named
  <2>1. faults = 0 /\ Works
    BY <1>1, <1>3 DEF Types
  <2>2. code[j].id \in Conns /\ code[j].left \in 0 .. TTL
    BY DEF Types
  <2>3. ASSUME NEW d \in Brokers, task[d].at = "set", task[d].id = code[j].id, task[d].code = j, d # b
        PROVE  task'[d].at = "set" /\ task'[d].id = code[j].id /\ task'[d].code = j
    BY <2>3, <1>10
  <2>4. CASE t.id = code[j].id /\ k = j
    <3>1. code[j].id = c /\ told'[c] = j /\ stored'[c].left = TTL
      BY <2>1, <2>4, <1>2, <1>8, <1>9
    <3> QED BY <3>1, <2>2, RedisAssumption, ShortfallFact
  <2>5. CASE /\ told[code[j].id] = j
             /\ \/ stored[code[j].id].left > 0 /\ code[j].left <= stored[code[j].id].left
                \/ \E d \in Brokers : task[d].at = "delcode" /\ task[d].code = j
    <3>1. code[j].id # c
      BY <2>5, <1>2, RedisAssumption, ShortfallFact
    <3>2. told'[code[j].id] = j /\ stored'[code[j].id] = stored[code[j].id]
      BY <3>1, <2>2, <2>5, <1>8, <1>9
    <3>3. \A d \in Brokers : task[d].at = "delcode" => task'[d] = task[d]
      BY <1>1, <1>10 DEF t
    <3> QED BY <2>5, <3>2, <3>3
  <2>6. \/ \E d \in Brokers : task[d].at = "set" /\ task[d].id = code[j].id /\ task[d].code = j
        \/ /\ told[code[j].id] = j
           /\ \/ stored[code[j].id].left > 0 /\ code[j].left <= stored[code[j].id].left
              \/ \E d \in Brokers : task[d].at = "delcode" /\ task[d].code = j
    BY <2>1 DEF Named
  <2> QED BY <2>3, <2>4, <2>5, <2>6 DEF t, k
<1>15. Claimed'
  <2> SUFFICES ASSUME NEW d \in Brokers, task'[d].at \in {"set", "undo"}, task'[d].code \notin hit
               PROVE  /\ code[task'[d].code].id = task'[d].id
                      /\ code[task'[d].code].left >= TTL - task'[d].ticks
                      /\ fresh[task'[d].id] <= code[task'[d].code].left + Shortfall
    BY <1>6 DEF Claimed
  <2>1. task[d].at \in {"set", "undo"} /\ task'[d].code = task[d].code /\ task'[d].id = task[d].id
        /\ task'[d].ticks = task[d].ticks
    BY <1>1, <1>2, <1>5, <1>10 DEF t, k
  <2> QED BY <2>1 DEF Claimed
<1>16. Held'
  <2> SUFFICES ASSUME NEW d \in conns, told'[d] # None, told'[d] \notin hit, moves[d] = 1, fresh[d] > Shortfall
               PROVE  /\ code[told'[d]].id = d /\ fresh[d] <= code[told'[d]].left + Shortfall
                      /\ stored'[d].left > 0 /\ fresh[d] <= stored'[d].left + Shortfall
    BY <1>6 DEF Held
  <2>1. d \in Conns /\ fresh[d] \in 0 .. DefaultTTL
    BY DEF Types
  <2>2. CASE d # c
    <3>1. told'[d] = told[d] /\ stored'[d] = stored[d]
      BY <2>1, <2>2, <1>8, <1>9
    <3> QED BY <3>1 DEF Held
  <2>3. CASE d = c
    <3>1. told'[c] = k /\ Works
      BY <2>3, <1>1, <1>2, <1>9
    <3>2. code[k].id = t.id /\ fresh[t.id] <= code[k].left + Shortfall
      BY <2>3, <3>1, <1>1, <1>10 DEF Claimed, t, k
    <3>3. stored'[c].left = TTL
      BY <3>1, <1>8
    <3> QED BY <2>1, <2>3, <3>1, <3>2, <3>3, <1>2, RedisAssumption, ShortfallFact
  <2> QED BY <2>2, <2>3
<1> QED BY <1>11, <1>12, <1>13, <1>14, <1>15, <1>16

\* Update has written the slot; the task is over, or goes on to delete the slot.
LEMMA SlotWritten ==
  ASSUME Inv, NEW b \in Brokers, task[b].at = "update", SetSlot(task[b].id, task[b].sl),
         UNCHANGED <<code, fresh, conns, moves, told, hit>>, Works \/ Fails,
         slotID' \in [Conns -> Conns \cup {None}],
         Return(b) \/ (Goto(b, "get") /\ task[b].op = "join")
  PROVE  Inv'
<1> USE DEF Inv
<1> DEFINE t == task[b]
           i == t.id
<1>1. t \in TaskSet /\ Shape(b, t, told, moves, faults)
  BY DEF Types, Tasks
<1>2. /\ i \in Conns /\ t.op \in {"join", "leave"} /\ t.c \in Conns /\ Home[t.c] = b /\ moves[t.c] > 0
      /\ t.op = "join" => told[t.c] = None
      /\ Belongs(i, t.sl, told, moves) /\ t.sl \in Slots
  BY <1>1 DEF Shape, TaskSet, Ops, Writing, Reading, Deleting
<1>3. PICK t2 \in TaskSet : /\ task' = [task EXCEPT ![b] = t2] /\ t2.at \in {"idle", "get"}
                            /\ Shape(b, t2, told, moves, faults)
  <2>1. CASE Return(b)
    BY <2>1, IdleFact, IdleShape DEF Return
  <2>2. CASE Goto(b, "get") /\ t.op = "join"
    <3> DEFINE t2 == [t EXCEPT !.at = "get"]
    <3>1. task' = [task EXCEPT ![b] = t2]
      BY <2>2 DEF Goto, Types
    <3>2. t2 \in TaskSet /\ t2.at = "get" /\ t2.id = t.id /\ t2.c = t.c /\ t2.op = "join"
      BY <1>1, <2>2 DEF TaskSet, Ats
    <3> HIDE DEF t2
    <3>3. Shape(b, t2, told, moves, faults)
      BY <1>2, <2>2, <3>2 DEF Shape, Writing, Reading, Deleting
    <3> QED BY <3>1, <3>2, <3>3
  <2> QED BY <2>1, <2>2
<1>4. /\ code' = code /\ fresh' = fresh /\ conns' = conns /\ moves' = moves /\ told' = told /\ hit' = hit
  OBVIOUS
<1>5. faults' \in 0 .. MaxFaults /\ faults' >= faults
  BY FaultsFact
<1>6. /\ stored' \in [Conns -> [sl : Slots, left : 0 .. TTL]]
      /\ stored'[i].sl = t.sl /\ stored'[i].left = TTL /\ \A j \in Conns : j # i => stored'[j] = stored[j]
  BY <1>2, RedisAssumption, ShortfallFact DEF SetSlot, Life, Types
<1>7. \A d \in Brokers : task[d].at \in {"setnx", "set"} => task[d].id # i
  BY DEF Records
<1>8. task[b] = t
  OBVIOUS
<1> HIDE DEF t, i
<1>9. /\ task' \in [Brokers -> TaskSet] /\ task'[b] = t2
      /\ \A d \in Brokers : d # b => task'[d] = task[d]
  BY <1>3, TaskTypes
<1>10. Types'
  <2>1. \A j \in Conns : stored'[j].left > 0 <=> stored'[j].sl.code # None
    BY <1>2, <1>6, RedisAssumption, ShortfallFact DEF Types, Belongs
  <2> QED BY <2>1, <1>4, <1>5, <1>6, <1>9 DEF Types
<1>11. Tasks'
  <2>1. moves \in [Conns -> 0 .. 2] /\ faults \in Nat /\ faults' \in Nat
    BY <1>5, RedisAssumption, ShortfallFact DEF Types
  <2>2. moves' \in [Conns -> 0 .. 2] /\ \A c \in Conns : moves'[c] >= moves[c]
    BY <2>1, <1>4
  <2>3. Shape(b, t2, told, moves', faults')
    BY <1>3, <1>5, <2>1, <2>2, ShapeKept
  <2> QED BY <2>2, <2>3, <1>3, <1>4, <1>5, OthersShape
<1>12. Records'
  <2>1. \A j \in Conns : stored'[j].left > 0 => Belongs(j, stored'[j].sl, told', moves')
    BY <1>2, <1>4, <1>6 DEF Records
  <2>2. ASSUME NEW d \in Brokers, task'[d].at \in {"setnx", "set"}
        PROVE  /\ stored'[task'[d].id].left = 0
               /\ \A e \in Brokers : task'[e].at \in {"update", "delslot", "delcode"} => task'[e].id # task'[d].id
    <3>1. task'[d] = task[d] /\ task[d].id # i /\ task[d].id \in Conns
      BY <2>2, <1>3, <1>7, <1>9, CreatorFact DEF Writing
    <3>2. \A e \in Brokers : task'[e].at \in {"update", "delslot", "delcode"} => task'[e] = task[e]
      BY <1>3, <1>9
    <3> QED BY <2>2, <3>1, <3>2, <1>6 DEF Records
  <2> QED BY <2>1, <2>2, <1>4 DEF Records
<1>13. Named'
  <2> SUFFICES ASSUME faults' = 0, NEW k \in Codes, code[k].left > 0
               PROVE  \/ \E d \in Brokers : task'[d].at = "set" /\ task'[d].id = code[k].id /\ task'[d].code = k
                      \/ /\ told[code[k].id] = k
                         /\ \/ stored'[code[k].id].left > 0 /\ code[k].left <= stored'[code[k].id].left
                            \/ \E d \in Brokers : task'[d].at = "delcode" /\ task'[d].code = k
    BY <1>4 DEF Named
  <2>1. faults = 0 /\ code[k].id \in Conns /\ code[k].left \in 0 .. TTL
    BY <1>5 DEF Types
  <2>2. \/ \E d \in Brokers : task[d].at = "set" /\ task[d].id = code[k].id /\ task[d].code = k
        \/ /\ told[code[k].id] = k
           /\ \/ stored[code[k].id].left > 0 /\ code[k].left <= stored[code[k].id].left
              \/ \E d \in Brokers : task[d].at = "delcode" /\ task[d].code = k
    BY <2>1 DEF Named
  <2>3. \A d \in Brokers : task[d].at \in {"set", "delcode"} => task'[d] = task[d]
    BY <1>8, <1>9 DEF t
  <2>4. stored[code[k].id].left > 0 /\ code[k].left <= stored[code[k].id].left
          => stored'[code[k].id].left > 0 /\ code[k].left <= stored'[code[k].id].left
    BY <2>1, <1>6, RedisAssumption, ShortfallFact
  <2> QED BY <2>2, <2>3, <2>4
<1>14. Claimed'
  <2> SUFFICES ASSUME NEW d \in Brokers, task'[d].at \in {"set", "undo"}, task'[d].code \notin hit
               PROVE  /\ code[task'[d].code].id = task'[d].id
                      /\ code[task'[d].code].left >= TTL - task'[d].ticks
                      /\ fresh[task'[d].id] <= code[task'[d].code].left + Shortfall
    BY <1>4 DEF Claimed
  <2>1. task'[d] = task[d]
    BY <1>3, <1>9
  <2> QED BY <2>1 DEF Claimed
<1>15. Held'
  <2> SUFFICES ASSUME NEW d \in conns, told[d] # None, told[d] \notin hit, moves[d] = 1, fresh[d] > Shortfall
               PROVE  /\ code[told[d]].id = d /\ fresh[d] <= code[told[d]].left + Shortfall
                      /\ stored'[d].left > 0 /\ fresh[d] <= stored'[d].left + Shortfall
    BY <1>4 DEF Held
  <2>1. d \in Conns /\ fresh[d] \in 0 .. DefaultTTL
    BY DEF Types
  <2>2. stored'[d].left > 0 /\ fresh[d] <= stored'[d].left + Shortfall
    BY <2>1, <1>6, RedisAssumption, ShortfallFact DEF Held
  <2> QED BY <2>2 DEF Held
<1> QED BY <1>10, <1>11, <1>12, <1>13, <1>14, <1>15

\* Update writes the slot and the joiner is told, or it fails.
LEMMA UpdateStep ==
  ASSUME Inv, NEW b \in Brokers, Update(b)
  PROVE  Inv'
<1> USE DEF Inv
<1> DEFINE t == task[b]
<1>1. t.at = "update" /\ UNCHANGED <<code, fresh, conns, moves, told, hit>> /\ (Works \/ Fails)
  BY DEF Update
<1>2. t.c \in Conns /\ t.id \in Conns
  BY <1>1 DEF Tasks, Shape, Reading
<1>3. slotID' = slotID \/ slotID' = [slotID EXCEPT ![t.c] = t.id]
  BY DEF Update
<1>4. slotID' \in [Conns -> Conns \cup {None}]
  BY <1>2, <1>3 DEF Types
<1>5. CASE SetSlot(t.id, t.sl)
  <2>1. Return(b) \/ (Goto(b, "get") /\ t.op = "join")
    BY DEF Update
  <2> QED BY <1>1, <1>4, <1>5, <2>1, SlotWritten
<1>6. CASE Fails /\ UNCHANGED stored /\ Return(b)
  <2>1. UNCHANGED <<code, stored, fresh, told, moves>>
    BY <1>1, <1>6
  <2>2. conns' \in SUBSET conns /\ hit' \in SUBSET Codes /\ hit \subseteq hit'
    BY <1>1 DEF Types
  <2> QED BY <1>1, <1>4, <1>6, <2>1, <2>2, ReturnStep
<1> QED BY <1>5, <1>6 DEF Update

\* The slot key is gone; the code key is next, or the pipeline has failed.
LEMMA SlotGone ==
  ASSUME Inv, NEW b \in Brokers, task[b].at = "delslot", DelSlot(task[b].id),
         UNCHANGED <<code, fresh, hubVars>>,
         hit' = IF task[b].id # task[b].c THEN hit \cup {task[b].code} ELSE hit,
         (Works /\ Goto(b, "delcode")) \/ (Fails /\ Return(b))
  PROVE  Inv'
<1> USE DEF Inv
<1> DEFINE t == task[b]
           i == t.id
<1>1. /\ t \in TaskSet /\ t.op \in {"join", "leave"} /\ t.c \in Conns /\ Home[t.c] = b /\ i \in Conns
      /\ (told[t.c] = None \/ moves[t.c] = 2) /\ t.code \in Codes /\ moves[i] > 0
      /\ told[i] # None => t.code = told[i]
  BY DeleterFact DEF Deleting
<1>2. Shape(b, t, told, moves, faults)
  BY DEF Tasks
<1>3. faults' \in 0 .. MaxFaults /\ faults' >= faults /\ (Fails => faults' > 0)
  BY FaultsFact
<1>4. PICK t2 \in TaskSet :
        /\ task' = [task EXCEPT ![b] = t2] /\ Shape(b, t2, told, moves, faults)
        /\ \/ t2.at = "idle" /\ faults' > 0
           \/ t2.at = "delcode" /\ t2.code = t.code /\ t2.id = i
  <2>1. CASE Fails /\ Return(b)
    BY <2>1, <1>3, IdleFact, IdleShape DEF Return
  <2>2. CASE Goto(b, "delcode")
    <3> DEFINE t2 == [t EXCEPT !.at = "delcode"]
    <3>1. task' = [task EXCEPT ![b] = t2]
      BY <2>2 DEF Goto, Types
    <3>2. t2 \in TaskSet /\ t2.at = "delcode" /\ t2.id = t.id /\ t2.c = t.c /\ t2.op = t.op /\ t2.code = t.code
      BY <1>1 DEF TaskSet, Ats
    <3> HIDE DEF t2
    <3>3. Shape(b, t2, told, moves, faults)
      BY <1>1, <1>2, <3>2 DEF Shape, Writing, Reading, Deleting
    <3> QED BY <3>1, <3>2, <3>3
  <2> QED BY <2>1, <2>2
<1>5. /\ code' = code /\ fresh' = fresh /\ conns' = conns /\ moves' = moves /\ told' = told /\ slotID' = slotID
  BY DEF hubVars
<1>6. /\ stored' \in [Conns -> [sl : Slots, left : 0 .. TTL]]
      /\ stored'[i].left = 0 /\ stored'[i].sl.code = None /\ \A j \in Conns : j # i => stored'[j] = stored[j]
  BY <1>1, IdleFact, RedisAssumption, ShortfallFact DEF DelSlot, Types
<1>7. hit' \in SUBSET Codes /\ hit \subseteq hit' /\ (i # t.c => t.code \in hit')
  BY <1>1 DEF Types
<1>8. task[b] = t /\ t.at = "delslot"
  OBVIOUS
<1> HIDE DEF t, i
<1>9. /\ task' \in [Brokers -> TaskSet] /\ task'[b] = t2
      /\ \A d \in Brokers : d # b => task'[d] = task[d]
  BY <1>4, TaskTypes
<1>10. Types'
  <2>1. \A j \in Conns : stored'[j].left > 0 <=> stored'[j].sl.code # None
    BY <1>6 DEF Types
  <2> QED BY <2>1, <1>3, <1>5, <1>6, <1>7, <1>9 DEF Types
<1>11. Tasks'
  <2>1. moves \in [Conns -> 0 .. 2] /\ faults \in Nat /\ faults' \in Nat
    BY <1>3, RedisAssumption, ShortfallFact DEF Types
  <2>2. moves' \in [Conns -> 0 .. 2] /\ \A c \in Conns : moves'[c] >= moves[c]
    BY <2>1, <1>5
  <2>3. Shape(b, t2, told, moves', faults')
    BY <1>3, <1>4, <2>1, <2>2, ShapeKept
  <2> QED BY <2>2, <2>3, <1>3, <1>4, <1>5, OthersShape
<1>12. Records'
  <2>1. \A j \in Conns : stored'[j].left > 0 => Belongs(j, stored'[j].sl, told', moves')
    BY <1>5, <1>6 DEF Records
  <2>2. ASSUME NEW d \in Brokers, task'[d].at \in {"setnx", "set"}
        PROVE  /\ stored'[task'[d].id].left = 0
               /\ \A e \in Brokers : task'[e].at \in {"update", "delslot", "delcode"} => task'[e].id # task'[d].id
    <3>1. task'[d] = task[d] /\ task[d].id \in Conns /\ stored[task[d].id].left = 0
      BY <2>2, <1>4, <1>9, CreatorFact DEF Writing, Records
    <3>2. \A e \in Brokers : task'[e].at \in {"update", "delslot", "delcode"} =>
            task[e].at \in {"update", "delslot", "delcode"} /\ task'[e].id = task[e].id
      BY <1>4, <1>8, <1>9 DEF i
    <3> QED BY <2>2, <3>1, <3>2, <1>6 DEF Records
  <2> QED BY <2>1, <2>2, <1>5 DEF Records
<1>13. Named'
  <2> SUFFICES ASSUME faults' = 0, NEW k \in Codes, code[k].left > 0
               PROVE  \/ \E d \in Brokers : task'[d].at = "set" /\ task'[d].id = code[k].id /\ task'[d].code = k
                      \/ /\ told[code[k].id] = k
                         /\ \/ stored'[code[k].id].left > 0 /\ code[k].left <= stored'[code[k].id].left
                            \/ \E d \in Brokers : task'[d].at = "delcode" /\ task'[d].code = k
    BY <1>5 DEF Named
  <2>1. faults = 0 /\ code[k].id \in Conns /\ t2.at = "delcode" /\ t2.code = t.code /\ k # None
    BY <1>3, <1>4, RedisAssumption, ShortfallFact DEF Types
  <2>2. \/ \E d \in Brokers : task[d].at = "set" /\ task[d].id = code[k].id /\ task[d].code = k
        \/ /\ told[code[k].id] = k
           /\ \/ stored[code[k].id].left > 0 /\ code[k].left <= stored[code[k].id].left
              \/ \E d \in Brokers : task[d].at = "delcode" /\ task[d].code = k
    BY <2>1 DEF Named
  <2>3. \A d \in Brokers : task[d].at \in {"set", "delcode"} => task'[d] = task[d]
    BY <1>8, <1>9
  <2>4. CASE told[code[k].id] = k /\ code[k].id = i
    BY <2>1, <2>4, <1>1, <1>9
  <2>5. CASE code[k].id # i
    <3>1. stored'[code[k].id] = stored[code[k].id]
      BY <2>1, <2>5, <1>6
    <3> QED BY <2>2, <2>3, <3>1
  <2> QED BY <2>2, <2>3, <2>4, <2>5
<1>14. Claimed'
  <2> SUFFICES ASSUME NEW d \in Brokers, task'[d].at \in {"set", "undo"}, task'[d].code \notin hit'
               PROVE  /\ code[task'[d].code].id = task'[d].id
                      /\ code[task'[d].code].left >= TTL - task'[d].ticks
                      /\ fresh[task'[d].id] <= code[task'[d].code].left + Shortfall
    BY <1>5 DEF Claimed
  <2>1. task'[d] = task[d] /\ task[d].code \notin hit
    BY <1>4, <1>7, <1>9
  <2> QED BY <2>1 DEF Claimed
<1>15. Held'
  <2> SUFFICES ASSUME NEW d \in conns, told[d] # None, told[d] \notin hit', moves[d] = 1, fresh[d] > Shortfall
               PROVE  /\ code[told[d]].id = d /\ fresh[d] <= code[told[d]].left + Shortfall
                      /\ stored'[d].left > 0 /\ fresh[d] <= stored'[d].left + Shortfall
    BY <1>5 DEF Held
  <2>1. d \in Conns /\ told[d] \notin hit
    BY <1>7 DEF Types
  <2>2. d # i
    BY <1>1, <1>7
  <2> QED BY <2>1, <2>2, <1>6 DEF Held
<1> QED BY <1>10, <1>11, <1>12, <1>13, <1>14, <1>15

\* The first half of Delete's pipeline.
LEMMA DeleteSlotKeyStep ==
  ASSUME Inv, NEW b \in Brokers, DeleteSlotKey(b)
  PROVE  Inv'
<1> USE DEF Inv
<1>1. /\ task[b].at = "delslot" /\ UNCHANGED <<code, fresh, hubVars>>
      /\ hit' = IF task[b].id # task[b].c THEN hit \cup {task[b].code} ELSE hit
  BY DEF DeleteSlotKey
<1>2. CASE DelSlot(task[b].id)
  <2>1. (Works /\ Goto(b, "delcode")) \/ (Fails /\ Return(b))
    BY DEF DeleteSlotKey
  <2> QED BY <1>1, <1>2, <2>1, SlotGone
<1>3. CASE Fails /\ UNCHANGED stored /\ Return(b)
  <2>1. UNCHANGED <<code, stored, fresh, hubVars>>
    BY <1>1, <1>3
  <2>2. task[b].code \in Codes
    BY <1>1, DeleterFact DEF Deleting
  <2>3. hit' \in SUBSET Codes /\ hit \subseteq hit'
    BY <1>1, <2>2 DEF Types
  <2> QED BY <1>1, <1>3, <2>1, <2>3, GiveUp
<1> QED BY <1>2, <1>3 DEF DeleteSlotKey

-----------------------------------------------------------------------------
(* Time.                                                                   *)

\* The ticks a key has left.
LEMMA LessFact ==
  ASSUME NEW n \in 0 .. TTL
  PROVE  Less(n) \in 0 .. TTL /\ Less(n) = IF n = 0 THEN 0 ELSE n - 1
BY RedisAssumption, ShortfallFact DEF Less

\* A tick shortens everything by one, and falls into a task but once.
LEMMA TickStep ==
  ASSUME Inv, Tick
  PROVE  Inv'
<1> USE DEF Inv
<1>1. /\ conns' = conns /\ slotID' = slotID /\ moves' = moves /\ told' = told /\ hit' = hit /\ faults' = faults
  BY DEF Tick, hubVars
<1>2. ASSUME NEW b \in Brokers
      PROVE  /\ task'[b] \in TaskSet
             /\ task'[b].op = task[b].op /\ task'[b].at = task[b].at /\ task'[b].c = task[b].c
             /\ task'[b].code = task[b].code /\ task'[b].id = task[b].id /\ task'[b].sl = task[b].sl
             /\ task[b].ticks = 0 /\ (task[b].at = "idle" => task'[b] = Idle)
             /\ (task[b].at # "idle" => task'[b].ticks = 1)
  <2>1. task[b] \in TaskSet /\ task[b].ticks = 0 /\ Shape(b, task[b], told, moves, faults)
    BY DEF Types, Tasks, Tick
  <2>2. task'[b] = IF task[b] = Idle THEN Idle ELSE [task[b] EXCEPT !.ticks = 1]
    BY DEF Tick
  <2>3. CASE task[b] = Idle
    BY <2>1, <2>2, <2>3, IdleFact
  <2>4. CASE task[b] # Idle
    <3>1. task'[b] = [task[b] EXCEPT !.ticks = 1] /\ task[b].at # "idle"
      BY <2>1, <2>2, <2>4 DEF Shape
    <3> QED BY <2>1, <3>1 DEF TaskSet
  <2> QED BY <2>3, <2>4
<1>3. task' \in [Brokers -> TaskSet]
  <2>1. task' = [b \in Brokers |-> IF task[b] = Idle THEN Idle ELSE [task[b] EXCEPT !.ticks = 1]]
    BY DEF Tick
  <2> QED BY <1>2, <2>1
<1>4. ASSUME NEW k \in Codes
      PROVE  /\ code'[k] \in [id : Conns \cup {None}, left : 0 .. TTL]
             /\ code'[k].left > 0 <=> code'[k].id # None
             /\ code[k].left \in 0 .. TTL
             /\ code[k].left <= 1 => code'[k].left = 0
             /\ code[k].left > 1 => code'[k].left = code[k].left - 1 /\ code'[k].id = code[k].id
  <2>1. code[k] \in [id : Conns \cup {None}, left : 0 .. TTL] /\ (code[k].left > 0 <=> code[k].id # None)
    BY DEF Types
  <2>2. code'[k] = IF code[k].left <= 1 THEN NoKey ELSE [code[k] EXCEPT !.left = Less(@)]
    BY DEF Tick
  <2>3. CASE code[k].left <= 1
    BY <2>1, <2>2, <2>3, RedisAssumption, ShortfallFact DEF NoKey
  <2>4. CASE code[k].left > 1
    <3>1. Less(code[k].left) = code[k].left - 1 /\ Less(code[k].left) \in 0 .. TTL
      BY <2>1, <2>4, LessFact
    <3>2. code'[k] = [code[k] EXCEPT !.left = Less(code[k].left)]
      BY <2>1, <2>2, <2>4
    <3> QED BY <2>1, <2>4, <3>1, <3>2
  <2> QED BY <2>1, <2>3, <2>4
<1>5. ASSUME NEW i \in Conns
      PROVE  /\ stored'[i] \in [sl : Slots, left : 0 .. TTL]
             /\ stored'[i].left > 0 <=> stored'[i].sl.code # None
             /\ stored[i].left \in 0 .. TTL
             /\ stored[i].left <= 1 => stored'[i].left = 0
             /\ stored[i].left > 1 => stored'[i].left = stored[i].left - 1 /\ stored'[i].sl = stored[i].sl
  <2>1. stored[i] \in [sl : Slots, left : 0 .. TTL] /\ (stored[i].left > 0 <=> stored[i].sl.code # None)
    BY DEF Types
  <2>2. stored'[i] = IF stored[i].left = 1 THEN [sl |-> NoSlot, left |-> 0] ELSE [stored[i] EXCEPT !.left = Less(@)]
    BY DEF Tick
  <2>3. CASE stored[i].left = 1
    BY <2>1, <2>2, <2>3, IdleFact, RedisAssumption, ShortfallFact
  <2>4. CASE stored[i].left # 1
    <3>1. Less(stored[i].left) = (IF stored[i].left = 0 THEN 0 ELSE stored[i].left - 1) /\ Less(stored[i].left) \in 0 .. TTL
      BY <2>1, <2>4, LessFact
    <3>2. stored'[i] = [stored[i] EXCEPT !.left = Less(stored[i].left)]
      BY <2>1, <2>2, <2>4
    <3> QED BY <2>1, <2>4, <3>1, <3>2
  <2> QED BY <2>1, <2>3, <2>4
<1>6. ASSUME NEW i \in Conns
      PROVE  /\ fresh[i] \in 0 .. DefaultTTL /\ fresh'[i] \in 0 .. DefaultTTL
             /\ fresh'[i] = IF fresh[i] = 0 THEN 0 ELSE fresh[i] - 1
  <2>1. fresh[i] \in 0 .. DefaultTTL
    BY DEF Types
  <2>2. fresh'[i] = IF fresh[i] = 0 THEN 0 ELSE fresh[i] - 1
    BY DEF Tick
  <2> QED BY <2>1, <2>2, RedisAssumption
<1>7. Types'
  <2>1. code' \in [Codes -> [id : Conns \cup {None}, left : 0 .. TTL]]
    <3>1. code' = [k \in Codes |-> IF code[k].left <= 1 THEN NoKey ELSE [code[k] EXCEPT !.left = Less(@)]]
      BY DEF Tick
    <3> QED BY <3>1, <1>4
  <2>2. stored' \in [Conns -> [sl : Slots, left : 0 .. TTL]]
    <3>1. stored' = [i \in Conns |-> IF stored[i].left = 1 THEN [sl |-> NoSlot, left |-> 0]
                                     ELSE [stored[i] EXCEPT !.left = Less(@)]]
      BY DEF Tick
    <3> QED BY <3>1, <1>5
  <2>3. fresh' \in [Conns -> 0 .. DefaultTTL]
    <3>1. fresh' = [i \in Conns |-> IF fresh[i] = 0 THEN 0 ELSE fresh[i] - 1]
      BY DEF Tick
    <3> QED BY <3>1, <1>6
  <2>4. \A k \in Codes : code'[k].left > 0 <=> code'[k].id # None
    BY <1>4
  <2>5. \A i \in Conns : stored'[i].left > 0 <=> stored'[i].sl.code # None
    BY <1>5
  <2> QED BY <2>1, <2>2, <2>3, <2>4, <2>5, <1>1, <1>3 DEF Types
<1>8. Tasks'
  <2> SUFFICES ASSUME NEW b \in Brokers
               PROVE  Shape(b, task'[b], told', moves', faults')
    BY DEF Tasks
  <2>1. CASE task[b].at = "idle"
    BY <2>1, <1>2, IdleShape
  <2>2. CASE task[b].at # "idle"
    <3>1. Shape(b, task[b], told, moves, faults)
      BY DEF Tasks
    <3> QED BY <2>2, <3>1, <1>1, <1>2 DEF Shape
  <2> QED BY <2>1, <2>2
<1>9. Records'
  <2>1. \A i \in Conns : stored'[i].left > 0 => Belongs(i, stored'[i].sl, told', moves')
    BY <1>1, <1>5 DEF Records
  <2>2. \A k \in Codes : code'[k].left > 0 => moves'[code'[k].id] > 0
    BY <1>1, <1>4 DEF Records
  <2>3. ASSUME NEW d \in Brokers, task'[d].at \in {"setnx", "set"}
        PROVE  /\ stored'[task'[d].id].left = 0
               /\ \A e \in Brokers : task'[e].at \in {"update", "delslot", "delcode"} => task'[e].id # task'[d].id
    <3>1. task[d].at \in {"setnx", "set"} /\ task'[d].id = task[d].id
      BY <2>3, <1>2
    <3>2. task[d].id \in Conns /\ stored[task[d].id].left = 0
      BY <3>1, CreatorFact DEF Writing, Records
    <3>3. stored'[task'[d].id].left = 0
      BY <3>1, <3>2, <1>5
    <3>4. \A e \in Brokers : task'[e].at \in {"update", "delslot", "delcode"} => task'[e].id # task'[d].id
      BY <3>1, <1>2 DEF Records
    <3> QED BY <3>3, <3>4
  <2> QED BY <2>1, <2>2, <2>3, <1>1 DEF Records
<1>10. Named'
  <2> SUFFICES ASSUME faults = 0, NEW k \in Codes, code'[k].left > 0
               PROVE  \/ \E d \in Brokers : task'[d].at = "set" /\ task'[d].id = code'[k].id /\ task'[d].code = k
                      \/ /\ told[code'[k].id] = k
                         /\ \/ stored'[code'[k].id].left > 0 /\ code'[k].left <= stored'[code'[k].id].left
                            \/ \E d \in Brokers : task'[d].at = "delcode" /\ task'[d].code = k
    BY <1>1 DEF Named
  <2>1. code[k].left > 1 /\ code'[k].id = code[k].id /\ code'[k].left = code[k].left - 1 /\ code[k].left \in 0 .. TTL
    BY <1>4
  <2>2. \/ \E d \in Brokers : task[d].at = "set" /\ task[d].id = code[k].id /\ task[d].code = k
        \/ /\ told[code[k].id] = k
           /\ \/ stored[code[k].id].left > 0 /\ code[k].left <= stored[code[k].id].left
              \/ \E d \in Brokers : task[d].at = "delcode" /\ task[d].code = k
    BY <2>1 DEF Named
  <2>3. code[k].id \in Conns
    BY <2>1 DEF Types
  <2>4. stored[code[k].id].left > 0 /\ code[k].left <= stored[code[k].id].left
          => stored'[code[k].id].left > 0 /\ code'[k].left <= stored'[code[k].id].left
    BY <2>1, <2>3, <1>5
  <2>5. \A d \in Brokers : task'[d].at = task[d].at /\ task'[d].id = task[d].id /\ task'[d].code = task[d].code
    BY <1>2
  <2> QED BY <2>1, <2>2, <2>4, <2>5
<1>11. Claimed'
  <2> SUFFICES ASSUME NEW d \in Brokers, task'[d].at \in {"set", "undo"}, task'[d].code \notin hit
               PROVE  /\ code'[task'[d].code].id = task'[d].id
                      /\ code'[task'[d].code].left >= TTL - task'[d].ticks
                      /\ fresh'[task'[d].id] <= code'[task'[d].code].left + Shortfall
    BY <1>1 DEF Claimed
  <2>1. /\ task[d].at \in {"set", "undo"} /\ task'[d].code = task[d].code /\ task'[d].id = task[d].id
        /\ task[d].ticks = 0 /\ task'[d].ticks = 1
    BY <1>2
  <2>2. task[d].code \in Codes /\ task[d].id \in Conns
    BY <2>1, CreatorFact DEF Writing
  <2>3. /\ code[task[d].code].id = task[d].id /\ code[task[d].code].left >= TTL
        /\ fresh[task[d].id] <= code[task[d].code].left + Shortfall
    BY <2>1, RedisAssumption, ShortfallFact DEF Claimed
  <2>4. code[task[d].code].left > 1 /\ code[task[d].code].left \in 0 .. TTL
    BY <2>2, <2>3, <1>4, RedisAssumption, ShortfallFact
  <2>5. /\ code'[task[d].code].left = code[task[d].code].left - 1
        /\ code'[task[d].code].id = code[task[d].code].id
    BY <2>2, <2>4, <1>4
  <2>6. fresh'[task[d].id] <= code'[task[d].code].left + Shortfall
    BY <2>2, <2>3, <2>4, <2>5, <1>6, RedisAssumption, ShortfallFact
  <2> QED BY <2>1, <2>3, <2>4, <2>5, <2>6, RedisAssumption, ShortfallFact
<1>12. Held'
  <2> SUFFICES ASSUME NEW c \in conns, told[c] # None, told[c] \notin hit, moves[c] = 1, fresh'[c] > Shortfall
               PROVE  /\ code'[told[c]].id = c /\ fresh'[c] <= code'[told[c]].left + Shortfall
                      /\ stored'[c].left > 0 /\ fresh'[c] <= stored'[c].left + Shortfall
    BY <1>1 DEF Held
  <2>1. c \in Conns /\ told[c] \in Codes
    BY DEF Types
  <2>2. fresh[c] \in 0 .. DefaultTTL /\ fresh[c] > Shortfall + 1 /\ fresh'[c] = fresh[c] - 1
    BY <2>1, <1>6, RedisAssumption, ShortfallFact
  <2>3. /\ code[told[c]].id = c /\ fresh[c] <= code[told[c]].left + Shortfall
        /\ stored[c].left > 0 /\ fresh[c] <= stored[c].left + Shortfall
    BY <2>2, ShortfallFact, RedisAssumption DEF Held
  <2>4. code'[told[c]].id = c /\ fresh'[c] <= code'[told[c]].left + Shortfall
    BY <2>1, <2>2, <2>3, <1>4, RedisAssumption, ShortfallFact
  <2>5. stored'[c].left > 0 /\ fresh'[c] <= stored'[c].left + Shortfall
    BY <2>1, <2>2, <2>3, <1>5, RedisAssumption, ShortfallFact
  <2> QED BY <2>4, <2>5
<1> QED BY <1>7, <1>8, <1>9, <1>10, <1>11, <1>12

-----------------------------------------------------------------------------
(* The theorems.                                                           *)

\* Redis is empty and nobody has asked for anything.
LEMMA InvInit ==
  ASSUME Init
  PROVE  Inv
<1>1. /\ \A k \in Codes : code[k].left = 0 /\ code[k].id = None
      /\ \A i \in Conns : stored[i].left = 0 /\ stored[i].sl = NoSlot /\ told[i] = None
      /\ \A b \in Brokers : task[b] = Idle
  BY DEF Init, NoKey
<1>2. Types
  <2>1. /\ code \in [Codes -> [id : Conns \cup {None}, left : 0 .. TTL]]
        /\ stored \in [Conns -> [sl : Slots, left : 0 .. TTL]]
        /\ task \in [Brokers -> TaskSet]
    BY IdleFact, RedisAssumption, ShortfallFact DEF Init, NoKey
  <2>2. /\ fresh \in [Conns -> 0 .. DefaultTTL] /\ conns \in SUBSET Conns /\ moves \in [Conns -> 0 .. 2]
        /\ slotID \in [Conns -> Conns \cup {None}] /\ told \in [Conns -> Codes \cup {None}]
        /\ hit \in SUBSET Codes /\ faults \in 0 .. MaxFaults
    BY RedisAssumption, ShortfallFact DEF Init
  <2> QED BY <1>1, <2>1, <2>2, IdleFact DEF Types
<1>3. Tasks
  BY <1>1, IdleShape DEF Tasks
<1>4. Records
  BY <1>1, IdleFact DEF Records
<1>5. Named
  BY <1>1 DEF Named
<1>6. Claimed
  BY <1>1, IdleFact DEF Claimed
<1>7. Held
  BY <1>1 DEF Held, Init
<1> QED BY <1>2, <1>3, <1>4, <1>5, <1>6, <1>7 DEF Inv

\* Nothing happens.
LEMMA Stuttering ==
  ASSUME Inv, UNCHANGED vars
  PROVE  Inv'
BY DEF vars, redis, hubVars, Inv, Types, Tasks, Records, Named, Claimed, Held

\* Every step keeps the invariant.
LEMMA InvNext ==
  ASSUME Inv, [Next]_vars
  PROVE  Inv'
<1>1. ASSUME NEW c \in Conns, NEW k \in Codes, CreateSlot(c, k) \/ JoinSlot(c, k) PROVE Inv'
  BY <1>1, CreateSlotStep, JoinSlotStep
<1>2. ASSUME NEW c \in Conns, NEW gone \in BOOLEAN, LeaveSlot(c, gone) PROVE Inv'
  BY <1>2, LeaveSlotStep
<1>3. ASSUME NEW b \in Brokers, Step(b) PROVE Inv'
  BY <1>3, SetNXStep, SetStep, UndoStep, GetCodeStep, GetSlotStep, UpdateStep, DeleteGetStep,
     DeleteSlotKeyStep, DeleteCodeKeyStep DEF Step
<1>4. ASSUME NEW b \in Brokers, Crash(b) PROVE Inv'
  BY <1>4, CrashStep
<1> QED BY <1>1, <1>2, <1>3, <1>4, TickStep, Stuttering DEF Next

\* The inductive invariant holds in every reachable state.
THEOREM InvHolds == Spec => []Inv
<1>1. Init => Inv
  BY InvInit
<1>2. Inv /\ [Next]_vars => Inv'
  BY InvNext
<1> QED BY <1>1, <1>2, PTL DEF Spec

\* Types hold, and no key of Redis ever has more time to live than the store gave it.
THEOREM TypesHold == Spec => []TypeOK
<1>1. Inv => TypeOK
  BY DEF Inv, Types, TypeOK, HasCode, HasSlot, TaskSet
<1> QED BY <1>1, InvHolds, PTL

\* While no command has failed, GetByCode never finds an index whose slot is gone,
\* but for the moments in which Create and Delete are between their two keys.
THEOREM NoDanglingHolds == Spec => []NoDangling
<1>1. Inv => NoDangling
  <2> SUFFICES ASSUME Inv, NEW k \in Codes, HasCode(k), ~ HasSlot(code[k].id), ~ faults > 0
               PROVE  \E b \in Brokers : task[b].code = k /\ task[b].at \in {"set", "delcode"}
    BY DEF NoDangling
  <2>1. faults = 0 /\ code[k].left > 0
    BY DEF Inv, Types, HasCode
  <2> QED BY <2>1 DEF Inv, Named, HasSlot
<1> QED BY <1>1, InvHolds, PTL

\* A connected initiator whose slot has not expired is found under the code it was
\* told, whatever other processes create, delete or lose meanwhile.
THEOREM CodeKeptHolds == Spec => []CodeKept
<1>1. Inv => CodeKept
  <2> SUFFICES ASSUME Inv, NEW c \in conns, told[c] \in Codes \ hit, moves[c] = 1, fresh[c] > Shortfall
               PROVE  HasCode(told[c]) /\ code[told[c]].id = c /\ HasSlot(c)
    BY DEF CodeKept
  <2>1. told[c] # None
    BY RedisAssumption, ShortfallFact
  <2>2. code[told[c]].id = c /\ fresh[c] <= code[told[c]].left + Shortfall /\ stored[c].left > 0
    BY <2>1 DEF Inv, Held
  <2>3. fresh[c] \in Nat /\ code[told[c]].left \in Nat
    BY RedisAssumption, ShortfallFact DEF Inv, Types
  <2> QED BY <2>2, <2>3, ShortfallFact DEF HasCode, HasSlot
<1> QED BY <1>1, InvHolds, PTL
=============================================================================
