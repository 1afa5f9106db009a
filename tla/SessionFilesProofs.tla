------------------------- MODULE SessionFilesProofs -------------------------
(***************************************************************************)
(* Proofs about SessionFiles, for any number of peers, requests and        *)
(* faults.                                                                 *)
(*                                                                         *)
(* That an answer of success stands for a verified file that its receiver  *)
(* saves rests on: a request that has been taken from the queue is never   *)
(* put back, so its channels are created once (Queued); where execTransfer *)
(* is tells how far its channel has come (Stage); what the goroutine of a  *)
(* channel does follows what Feed made of the stream (Streams); and nobody *)
(* leaves but of his own accord or after the session was closed (Parting). *)
(***************************************************************************)
EXTENDS SessionFiles, SequenceTheorems, TLAPS

Copies == 0 .. MaxPeers - 1

\* Nothing has been done about request r: no answer an, not the one that is at, no
\* channel t.
Unused(r, an, at, t) == an[r] = "none" /\ r # at /\ \A k \in Copies : t[<<r, k>>] = None

\* What waits in the queue was asked for once and has not been touched.
Queued ==
  /\ \A i \in 1 .. Len(queue) : kind[queue[i]] # None /\ Unused(queue[i], answer, cur, to)
  /\ \A i, k \in 1 .. Len(queue) : queue[i] = queue[k] => i = k
  /\ \A r \in Requests : kind[r] = None => Unused(r, answer, cur, to)

\* Where execTransfer is, its first channel is, and the copies are still to come.
Stage ==
  /\ phase = "opening" => chan[First] = "opening"
  /\ phase = "sending" => chan[First] = "open"
  /\ phase \in {"sent", "copying", "okwait"} => chan[First] = "sent"
  /\ phase \in {"opening", "sending", "sent"} => \A k \in Copies : k > 0 => to[<<cur, k>>] = None
  /\ phase = "copying" => /\ next > 0 /\ next <= extra
                          /\ \A k \in Copies : k >= next => to[<<cur, k>>] = None

\* A channel's stream and the goroutine that receives it.
Streams ==
  \A c \in Chans :
    /\ chan[c] \in {"none", "opening"} => job[c] = "none"
    /\ chan[c] \in {"open", "sent"} => job[c] # "none"
    /\ c \in oks => fed[c] = "verified"
    /\ job[c] = "over" => fed[c] = "refused" \/ state[to[c]] # "in"

\* Who is not in the session any more went himself, or after a Close.
Parting ==
  /\ \A p \in Peers : state[p] # "in" => p \in own \/ ~ live
  /\ \A p \in Peers : <<"close", p>> \in notes => ~ live

\* s.peers names a peer once, as Remove supposes.
NamedOnce == \A i, k \in 1 .. len : peers[i] = peers[k] => i = k

IInv == TypeOK /\ Verified /\ Queued /\ Stage /\ Streams /\ Parting /\ NamedOnce

-----------------------------------------------------------------------------
(* Requests, copies and channels.                                          *)

\* Channels are pairs.
LEMMA ChansFact ==
  /\ \A r \in Requests, k \in Copies : <<r, k>> \in Chans
  /\ \A c \in Chans : c[1] \in Requests /\ c[2] \in Copies /\ c = <<c[1], c[2]>>
  /\ 0 \in Copies /\ \A k \in Copies : k \in Int
BY FilesAssumption DEF Chans, Copies

\* Peers and requests are numbers.
LEMMA NumbersFact ==
  /\ MaxPeers \in Nat \ {0} /\ 1 \in Peers
  /\ \A p \in Peers : p \in Nat /\ p > 0
BY FilesAssumption DEF Peers

\* The channel execTransfer is at.
LEMMA FirstFact ==
  ASSUME TypeOK, phase \notin {"idle", "panic"}
  PROVE  cur \in Requests /\ cur # None /\ First \in Chans
BY ChansFact DEF TypeOK, First

\* Removing a peer moves the later ones down: the array still names each peer of
\* the slice once.
LEMMA RemoveFact ==
  ASSUME TypeOK, NamedOnce, NEW p \in Peers, Remove(p)
  PROVE  peers' \in [Peers -> Peers] /\ len' \in 0 .. MaxPeers /\ NamedOnce'
<1>. USE NumbersFact DEF TypeOK, Peers, NamedOnce
<1>1. CASE p \notin Listed
  BY <1>1 DEF Remove
<1>2. CASE p \in Listed
  <2>1. PICK k \in 1 .. len :
          /\ peers[k] = p
          /\ len' = len - 1
          /\ peers' = [i \in Peers |-> IF k <= i /\ i < len THEN peers[i + 1] ELSE peers[i]]
    BY <1>2 DEF Remove
  <2>2. peers' \in [Peers -> Peers] /\ len' \in 0 .. MaxPeers
    BY <2>1
  <2>3. ASSUME NEW i \in 1 .. len', NEW j \in 1 .. len', peers'[i] = peers'[j]
        PROVE  i = j
    <3>. DEFINE up(n) == IF k <= n THEN n + 1 ELSE n
    <3>1. ASSUME NEW n \in 1 .. len'
          PROVE  up(n) \in 1 .. len /\ peers'[n] = peers[up(n)]
      BY <2>1
    <3>2. up(i) \in 1 .. len /\ up(j) \in 1 .. len /\ peers[up(i)] = peers[up(j)]
      BY <2>3, <3>1
    <3>3. (up(i) = up(j)) => i = j
      BY SMTT(30)
    <3>. HIDE DEF up, TypeOK, Peers
    <3>. QED  BY <3>2, <3>3
  <2>. QED  BY <2>2, <2>3
<1>. QED  BY <1>1, <1>2

-----------------------------------------------------------------------------
(* Every step preserves the invariant: the sender.                         *)

\* A request is put on the queue.
LEMMA EnqueueStep ==
  ASSUME IInv, NEW r \in Requests, NEW k \in Kinds, Enqueue(r, k)
  PROVE  IInv'
<1>. USE FilesAssumption, NoneAssumption, ChansFact, NumbersFact DEF IInv, sendVars, chanVars, roomVars
<1>1. TypeOK'
  BY DEF Enqueue, TypeOK
<1>2. Verified'
  BY DEF Enqueue, Verified, First, TypeOK
<1>3. Queued'
  BY DEF Enqueue, Queued, Unused, TypeOK
<1>4. Stage'
  BY DEF Enqueue, Stage, First, TypeOK
<1>5. Streams'
  BY DEF Enqueue, Streams, TypeOK
<1>6. Parting'
  BY DEF Enqueue, Parting, TypeOK
<1>7. NamedOnce'
  BY DEF Enqueue, NamedOnce, TypeOK
<1>. QED  BY <1>1, <1>2, <1>3, <1>4, <1>5, <1>6, <1>7

\* execTransfer takes a request.
LEMMA TakeRequestStep ==
  ASSUME IInv, TakeRequest
  PROVE  IInv'
<1>. USE FilesAssumption, NoneAssumption, ChansFact, NumbersFact DEF IInv, sendVars, chanVars, roomVars
<1>1. PICK r : r = Head(queue)
  OBVIOUS
<1>2. /\ r \in Requests /\ r = queue[1] /\ Len(queue) >= 1
      /\ queue' \in Seq(Requests) /\ Len(queue') = Len(queue) - 1
      /\ \A i \in 1 .. Len(queue') : queue'[i] = queue[i + 1]
  <2>1. queue \in Seq(Requests) /\ queue # << >> /\ queue' = Tail(queue)
    BY DEF TakeRequest, TypeOK
  <2>. QED  BY <2>1, <1>1, HeadTailProperties, EmptySeq
<1>3. PICK c \in Chans : c = <<r, 0>>
  BY <1>2
<1>4. /\ to[c] = None /\ chan[c] = "none" /\ fed[c] = "no" /\ job[c] = "none"
      /\ answer[r] = "none" /\ \A k \in Copies : to[<<r, k>>] = None
  BY <1>2, <1>3 DEF TypeOK, Queued, Unused, Streams
<1>5. /\ UNCHANGED <<kind, extra, next, fed, oks, job, roomVars, faults>> /\ phase = "idle"
      /\ \/ /\ answer' = [answer EXCEPT ![r] = "error"]
            /\ UNCHANGED <<cur, phase, to, chan>>
         \/ /\ cur' = r /\ phase' = "opening" /\ UNCHANGED answer
            /\ to' = [to EXCEPT ![c] = peers[1]]
            /\ chan' = [chan EXCEPT ![c] = "opening"]
  BY <1>1, <1>3 DEF TakeRequest
<1>6. peers[1] \in Peers /\ r # None /\ peers[1] # None
  BY <1>2 DEF TypeOK
<1>. HIDE FilesAssumption, NoneAssumption, ChansFact, NumbersFact
<1>8. TypeOK'
  <2>1. /\ to' \in [Chans -> Peers \cup {None}]
        /\ chan' \in [Chans -> {"none", "opening", "open", "sent", "dead"}]
        /\ answer' \in [Requests -> {"none", "ok", "error"}]
    <3>1. /\ to \in [Chans -> Peers \cup {None}]
          /\ chan \in [Chans -> {"none", "opening", "open", "sent", "dead"}]
          /\ answer \in [Requests -> {"none", "ok", "error"}]
      BY DEF TypeOK
    <3>. HIDE DEF IInv
    <3>. QED  BY <1>2, <1>5, <1>6, <3>1
  <2>2. ASSUME NEW d \in Chans
        PROVE  /\ chan'[d] # "none" <=> to'[d] # None
               /\ fed'[d] # "no" => chan'[d] = "sent" /\ job'[d] # "none"
    BY <1>4, <1>5, <1>6 DEF TypeOK
  <2>. QED  BY <1>2, <1>5, <1>6, <2>1, <2>2 DEF TypeOK
<1>9. Verified'
  BY <1>2, <1>5 DEF Verified, TypeOK
<1>10. Queued'
  <2>1. ASSUME NEW q \in Requests, q # r, Unused(q, answer, cur, to)
        PROVE  Unused(q, answer', cur', to')
    BY <1>2, <1>3, <1>5, <2>1, ChansFact DEF Unused, TypeOK
  <2>2. ASSUME NEW i \in 1 .. Len(queue')
        PROVE  /\ i + 1 \in 1 .. Len(queue) /\ queue'[i] = queue[i + 1] /\ queue'[i] # r
               /\ queue'[i] \in Requests
    <3>1. Len(queue) \in Nat /\ i + 1 \in 1 .. Len(queue) /\ 1 \in 1 .. Len(queue) /\ i + 1 # 1
      BY <1>2, LenProperties DEF TypeOK
    <3>2. queue[i + 1] # queue[1] /\ queue[i + 1] \in Requests
      BY <3>1, ElementOfSeq DEF Queued, TypeOK
    <3>. QED  BY <3>1, <3>2, <1>2
  <2>3. \A i \in 1 .. Len(queue') : kind'[queue'[i]] # None /\ Unused(queue'[i], answer', cur', to')
    <3>. SUFFICES ASSUME NEW i \in 1 .. Len(queue')
                  PROVE  kind'[queue'[i]] # None /\ Unused(queue'[i], answer', cur', to')
      OBVIOUS
    <3>1. kind[queue[i + 1]] # None /\ Unused(queue[i + 1], answer, cur, to)
      BY <2>2 DEF Queued
    <3>2. Unused(queue'[i], answer, cur, to)
      BY <2>2, <3>1
    <3>. QED  BY <2>1, <2>2, <3>1, <3>2, <1>5
  <2>4. \A i, k \in 1 .. Len(queue') : queue'[i] = queue'[k] => i = k
    <3>. SUFFICES ASSUME NEW i \in 1 .. Len(queue'), NEW k \in 1 .. Len(queue'), queue'[i] = queue'[k]
                  PROVE  i = k
      OBVIOUS
    <3>1. i + 1 = k + 1
      BY <2>2 DEF Queued
    <3>. QED  BY <3>1
  <2>5. kind[r] # None
    BY <1>2, LenProperties DEF Queued, TypeOK
  <2>6. \A q \in Requests : kind'[q] = None => Unused(q, answer', cur', to')
    BY <2>1, <2>5, <1>5 DEF Queued
  <2>. QED  BY <2>3, <2>4, <2>6 DEF Queued
<1>11. Stage'
  <2>1. CASE phase' = "idle"
    BY <2>1 DEF Stage
  <2>2. CASE phase' = "opening" /\ cur' = r /\ to' = [to EXCEPT ![c] = peers[1]]
             /\ chan' = [chan EXCEPT ![c] = "opening"]
    <3>1. First' = c
      BY <2>2, <1>3 DEF First
    <3>2. \A k \in Copies : k > 0 => to'[<<r, k>>] = None
      BY <2>2, <1>2, <1>3, <1>4, ChansFact DEF TypeOK
    <3>. QED  BY <2>2, <3>1, <3>2 DEF Stage, TypeOK
  <2>. QED  BY <1>5, <2>1, <2>2
<1>12. Streams'
  <2>1. ASSUME NEW d \in Chans
        PROVE  /\ chan'[d] \in {"none", "opening"} => job'[d] = "none"
               /\ chan'[d] \in {"open", "sent"} => job'[d] # "none"
               /\ d \in oks' => fed'[d] = "verified"
               /\ job'[d] = "over" => fed'[d] = "refused" \/ state'[to'[d]] # "in"
    BY <1>4, <1>5 DEF TypeOK, Streams
  <2>. QED  BY <2>1 DEF Streams
<1>13. Parting'
  BY DEF TakeRequest, Listed, Parting, TypeOK
<1>14. NamedOnce'
  BY DEF TakeRequest, Listed, NamedOnce, TypeOK
<1>. QED  BY <1>8, <1>9, <1>10, <1>11, <1>12, <1>13, <1>14

\* The first channel opens.
LEMMA OpenFirstStep ==
  ASSUME IInv, OpenFirst
  PROVE  IInv'
<1>. USE FilesAssumption, NoneAssumption, ChansFact, NumbersFact DEF IInv, sendVars, chanVars, roomVars
<1>1. cur \in Requests /\ cur # None /\ First \in Chans
  BY FirstFact DEF OpenFirst
<1>2. TypeOK'
  BY <1>1 DEF OpenFirst, Opens, TypeOK, Streams
<1>3. Verified'
  BY <1>1 DEF OpenFirst, Opens, Verified, First, TypeOK
<1>4. Queued'
  BY <1>1 DEF OpenFirst, Opens, Queued, Unused, TypeOK
<1>5. Stage'
  BY <1>1 DEF OpenFirst, Opens, Stage, First, TypeOK
<1>6. Streams'
  BY <1>1 DEF OpenFirst, Opens, Streams, TypeOK
<1>7. Parting'
  BY <1>1 DEF OpenFirst, Opens, Parting, TypeOK
<1>8. NamedOnce'
  BY <1>1 DEF OpenFirst, Opens, NamedOnce, TypeOK
<1>. QED  BY <1>2, <1>3, <1>4, <1>5, <1>6, <1>7, <1>8

\* The first channel does not open in time.
LEMMA OpenTimeoutStep ==
  ASSUME IInv, OpenTimeout
  PROVE  IInv'
<1>. USE FilesAssumption, NoneAssumption, ChansFact, NumbersFact DEF IInv, sendVars, chanVars, roomVars
<1>0. cur \in Requests /\ cur # None /\ First \in Chans
  BY FirstFact DEF OpenTimeout
<1>1. TypeOK'
  <2>1. chan' = [chan EXCEPT ![First] = "dead"] /\ chan[First] \notin {"none", "sent"}
    BY <1>0 DEF OpenTimeout, GiveUp, Stage
  <2>2. /\ chan' \in [Chans -> {"none", "opening", "open", "sent", "dead"}]
        /\ \A c \in Chans : /\ chan'[c] # "none" <=> to[c] # None
                            /\ fed[c] # "no" => chan'[c] = "sent" /\ job[c] # "none"
    <3>1. /\ chan \in [Chans -> {"none", "opening", "open", "sent", "dead"}]
          /\ \A c \in Chans : /\ chan[c] # "none" <=> to[c] # None
                              /\ fed[c] # "no" => chan[c] = "sent" /\ job[c] # "none"
      BY DEF TypeOK
    <3>2. PICK f \in Chans : f = First
      BY <1>0
    <3>. QED  BY <2>1, <3>1, <3>2
  <2>. QED  BY <1>0, <2>2 DEF OpenTimeout, Reply, GiveUp, TimerFires, Happens, TypeOK
<1>2. Verified'
  BY <1>0 DEF OpenTimeout, Reply, GiveUp, TimerFires, Happens, Verified, First, TypeOK
<1>3. Queued'
  BY <1>0 DEF OpenTimeout, Reply, GiveUp, TimerFires, Happens, Queued, Unused, TypeOK
<1>4. Stage'
  BY <1>0 DEF OpenTimeout, Reply, GiveUp, TimerFires, Happens, Stage, First, TypeOK
<1>5. Streams'
  BY <1>0 DEF OpenTimeout, Reply, GiveUp, TimerFires, Happens, Streams, TypeOK
<1>6. Parting'
  BY <1>0 DEF OpenTimeout, Reply, GiveUp, TimerFires, Happens, Parting, TypeOK
<1>7. NamedOnce'
  BY <1>0 DEF OpenTimeout, Reply, GiveUp, TimerFires, Happens, NamedOnce, TypeOK
<1>. QED  BY <1>1, <1>2, <1>3, <1>4, <1>5, <1>6, <1>7

\* The file cannot be read.
LEMMA StreamFailsStep ==
  ASSUME IInv, StreamFails
  PROVE  IInv'
<1>. USE FilesAssumption, NoneAssumption, ChansFact, NumbersFact DEF IInv, sendVars, chanVars, roomVars
<1>0. cur \in Requests /\ cur # None /\ First \in Chans
  BY FirstFact DEF StreamFails
<1>1. TypeOK'
  <2>1. chan' = [chan EXCEPT ![First] = "dead"] /\ chan[First] \notin {"none", "sent"}
    BY <1>0 DEF StreamFails, GiveUp, Stage
  <2>2. /\ chan' \in [Chans -> {"none", "opening", "open", "sent", "dead"}]
        /\ \A c \in Chans : /\ chan'[c] # "none" <=> to[c] # None
                            /\ fed[c] # "no" => chan'[c] = "sent" /\ job[c] # "none"
    <3>1. /\ chan \in [Chans -> {"none", "opening", "open", "sent", "dead"}]
          /\ \A c \in Chans : /\ chan[c] # "none" <=> to[c] # None
                              /\ fed[c] # "no" => chan[c] = "sent" /\ job[c] # "none"
      BY DEF TypeOK
    <3>2. PICK f \in Chans : f = First
      BY <1>0
    <3>. QED  BY <2>1, <3>1, <3>2
  <2>. QED  BY <1>0, <2>2 DEF StreamFails, Reply, GiveUp, Happens, TypeOK
<1>2. Verified'
  BY <1>0 DEF StreamFails, Reply, GiveUp, Happens, Verified, First, TypeOK
<1>3. Queued'
  BY <1>0 DEF StreamFails, Reply, GiveUp, Happens, Queued, Unused, TypeOK
<1>4. Stage'
  BY <1>0 DEF StreamFails, Reply, GiveUp, Happens, Stage, First, TypeOK
<1>5. Streams'
  BY <1>0 DEF StreamFails, Reply, GiveUp, Happens, Streams, TypeOK
<1>6. Parting'
  BY <1>0 DEF StreamFails, Reply, GiveUp, Happens, Parting, TypeOK
<1>7. NamedOnce'
  BY <1>0 DEF StreamFails, Reply, GiveUp, Happens, NamedOnce, TypeOK
<1>. QED  BY <1>1, <1>2, <1>3, <1>4, <1>5, <1>6, <1>7

\* The file has been sent.
LEMMA StreamStep ==
  ASSUME IInv, Stream
  PROVE  IInv'
<1>. USE FilesAssumption, NoneAssumption, ChansFact, NumbersFact DEF IInv, sendVars, chanVars, roomVars
<1>1. cur \in Requests /\ cur # None /\ First \in Chans
  BY FirstFact DEF Stream
<1>2. TypeOK'
  BY <1>1 DEF Stream, TypeOK, Stage, Streams
<1>3. Verified'
  BY <1>1 DEF Stream, Verified, First, TypeOK
<1>4. Queued'
  BY <1>1 DEF Stream, Queued, Unused, TypeOK
<1>5. Stage'
  BY <1>1 DEF Stream, Stage, First, TypeOK
<1>6. Streams'
  BY <1>1 DEF Stream, Streams, TypeOK, Stage
<1>7. Parting'
  BY <1>1 DEF Stream, Parting, TypeOK
<1>8. NamedOnce'
  BY <1>1 DEF Stream, NamedOnce, TypeOK
<1>. QED  BY <1>2, <1>3, <1>4, <1>5, <1>6, <1>7, <1>8

\* The other peers are looked up.
LEMMA SliceExtraPeersStep ==
  ASSUME IInv, SliceExtraPeers
  PROVE  IInv'
<1>. USE FilesAssumption, NoneAssumption, ChansFact, NumbersFact DEF IInv, sendVars, chanVars, roomVars
<1>1. TypeOK'
  BY DEF SliceExtraPeers, ExtraPeers, TypeOK
<1>2. Verified'
  BY DEF SliceExtraPeers, ExtraPeers, Verified, First, TypeOK
<1>3. Queued'
  BY DEF SliceExtraPeers, ExtraPeers, Queued, Unused, TypeOK
<1>4. Stage'
  BY DEF SliceExtraPeers, ExtraPeers, Stage, First, TypeOK
<1>5. Streams'
  BY DEF SliceExtraPeers, ExtraPeers, Streams, TypeOK
<1>6. Parting'
  BY DEF SliceExtraPeers, ExtraPeers, Parting, TypeOK
<1>7. NamedOnce'
  BY DEF SliceExtraPeers, ExtraPeers, NamedOnce, TypeOK
<1>. QED  BY <1>1, <1>2, <1>3, <1>4, <1>5, <1>6, <1>7

\* A copy is begun.
LEMMA StartCopyStep ==
  ASSUME IInv, StartCopy
  PROVE  IInv'
<1>. USE FilesAssumption, NoneAssumption, ChansFact, NumbersFact DEF IInv, sendVars, chanVars, roomVars
<1>1. cur \in Requests /\ next \in Copies /\ next + 1 \in Peers /\ peers[next + 1] \in Peers
  BY FirstFact DEF StartCopy, TypeOK, Stage, Copies, Peers
<1>2. PICK c \in Chans : c = <<cur, next>>
  BY <1>1
<1>3. to[c] = None /\ chan[c] = "none" /\ fed[c] = "no" /\ job[c] = "none"
  BY <1>1, <1>2 DEF StartCopy, TypeOK, Stage, Streams
<1>4. /\ to' = [to EXCEPT ![c] = peers[next + 1]] /\ peers[next + 1] # None
      /\ chan' = [chan EXCEPT ![c] = "opening"]
      /\ UNCHANGED <<kind, queue, cur, extra, answer, fed, oks, job, roomVars, faults>>
  BY <1>1, <1>2 DEF StartCopy
<1>5. TypeOK'
  <2>1. /\ to' \in [Chans -> Peers \cup {None}]
        /\ chan' \in [Chans -> {"none", "opening", "open", "sent", "dead"}]
        /\ next' \in 0 .. MaxPeers
    <3>1. /\ to \in [Chans -> Peers \cup {None}] /\ peers \in [Peers -> Peers]
          /\ chan \in [Chans -> {"none", "opening", "open", "sent", "dead"}]
          /\ next \in 0 .. MaxPeers /\ next < MaxPeers
      BY <1>1 DEF StartCopy, TypeOK, Peers
    <3>. HIDE DEF IInv
    <3>. QED  BY <1>1, <1>4, <3>1 DEF StartCopy, Peers
  <2>2. ASSUME NEW d \in Chans
        PROVE  /\ chan'[d] # "none" <=> to'[d] # None
               /\ fed'[d] # "no" => chan'[d] = "sent" /\ job'[d] # "none"
    BY <1>1, <1>3, <1>4 DEF TypeOK
  <2>. QED  BY <2>1, <2>2, FirstFact DEF StartCopy, TypeOK
<1>6. Verified'
  BY DEF StartCopy, Verified, First, TypeOK
<1>7. Queued'
  BY SMTT(30) DEF StartCopy, Queued, Unused, TypeOK
<1>8. Stage'
  BY DEF StartCopy, Stage, First, TypeOK
<1>9. Streams'
  <2>1. ASSUME NEW d \in Chans
        PROVE  /\ chan'[d] \in {"none", "opening"} => job'[d] = "none"
               /\ chan'[d] \in {"open", "sent"} => job'[d] # "none"
               /\ d \in oks' => fed'[d] = "verified"
               /\ job'[d] = "over" => fed'[d] = "refused" \/ state'[to'[d]] # "in"
    BY <1>3, <1>4 DEF TypeOK, Streams
  <2>. QED  BY <2>1 DEF Streams
<1>10. Parting'
  BY DEF StartCopy, Parting, TypeOK
<1>11. NamedOnce'
  BY DEF StartCopy, NamedOnce, TypeOK
<1>. QED  BY <1>5, <1>6, <1>7, <1>8, <1>9, <1>10, <1>11

\* The receiver has confirmed.
LEMMA TransferOKStep ==
  ASSUME IInv, TransferOK
  PROVE  IInv'
<1>. USE FilesAssumption, NoneAssumption, ChansFact, NumbersFact DEF IInv, sendVars, chanVars, roomVars
<1>1. cur \in Requests /\ cur # None /\ First \in Chans
  BY FirstFact DEF TransferOK
<1>2. TypeOK'
  BY <1>1 DEF TransferOK, Reply, HasOK, TypeOK
<1>3. Verified'
  <2>1. fed[First] = "verified"
    BY <1>1 DEF TransferOK, HasOK, Streams
  <2>2. ASSUME NEW r \in Requests, answer'[r] = "ok"
        PROVE  fed'[<<r, 0>>] = "verified"
    <3>1. CASE r = cur
      BY <1>1, <2>1, <3>1 DEF TransferOK, First
    <3>2. CASE r # cur
      BY <1>1, <2>2, <3>2 DEF TransferOK, Reply, TypeOK, Verified
    <3>. QED  BY <3>1, <3>2
  <2>. QED  BY <2>2 DEF Verified
<1>4. Queued'
  BY <1>1, SMTT(30) DEF TransferOK, Reply, HasOK, Queued, Unused, TypeOK
<1>5. Stage'
  BY <1>1 DEF TransferOK, Reply, HasOK, Stage, First, TypeOK
<1>6. Streams'
  BY <1>1 DEF TransferOK, Reply, HasOK, Streams, TypeOK
<1>7. Parting'
  BY <1>1 DEF TransferOK, Reply, HasOK, Parting, TypeOK
<1>8. NamedOnce'
  BY <1>1 DEF TransferOK, Reply, HasOK, NamedOnce, TypeOK
<1>. QED  BY <1>2, <1>3, <1>4, <1>5, <1>6, <1>7, <1>8

\* The channel is closed.
LEMMA TransferCancelledStep ==
  ASSUME IInv, TransferCancelled
  PROVE  IInv'
<1>. USE FilesAssumption, NoneAssumption, ChansFact, NumbersFact DEF IInv, sendVars, chanVars, roomVars
<1>1. TypeOK'
  BY DEF TransferCancelled, Reply, TypeOK
<1>2. Verified'
  BY DEF TransferCancelled, Reply, Verified, First, TypeOK
<1>3. Queued'
  BY DEF TransferCancelled, Reply, Queued, Unused, TypeOK
<1>4. Stage'
  BY DEF TransferCancelled, Reply, Stage, First, TypeOK
<1>5. Streams'
  BY DEF TransferCancelled, Reply, Streams, TypeOK
<1>6. Parting'
  BY DEF TransferCancelled, Reply, Parting, TypeOK
<1>7. NamedOnce'
  BY DEF TransferCancelled, Reply, NamedOnce, TypeOK
<1>. QED  BY <1>1, <1>2, <1>3, <1>4, <1>5, <1>6, <1>7

\* The session is over.
LEMMA ContextDoneStep ==
  ASSUME IInv, ContextDone
  PROVE  IInv'
<1>. USE FilesAssumption, NoneAssumption, ChansFact, NumbersFact DEF IInv, sendVars, chanVars, roomVars
<1>1. cur \in Requests /\ cur # None /\ First \in Chans
  BY FirstFact DEF ContextDone
<1>2. TypeOK'
  BY <1>1, SMTT(30) DEF ContextDone, Reply, TypeOK, Stage, Streams
<1>3. Verified'
  BY <1>1 DEF ContextDone, Reply, Verified, First, TypeOK
<1>4. Queued'
  BY <1>1 DEF ContextDone, Reply, Queued, Unused, TypeOK
<1>5. Stage'
  BY <1>1 DEF ContextDone, Reply, Stage, First, TypeOK
<1>6. Streams'
  BY <1>1 DEF ContextDone, Reply, Streams, TypeOK, Stage
<1>7. Parting'
  BY <1>1 DEF ContextDone, Reply, Parting, TypeOK
<1>8. NamedOnce'
  BY <1>1 DEF ContextDone, Reply, NamedOnce, TypeOK
<1>. QED  BY <1>2, <1>3, <1>4, <1>5, <1>6, <1>7, <1>8

\* The channel of a copy opens.
LEMMA OpenCopyStep ==
  ASSUME IInv, NEW c \in Chans, OpenCopy(c)
  PROVE  IInv'
<1>. USE FilesAssumption, NoneAssumption, ChansFact, NumbersFact DEF IInv, sendVars, chanVars, roomVars
<1>1. TypeOK'
  BY DEF OpenCopy, Opens, IsCopy, TypeOK
<1>2. Verified'
  BY DEF OpenCopy, Opens, IsCopy, Verified, First, TypeOK
<1>3. Queued'
  BY DEF OpenCopy, Opens, IsCopy, Queued, Unused, TypeOK
<1>4. Stage'
  BY DEF OpenCopy, Opens, IsCopy, Stage, First, TypeOK
<1>5. Streams'
  BY DEF OpenCopy, Opens, IsCopy, Streams, TypeOK
<1>6. Parting'
  BY DEF OpenCopy, Opens, IsCopy, Parting, TypeOK
<1>7. NamedOnce'
  BY DEF OpenCopy, Opens, IsCopy, NamedOnce, TypeOK
<1>. QED  BY <1>1, <1>2, <1>3, <1>4, <1>5, <1>6, <1>7

\* A copy has been sent.
LEMMA StreamCopyStep ==
  ASSUME IInv, NEW c \in Chans, StreamCopy(c)
  PROVE  IInv'
<1>. USE FilesAssumption, NoneAssumption, ChansFact, NumbersFact DEF IInv, sendVars, chanVars, roomVars
<1>1. TypeOK'
  BY DEF StreamCopy, IsCopy, TypeOK
<1>2. Verified'
  BY DEF StreamCopy, IsCopy, Verified, First, TypeOK
<1>3. Queued'
  BY DEF StreamCopy, IsCopy, Queued, Unused, TypeOK
<1>4. Stage'
  BY DEF StreamCopy, IsCopy, Stage, First, TypeOK
<1>5. Streams'
  BY DEF StreamCopy, IsCopy, Streams, TypeOK
<1>6. Parting'
  BY DEF StreamCopy, IsCopy, Parting, TypeOK
<1>7. NamedOnce'
  BY DEF StreamCopy, IsCopy, NamedOnce, TypeOK
<1>. QED  BY <1>1, <1>2, <1>3, <1>4, <1>5, <1>6, <1>7

\* A copy is given up.
LEMMA CopyGivesUpStep ==
  ASSUME IInv, NEW c \in Chans, CopyGivesUp(c)
  PROVE  IInv'
<1>. USE FilesAssumption, NoneAssumption, ChansFact, NumbersFact DEF IInv, sendVars, chanVars, roomVars
<1>1. TypeOK'
  BY DEF CopyGivesUp, IsCopy, GiveUp, TimerFires, Happens, TypeOK
<1>2. Verified'
  BY DEF CopyGivesUp, IsCopy, GiveUp, TimerFires, Happens, Verified, First, TypeOK
<1>3. Queued'
  BY DEF CopyGivesUp, IsCopy, GiveUp, TimerFires, Happens, Queued, Unused, TypeOK
<1>4. Stage'
  BY DEF CopyGivesUp, IsCopy, GiveUp, TimerFires, Happens, Stage, First, TypeOK
<1>5. Streams'
  BY DEF CopyGivesUp, IsCopy, GiveUp, TimerFires, Happens, Streams, TypeOK
<1>6. Parting'
  BY DEF CopyGivesUp, IsCopy, GiveUp, TimerFires, Happens, Parting, TypeOK
<1>7. NamedOnce'
  BY DEF CopyGivesUp, IsCopy, GiveUp, TimerFires, Happens, NamedOnce, TypeOK
<1>. QED  BY <1>1, <1>2, <1>3, <1>4, <1>5, <1>6, <1>7

\* The receiver compares the hashes.
LEMMA FeedStep ==
  ASSUME IInv, NEW c \in Chans, Feed(c)
  PROVE  IInv'
<1>. USE FilesAssumption, NoneAssumption, ChansFact, NumbersFact DEF IInv, sendVars, chanVars, roomVars
<1>1. TypeOK'
  <2>1. fed' = [fed EXCEPT ![c] = "verified"] \/ fed' = [fed EXCEPT ![c] = "refused"]
    BY DEF Feed
  <2>2. fed' \in [Chans -> {"no", "verified", "refused"}]
    BY <2>1 DEF TypeOK
  <2>3. oks' \subseteq Chans
    BY DEF Feed, TypeOK
  <2>4. ASSUME NEW d \in Chans, fed'[d] # "no"
        PROVE  chan'[d] = "sent" /\ job'[d] # "none"
    BY <2>4 DEF Feed, TypeOK, Streams
  <2>. QED  BY <2>2, <2>3, <2>4 DEF Feed, TypeOK
<1>2. Verified'
  BY DEF Feed, Happens, Verified, First, TypeOK
<1>3. Queued'
  BY DEF Feed, Happens, Queued, Unused, TypeOK
<1>4. Stage'
  BY DEF Feed, Happens, Stage, First, TypeOK
<1>5. Streams'
  BY DEF Feed, Happens, Streams, TypeOK
<1>6. Parting'
  BY DEF Feed, Happens, Parting, TypeOK
<1>7. NamedOnce'
  BY DEF Feed, Happens, NamedOnce, TypeOK
<1>. QED  BY <1>1, <1>2, <1>3, <1>4, <1>5, <1>6, <1>7

\* A goroutine gets its turn.
LEMMA LockStep ==
  ASSUME IInv, NEW c \in Chans, Lock(c)
  PROVE  IInv'
<1>. USE FilesAssumption, NoneAssumption, ChansFact, NumbersFact DEF IInv, sendVars, chanVars, roomVars
<1>1. TypeOK'
  BY DEF Lock, JobStep, Happens, TypeOK
<1>2. Verified'
  BY DEF Lock, JobStep, Happens, Verified, First, TypeOK
<1>3. Queued'
  BY DEF Lock, JobStep, Happens, Queued, Unused, TypeOK
<1>4. Stage'
  BY DEF Lock, JobStep, Happens, Stage, First, TypeOK
<1>5. Streams'
  BY DEF Lock, JobStep, Happens, Streams, TypeOK
<1>6. Parting'
  BY DEF Lock, JobStep, Happens, Parting, TypeOK
<1>7. NamedOnce'
  BY DEF Lock, JobStep, Happens, NamedOnce, TypeOK
<1>. QED  BY <1>1, <1>2, <1>3, <1>4, <1>5, <1>6, <1>7

\* A goroutine has the outcome of its stream.
LEMMA FinishedStep ==
  ASSUME IInv, NEW c \in Chans, Finished(c)
  PROVE  IInv'
<1>. USE FilesAssumption, NoneAssumption, ChansFact, NumbersFact DEF IInv, sendVars, chanVars, roomVars
<1>1. TypeOK'
  BY DEF Finished, JobStep, Happens, TypeOK
<1>2. Verified'
  BY DEF Finished, JobStep, Happens, Verified, First, TypeOK
<1>3. Queued'
  BY DEF Finished, JobStep, Happens, Queued, Unused, TypeOK
<1>4. Stage'
  BY DEF Finished, JobStep, Happens, Stage, First, TypeOK
<1>5. Streams'
  BY DEF Finished, JobStep, Happens, Streams, TypeOK
<1>6. Parting'
  BY DEF Finished, JobStep, Happens, Parting, TypeOK
<1>7. NamedOnce'
  BY DEF Finished, JobStep, Happens, NamedOnce, TypeOK
<1>. QED  BY <1>1, <1>2, <1>3, <1>4, <1>5, <1>6, <1>7

\* A goroutine sees the end of its session.
LEMMA SessionOverStep ==
  ASSUME IInv, NEW c \in Chans, SessionOver(c)
  PROVE  IInv'
<1>. USE FilesAssumption, NoneAssumption, ChansFact, NumbersFact DEF IInv, sendVars, chanVars, roomVars
<1>1. TypeOK'
  BY DEF SessionOver, JobStep, Happens, TypeOK
<1>2. Verified'
  BY DEF SessionOver, JobStep, Happens, Verified, First, TypeOK
<1>3. Queued'
  BY DEF SessionOver, JobStep, Happens, Queued, Unused, TypeOK
<1>4. Stage'
  BY DEF SessionOver, JobStep, Happens, Stage, First, TypeOK
<1>5. Streams'
  BY DEF SessionOver, JobStep, Happens, Streams, TypeOK
<1>6. Parting'
  BY DEF SessionOver, JobStep, Happens, Parting, TypeOK
<1>7. NamedOnce'
  BY DEF SessionOver, JobStep, Happens, NamedOnce, TypeOK
<1>. QED  BY <1>1, <1>2, <1>3, <1>4, <1>5, <1>6, <1>7

\* A file is saved.
LEMMA SaveStep ==
  ASSUME IInv, NEW c \in Chans, Save(c)
  PROVE  IInv'
<1>. USE FilesAssumption, NoneAssumption, ChansFact, NumbersFact DEF IInv, sendVars, chanVars, roomVars
<1>1. TypeOK'
  BY DEF Save, JobStep, Happens, TypeOK
<1>2. Verified'
  BY DEF Save, JobStep, Happens, Verified, First, TypeOK
<1>3. Queued'
  BY DEF Save, JobStep, Happens, Queued, Unused, TypeOK
<1>4. Stage'
  BY DEF Save, JobStep, Happens, Stage, First, TypeOK
<1>5. Streams'
  BY DEF Save, JobStep, Happens, Streams, TypeOK
<1>6. Parting'
  BY DEF Save, JobStep, Happens, Parting, TypeOK
<1>7. NamedOnce'
  BY DEF Save, JobStep, Happens, NamedOnce, TypeOK
<1>. QED  BY <1>1, <1>2, <1>3, <1>4, <1>5, <1>6, <1>7

\* A file cannot be saved.
LEMMA SaveFailsStep ==
  ASSUME IInv, NEW c \in Chans, SaveFails(c)
  PROVE  IInv'
<1>. USE FilesAssumption, NoneAssumption, ChansFact, NumbersFact DEF IInv, sendVars, chanVars, roomVars
<1>1. TypeOK'
  BY DEF SaveFails, JobStep, Happens, TypeOK
<1>2. Verified'
  BY DEF SaveFails, JobStep, Happens, Verified, First, TypeOK
<1>3. Queued'
  BY DEF SaveFails, JobStep, Happens, Queued, Unused, TypeOK
<1>4. Stage'
  BY DEF SaveFails, JobStep, Happens, Stage, First, TypeOK
<1>5. Streams'
  BY DEF SaveFails, JobStep, Happens, Streams, TypeOK
<1>6. Parting'
  BY DEF SaveFails, JobStep, Happens, Parting, TypeOK
<1>7. NamedOnce'
  BY DEF SaveFails, JobStep, Happens, NamedOnce, TypeOK
<1>. QED  BY <1>1, <1>2, <1>3, <1>4, <1>5, <1>6, <1>7

\* The event that hands a file over is dropped.
LEMMA SaveUnseenStep ==
  ASSUME IInv, NEW c \in Chans, SaveUnseen(c)
  PROVE  IInv'
<1>. USE FilesAssumption, NoneAssumption, ChansFact, NumbersFact DEF IInv, sendVars, chanVars, roomVars
<1>1. TypeOK'
  BY DEF SaveUnseen, JobStep, Happens, TypeOK
<1>2. Verified'
  BY DEF SaveUnseen, JobStep, Happens, Verified, First, TypeOK
<1>3. Queued'
  BY DEF SaveUnseen, JobStep, Happens, Queued, Unused, TypeOK
<1>4. Stage'
  BY DEF SaveUnseen, JobStep, Happens, Stage, First, TypeOK
<1>5. Streams'
  BY DEF SaveUnseen, JobStep, Happens, Streams, TypeOK
<1>6. Parting'
  BY DEF SaveUnseen, JobStep, Happens, Parting, TypeOK
<1>7. NamedOnce'
  BY DEF SaveUnseen, JobStep, Happens, NamedOnce, TypeOK
<1>. QED  BY <1>1, <1>2, <1>3, <1>4, <1>5, <1>6, <1>7

\* A channel that was given up opens at its receiver.
LEMMA OpenLateStep ==
  ASSUME IInv, NEW c \in Chans, OpenLate(c)
  PROVE  IInv'
<1>. USE FilesAssumption, NoneAssumption, ChansFact, NumbersFact DEF IInv, sendVars, chanVars, roomVars
<1>1. TypeOK'
  BY DEF OpenLate, TypeOK
<1>2. Verified'
  BY DEF OpenLate, Verified, First, TypeOK
<1>3. Queued'
  BY DEF OpenLate, Queued, Unused, TypeOK
<1>4. Stage'
  BY DEF OpenLate, Stage, First, TypeOK
<1>5. Streams'
  BY DEF OpenLate, Streams, TypeOK
<1>6. Parting'
  BY DEF OpenLate, Parting, TypeOK
<1>7. NamedOnce'
  BY DEF OpenLate, NamedOnce, TypeOK
<1>. QED  BY <1>1, <1>2, <1>3, <1>4, <1>5, <1>6, <1>7

\* A peer leaves.
LEMMA LeavePeerStep ==
  ASSUME IInv, NEW p \in Peers, LeavePeer(p)
  PROVE  IInv'
<1>. USE FilesAssumption, NoneAssumption, ChansFact, NumbersFact DEF IInv, sendVars, chanVars, roomVars
<1>1. TypeOK'
  BY DEF LeavePeer, Happens, TypeOK
<1>2. Verified'
  BY DEF LeavePeer, Happens, Verified, First, TypeOK
<1>3. Queued'
  BY DEF LeavePeer, Happens, Queued, Unused, TypeOK
<1>4. Stage'
  BY DEF LeavePeer, Happens, Stage, First, TypeOK
<1>5. Streams'
  BY DEF LeavePeer, Happens, Streams, TypeOK
<1>6. Parting'
  BY DEF LeavePeer, Happens, Parting, TypeOK
<1>7. NamedOnce'
  BY DEF LeavePeer, Happens, NamedOnce, TypeOK
<1>. QED  BY <1>1, <1>2, <1>3, <1>4, <1>5, <1>6, <1>7

\* The sender is told of it.
LEMMA HandleLeaveStep ==
  ASSUME IInv, NEW p \in Peers, HandleLeave(p)
  PROVE  IInv'
<1>. USE FilesAssumption, NoneAssumption, ChansFact, NumbersFact DEF IInv, sendVars, chanVars, roomVars
<1>1. TypeOK'
  <2>1. peers' \in [Peers -> Peers] /\ len' \in 0 .. MaxPeers
    BY RemoveFact DEF HandleLeave
  <2>. QED  BY <2>1 DEF HandleLeave, TypeOK
<1>2. Verified'
  BY DEF HandleLeave, Remove, Listed, Verified, First, TypeOK
<1>3. Queued'
  BY DEF HandleLeave, Remove, Listed, Queued, Unused, TypeOK
<1>4. Stage'
  BY DEF HandleLeave, Remove, Listed, Stage, First, TypeOK
<1>5. Streams'
  BY DEF HandleLeave, Remove, Listed, Streams, TypeOK
<1>6. Parting'
  BY DEF HandleLeave, Remove, Listed, Parting, TypeOK
<1>7. NamedOnce'
  BY RemoveFact DEF HandleLeave
<1>. QED  BY <1>1, <1>2, <1>3, <1>4, <1>5, <1>6, <1>7

\* A peer exits.
LEMMA ExitPeerStep ==
  ASSUME IInv, NEW p \in Peers, ExitPeer(p)
  PROVE  IInv'
<1>. USE FilesAssumption, NoneAssumption, ChansFact, NumbersFact DEF IInv, sendVars, chanVars, roomVars
<1>1. TypeOK'
  BY DEF ExitPeer, Happens, TypeOK
<1>2. Verified'
  BY DEF ExitPeer, Happens, Verified, First, TypeOK
<1>3. Queued'
  BY DEF ExitPeer, Happens, Queued, Unused, TypeOK
<1>4. Stage'
  BY DEF ExitPeer, Happens, Stage, First, TypeOK
<1>5. Streams'
  BY DEF ExitPeer, Happens, Streams, TypeOK
<1>6. Parting'
  BY DEF ExitPeer, Happens, Parting, TypeOK
<1>7. NamedOnce'
  BY DEF ExitPeer, Happens, NamedOnce, TypeOK
<1>. QED  BY <1>1, <1>2, <1>3, <1>4, <1>5, <1>6, <1>7

\* The sender notices.
LEMMA ControlClosedStep ==
  ASSUME IInv, NEW p \in Peers, ControlClosed(p)
  PROVE  IInv'
<1>. USE FilesAssumption, NoneAssumption, ChansFact, NumbersFact DEF IInv, sendVars, chanVars, roomVars
<1>1. TypeOK'
  <2>1. peers' \in [Peers -> Peers] /\ len' \in 0 .. MaxPeers
    BY RemoveFact DEF ControlClosed
  <2>. QED  BY <2>1 DEF ControlClosed, TypeOK
<1>2. Verified'
  BY DEF ControlClosed, Remove, Listed, Verified, First, TypeOK
<1>3. Queued'
  BY DEF ControlClosed, Remove, Listed, Queued, Unused, TypeOK
<1>4. Stage'
  BY DEF ControlClosed, Remove, Listed, Stage, First, TypeOK
<1>5. Streams'
  BY DEF ControlClosed, Remove, Listed, Streams, TypeOK
<1>6. Parting'
  BY DEF ControlClosed, Remove, Listed, Parting, TypeOK
<1>7. NamedOnce'
  BY RemoveFact DEF ControlClosed
<1>. QED  BY <1>1, <1>2, <1>3, <1>4, <1>5, <1>6, <1>7

\* A peer is told of the end.
LEMMA HandleCloseStep ==
  ASSUME IInv, NEW p \in Peers, HandleClose(p)
  PROVE  IInv'
<1>. USE FilesAssumption, NoneAssumption, ChansFact, NumbersFact DEF IInv, sendVars, chanVars, roomVars
<1>1. TypeOK'
  BY DEF HandleClose, TypeOK
<1>2. Verified'
  BY DEF HandleClose, Verified, First, TypeOK
<1>3. Queued'
  BY DEF HandleClose, Queued, Unused, TypeOK
<1>4. Stage'
  BY DEF HandleClose, Stage, First, TypeOK
<1>5. Streams'
  BY DEF HandleClose, Streams, TypeOK
<1>6. Parting'
  BY DEF HandleClose, Parting, TypeOK
<1>7. NamedOnce'
  BY DEF HandleClose, NamedOnce, TypeOK
<1>. QED  BY <1>1, <1>2, <1>3, <1>4, <1>5, <1>6, <1>7

\* The sender closes the session.
LEMMA CloseSessionStep ==
  ASSUME IInv, CloseSession
  PROVE  IInv'
<1>. USE FilesAssumption, NoneAssumption, ChansFact, NumbersFact DEF IInv, sendVars, chanVars, roomVars
<1>1. TypeOK'
  <2>1. notes' \subseteq {"leave", "close"} \X Peers
    BY DEF CloseSession, TypeOK, Listed, Peers
  <2>. QED  BY <2>1 DEF CloseSession, TypeOK
<1>2. Verified'
  BY DEF CloseSession, Happens, Listed, Verified, First, TypeOK
<1>3. Queued'
  BY DEF CloseSession, Happens, Listed, Queued, Unused, TypeOK
<1>4. Stage'
  BY DEF CloseSession, Happens, Listed, Stage, First, TypeOK
<1>5. Streams'
  BY DEF CloseSession, Happens, Listed, Streams, TypeOK
<1>6. Parting'
  BY DEF CloseSession, Happens, Listed, Parting, TypeOK
<1>7. NamedOnce'
  BY DEF CloseSession, Happens, Listed, NamedOnce, TypeOK
<1>. QED  BY <1>1, <1>2, <1>3, <1>4, <1>5, <1>6, <1>7

-----------------------------------------------------------------------------
(* The theorems.                                                           *)

\* The session at its start.
LEMMA InitInv ==
  ASSUME Init
  PROVE  IInv
<1>. USE FilesAssumption, NoneAssumption, ChansFact, NumbersFact
<1>1. TypeOK
  <2>1. << >> \in Seq(Requests)
    BY EmptySeq
  <2>2. peers \in [Peers -> Peers] /\ len \in 0 .. MaxPeers
    BY DEF Init
  <2>3. extra \in 0 .. MaxPeers - 1 /\ next \in 0 .. MaxPeers
    BY DEF Init
  <2>4. \A c \in Chans : to[c] = None /\ chan[c] = "none" /\ fed[c] = "no"
    BY DEF Init
  <2>. QED  BY <2>1, <2>2, <2>3, <2>4 DEF Init, TypeOK
<1>2. Verified
  BY DEF Init, Verified
<1>3. Queued
  <2>1. Len(queue) = 0
    BY EmptySeq DEF Init
  <2>2. \A r \in Requests : Unused(r, answer, cur, to)
    BY DEF Init, Unused
  <2>. QED  BY <2>1, <2>2 DEF Queued
<1>4. Stage /\ Streams
  BY DEF Init, Stage, Streams
<1>5. Parting
  BY DEF Init, Parting
<1>6. NamedOnce
  BY DEF Init, NamedOnce, Peers
<1>. QED  BY <1>1, <1>2, <1>3, <1>4, <1>5, <1>6 DEF IInv

\* Every step of the sender, the channels, the receivers and the peers.
LEMMA NextInv ==
  ASSUME IInv, [Next]_vars
  PROVE  IInv'
<1>1. CASE UNCHANGED vars
  BY <1>1 DEF IInv, TypeOK, Verified, Queued, Stage, First, Streams, Parting, NamedOnce,
              vars, sendVars, chanVars, roomVars
<1>2. ASSUME NEW r \in Requests, NEW k \in Kinds, Enqueue(r, k)
      PROVE  IInv'
  BY <1>2, EnqueueStep
<1>3. CASE Sender
  BY <1>3, TakeRequestStep, OpenFirstStep, OpenTimeoutStep, StreamStep, StreamFailsStep,
     SliceExtraPeersStep, StartCopyStep, TransferOKStep, TransferCancelledStep, ContextDoneStep DEF Sender
<1>4. ASSUME NEW c \in Chans, Copy(c)
      PROVE  IInv'
  BY <1>4, OpenCopyStep, StreamCopyStep, CopyGivesUpStep DEF Copy
<1>5. ASSUME NEW c \in Chans, Receiver(c) \/ OpenLate(c)
      PROVE  IInv'
  BY <1>5, FeedStep, LockStep, FinishedStep, SessionOverStep, SaveStep, SaveUnseenStep,
     SaveFailsStep, OpenLateStep DEF Receiver
<1>6. ASSUME NEW p \in Peers, LeavePeer(p) \/ ExitPeer(p) \/ Control(p)
      PROVE  IInv'
  BY <1>6, LeavePeerStep, ExitPeerStep, HandleLeaveStep, ControlClosedStep, HandleCloseStep
     DEF Control
<1>7. CASE CloseSession
  BY <1>7, CloseSessionStep
<1>. QED  BY <1>1, <1>2, <1>3, <1>4, <1>5, <1>6, <1>7 DEF Next

\* The invariant holds throughout every session.
THEOREM InvHolds == Spec => []IInv
<1>1. Init => IInv
  BY InitInv
<1>2. IInv /\ [Next]_vars => IInv'
  BY NextInv
<1>. QED  BY <1>1, <1>2, PTL DEF Spec

\* A file that its receiver has verified, and that it can save and report, is lost only
\* to a receiver who leaves or to the session's end: its goroutine gives up for no other
\* reason.
LEMMA SavedWhenOKFact ==
  ASSUME IInv
  PROVE  SavedWhenOK
<1>. SUFFICES ASSUME NEW r \in Requests, answer[r] = "ok", Lost(<<r, 0>>)
              PROVE  to[<<r, 0>>] \in own \/ ~ live \/ job[<<r, 0>>] \in {"failed", "unseen"}
  BY DEF SavedWhenOK
<1>1. PICK c \in Chans : c = <<r, 0>>
  BY ChansFact
<1>2. fed[c] = "verified"
  BY <1>1 DEF IInv, Verified
<1>3. to[c] \in Peers
  BY <1>2 DEF IInv, TypeOK
<1>4. state[to[c]] # "in" \/ job[c] \in {"failed", "unseen"}
  BY <1>1, <1>2 DEF Lost, IInv, Streams
<1>. QED  BY <1>1, <1>3, <1>4 DEF IInv, Parting

\* Types; execTransfer has a request, a used channel a peer, and what a receiver has
\* looked at was sent: however many peers, requests and faults there are.
THEOREM TypesHold == Spec => []TypeOK
<1>1. IInv => TypeOK
  BY DEF IInv
<1>. QED  BY <1>1, InvHolds, PTL

\* req.done never reports success for a file that its receiver has not verified.
THEOREM VerifiedHolds == Spec => []Verified
<1>1. IInv => Verified
  BY DEF IInv
<1>. QED  BY <1>1, InvHolds, PTL

\* A file reported as delivered is lost only to a receiver who leaves, to the session's
\* end, to a disk that does not take it, or to an Events that is full.
THEOREM SavedWhenOKHolds == Spec => []SavedWhenOK
<1>1. IInv => SavedWhenOK
  BY SavedWhenOKFact
<1>. QED  BY <1>1, InvHolds, PTL
=============================================================================
