--------------------------- MODULE TransferProofs ---------------------------
(***************************************************************************)
(* Proofs about Transfer, for files of any size, any chunk sizes, windows, *)
(* faults and number of attempts.                                          *)
(*                                                                         *)
(* That the transfer implements FileDelivery rests on what is on the way:  *)
(* one header first, one TransferDone last (ToReceiver), so that what is   *)
(* verified is not touched again (Ends); on the partial file holding what  *)
(* has been hashed (Written); and on the names that are taken being the    *)
(* first ones, fewer than there were attempts (Free).  That the acks come  *)
(* in order is a count of everything in flight (Flow).  That a partial can *)
(* be resumed rests on the receiver having got the chunks in order         *)
(* (Pending, Receiving), which makes the partial and meta agree (Sound).   *)
(***************************************************************************)
EXTENDS Transfer, SequenceTheorems, TLAPS

Units == Files \X Nat
Metas == [file : Files, cs : ChunkSizes, bytes : Nat, chunks : Nat]

Live == spc # "end" \/ rpc # "end"

\* The first n chunks of file f.
Pre(f, size, n) == SubSeq(Content(f), 1, SmallerOf(n * size, Size[f]))

\* The attempt and its two ends.
Ends ==
  /\ Live => file \in Files /\ cs \in ChunkSizes /\ tries > 0
  /\ hdr \in {None, file}
  /\ told => spc = "end"
  /\ ~ openR => spc = "end" \/ rpc = "end"
  /\ okGot => verified
  /\ kept => verified
  /\ spc \in {"start", "resume"} => next = 0 /\ base = 0
  /\ spc = "start" => acks = <<>>
  /\ ret = "cancelled" => spc = "end"
  /\ ret = "ok" => verified /\ (kind = "mem" => rbuf = Content(file))
  /\ kind = "mem" => rpc \in {"ready", "end"} /\ (kept => rpc = "end")
  /\ rpc \in {"meta0", "meta"} => hdr # None /\ ~ kept
  /\ rpc = "meta" => opened
  /\ rpc = "meta0" => rbuf = <<>> /\ cur = 0 /\ ~ opened
  /\ rpc = "renamed" => kept

\* What is on its way to the receiver: a header, chunks, TransferDone, a cancellation;
\* nothing but a cancellation once the file has been verified.
ToReceiver ==
  /\ \A i \in 1 .. Len(toR) :
       /\ toR[i].type \in {"header", "chunk", "done", "cancelled"}
       /\ toR[i].type = "header" => i = 1 /\ hdr = None /\ toR[i].file = file /\ toR[i].cs = cs
       /\ toR[i].type = "chunk" => /\ spc \in {"loop", "wait", "end"}
                                   /\ toR[i].data = ChunkOf(file, cs, toR[i].seq)
       /\ toR[i].type = "done" => /\ spc \in {"wait", "end"}
                                  /\ \A k \in i + 1 .. Len(toR) : toR[k].type = "cancelled"
       /\ toR[i].type = "cancelled" => spc = "end" /\ i = Len(toR)
       /\ toR[i].type \in {"chunk", "done"} /\ hdr = None => toR[1].type = "header"
  /\ spc = "start" => toR = <<>> /\ hdr = None
  /\ spc \in {"resume", "loop"} /\ hdr = None /\ rpc # "end" => toR # <<>> /\ toR[1].type = "header"
  /\ verified => spc \in {"wait", "end"} /\ \A i \in 1 .. Len(toR) : toR[i].type = "cancelled"

\* What is on its way to the sender; nothing before the header has arrived.
ToSender ==
  /\ \A i \in 1 .. Len(toS) :
       /\ toS[i].type \in {"ack", "resume", "ok", "error", "cancelled"}
       /\ toS[i].type = "ok" => verified
       /\ hdr = None => toS[i].type = "cancelled"
  /\ hdr = None => /\ ~ opened /\ ~ verified /\ resume = None /\ cur = 0
                   /\ rpc \in {"ready", "end"}
                   /\ Len(toS) <= 1 /\ (rpc # "end" => toS = <<>>)

\* The first u names are taken, by fewer attempts than there were.
Free ==
  \E u \in 0 .. tries : /\ \A n \in Names : store[n] # None <=> n < u
                        /\ ~ kept /\ tries > 0 => u < tries

\* The partial file holds what has gone into the hash.
Written == kind = "disk" /\ ~ kept /\ (opened \/ rpc = "meta0") => partial = rbuf

ResumeAhead == IF toS # <<>> /\ toS[1].type = "resume" THEN 1 ELSE 0
HeaderAhead == IF toR # <<>> /\ toR[1].type = "header" THEN 1 ELSE 0
Received == base + Len(acks) + Len(toS) - ResumeAhead + (IF rpc = "meta" THEN 1 ELSE 0)

\* Until something fails: the acks that have arrived, those on their way, the chunk
\* being written and the chunks on their way are base .. next - 1, in this order.
Flow ==
  spc \in {"resume", "loop"} /\ ret = None =>
    /\ \A i \in 1 .. Len(acks) : acks[i] = base + i - 1
    /\ \A i \in 1 .. Len(toS) :
         i > ResumeAhead => \/ toS[i].type = "ack" /\ toS[i].seq = base + Len(acks) + i - 1 - ResumeAhead
                            \/ rpc = "end" /\ i = Len(toS) /\ toS[i].type = "cancelled"
    /\ rpc # "end" =>
         /\ rpc = "meta" => cur = Received - 1
         /\ \A i \in 1 .. Len(toR) : i > HeaderAhead =>
              toR[i].type = "chunk" /\ toR[i].seq = Received + i - 1 - HeaderAhead
         /\ next = Received + Len(toR) - HeaderAhead
    /\ rpc = "end" => /\ base + Len(acks) <= next
                      /\ \A i \in 1 .. Len(toS) : toS[i].type = "ack" => toS[i].seq < next

\* A meta file counts its bytes in chunks, and a partial of that length is the file's.
Sound ==
  ~ gap /\ meta \notin {None, Torn} =>
    /\ meta.bytes = SmallerOf(meta.chunks * meta.cs, Size[meta.file])
    /\ partial # None /\ Len(partial) = meta.bytes /\ meta.chunks # 0 =>
         partial = SubSeq(Content(meta.file), 1, Len(partial))

\* Behind a header the chunks start at zero.
Pending ==
  rpc # "end" /\ toR # <<>> /\ toR[1].type = "header" =>
    /\ \A i \in 1 .. Len(toR) : toR[i].type = "chunk" => toR[i].seq = i - 2
    /\ spc = "loop" => next = Len(toR) - 1

\* The receiver has written the first n chunks and the next ones are on their way or
\* will be sent; a sender that has not left the select will start where it asks.
Receiving ==
  ~ gap /\ kind = "disk" /\ rpc # "end" /\ ~ kept /\ (opened \/ rpc = "meta0") =>
    \E n \in Nat :
      /\ rbuf = Pre(file, cs, n)
      /\ rpc = "meta" => n = cur + 1
      /\ \A i \in 1 .. Len(toR) : toR[i].type = "chunk" => toR[i].seq = n + i - 1
      /\ spc = "loop" => next = n + Len(toR)
      /\ spc = "resume" => /\ n = cur /\ (resume # None => resume = cur)
                           /\ \A i \in 1 .. Len(toS) : toS[i].type = "resume" => toS[i].seq = cur
      /\ opened /\ meta \notin {None, Torn} => meta.file = file

IInv ==
  /\ TypeOK /\ Ends /\ ToReceiver /\ ToSender /\ Free /\ Written
  /\ Flow /\ Sound /\ Pending /\ Receiving

-----------------------------------------------------------------------------
(* Sequences, frames and chunks.                                           *)

\* Taking a frame from the front.
LEMMA TailFact ==
  ASSUME NEW S, NEW q \in Seq(S), q # <<>>
  PROVE  /\ Tail(q) \in Seq(S) /\ Len(q) \in Nat /\ Len(q) > 0 /\ Len(Tail(q)) = Len(q) - 1
         /\ Head(q) = q[1] /\ q[1] \in S
         /\ \A i \in 1 .. Len(Tail(q)) : i + 1 \in 1 .. Len(q) /\ Tail(q)[i] = q[i + 1]
BY HeadTailProperties, EmptySeq

LEMMA LastFact ==
  ASSUME NEW S, NEW q \in Seq(S), q # <<>>
  PROVE  \A i \in 1 .. Len(Tail(q)) : i + 1 = Len(q) => i = Len(Tail(q))
BY HeadTailProperties, EmptySeq

\* Putting a frame at the end.
LEMMA AppendFact ==
  ASSUME NEW S, NEW q \in Seq(S), NEW e \in S
  PROVE  /\ Append(q, e) \in Seq(S) /\ Len(Append(q, e)) = Len(q) + 1 /\ Len(q) \in Nat
         /\ Append(q, e)[Len(q) + 1] = e /\ Append(q, e) # <<>>
         /\ \A i \in 1 .. Len(q) : Append(q, e)[i] = q[i]
BY AppendProperties

\* What a closed channel still delivers.
LEMMA PrefixFact ==
  ASSUME NEW S, NEW q \in Seq(S), NEW p \in PrefixesOf(q)
  PROVE  /\ p \in Seq(S) /\ Len(p) \in Nat /\ Len(q) \in Nat /\ Len(p) <= Len(q)
         /\ \A i \in 1 .. Len(p) : i \in 1 .. Len(q) /\ p[i] = q[i]
<1>1. PICK n \in 0 .. Len(q) : p = SubSeq(q, 1, n)
  BY DEF PrefixesOf
<1>2. Len(q) \in Nat /\ n \in Int /\ n <= Len(q) /\ n \in Nat
  BY LenProperties
<1>3. \A i \in 1 .. n : q[i] \in S
  BY <1>2, ElementOfSeq
<1>4. p \in Seq(S) /\ Len(p) = n /\ \A i \in 1 .. n : p[i] = q[i]
  BY <1>1, <1>2, <1>3, SubSeqProperties
<1> QED BY <1>2, <1>4

\* An empty sequence has length zero.
LEMMA EmptyFact ==
  ASSUME NEW S, NEW q \in Seq(S)
  PROVE  Len(q) \in Nat /\ (q = <<>> <=> Len(q) = 0)
BY EmptySeq, LenProperties

\* The frames that are sent.
LEMMA FramesFact ==
  /\ \A f \in Files, size \in ChunkSizes :
       HeaderFrame(f, size) \in Frames /\ HeaderFrame(f, size).type = "header"
       /\ HeaderFrame(f, size).file = f /\ HeaderFrame(f, size).cs = size
  /\ \A n \in Nat, d \in Seq(Units) :
       ChunkFrame(n, d) \in Frames /\ ChunkFrame(n, d).type = "chunk"
       /\ ChunkFrame(n, d).seq = n /\ ChunkFrame(n, d).data = d
  /\ \A n \in Nat : /\ BuildResumeFrame(n) \in Frames /\ BuildResumeFrame(n).type = "resume"
                    /\ BuildResumeFrame(n).seq = n
                    /\ BuildAckFrame(n) \in Frames /\ BuildAckFrame(n).type = "ack"
                    /\ BuildAckFrame(n).seq = n
  /\ BuildCancelledFrame \in Frames /\ BuildCancelledFrame.type = "cancelled"
  /\ BuildErrorFrame \in Frames /\ BuildErrorFrame.type = "error"
  /\ [type |-> "done"] \in Frames /\ [type |-> "done"].type = "done"
  /\ [type |-> "ok"] \in Frames /\ [type |-> "ok"].type = "ok"
BY DEF Frames, Units, HeaderFrame, ChunkFrame, BuildResumeFrame, BuildAckFrame, BuildCancelledFrame,
       BuildErrorFrame

\* And what they carry.
LEMMA FrameFields ==
  ASSUME NEW m \in Frames
  PROVE  /\ m.type = "header" => m.file \in Files /\ m.cs \in ChunkSizes
         /\ m.type = "chunk" => m.seq \in Nat /\ m.data \in Seq(Units)
         /\ m.type \in {"ack", "resume"} => m.seq \in Nat
BY DEF Frames, Units

\* A file's content.
LEMMA ContentFact ==
  ASSUME NEW f \in Files
  PROVE  /\ Content(f) \in Seq(Units) /\ Len(Content(f)) = Size[f] /\ Size[f] \in Nat
         /\ Content(f) # None
<1>1. Size[f] \in Nat
  BY SizeAssumption
<1>2. Content(f) \in [1 .. Size[f] -> Units]
  BY <1>1 DEF Content, Units
<1>3. Content(f) \in Seq(Units) /\ Len(Content(f)) = Size[f]
  BY <1>1, <1>2, SeqDef, LenProperties
<1> QED BY <1>1, <1>3, NoneAssumption DEF Units

\* A part of a sequence: its length and elements.
LEMMA PartFact ==
  ASSUME NEW S, NEW q \in Seq(S), NEW a \in Nat, NEW b \in Nat, b <= Len(q)
  PROVE  /\ SubSeq(q, a + 1, b) \in Seq(S)
         /\ Len(SubSeq(q, a + 1, b)) = IF a <= b THEN b - a ELSE 0
         /\ \A i \in 1 .. Len(SubSeq(q, a + 1, b)) : SubSeq(q, a + 1, b)[i] = q[a + i]
<1>1. Len(q) \in Nat
  BY LenProperties
<1>2. \A i \in a + 1 .. b : q[i] \in S
  BY <1>1, ElementOfSeq
<1>3. SubSeq(q, a + 1, b) \in Seq(S)
  BY <1>1, <1>2, SubSeqProperties
<1> QED BY <1>1, <1>3, SubSeqProperties

\* The first zero elements, and all of them.
LEMMA EmptyPart ==
  ASSUME NEW S, NEW q \in Seq(S)
  PROVE  SubSeq(q, 1, 0) = <<>> /\ SubSeq(q, 1, Len(q)) = q
<1>1. Len(q) \in Nat /\ 0 + 1 = 1 /\ 0 <= Len(q) /\ \A i \in 1 .. Len(q) : 0 + i = i
  BY LenProperties
<1>2. SubSeq(q, 0 + 1, 0) \in Seq(S) /\ Len(SubSeq(q, 0 + 1, 0)) = 0
  BY <1>1, PartFact
<1>3. /\ SubSeq(q, 0 + 1, Len(q)) \in Seq(S) /\ Len(SubSeq(q, 0 + 1, Len(q))) = Len(q)
      /\ \A i \in 1 .. Len(q) : SubSeq(q, 0 + 1, Len(q))[i] = q[i]
  BY <1>1, PartFact
<1>4. SubSeq(q, 1, Len(q)) = q
  BY <1>1, <1>3, SeqEqual
<1> QED BY <1>1, <1>2, <1>4, EmptySeq

\* Multiplying counts by sizes.
LEMMA ProductFact ==
  ASSUME NEW n \in Nat, NEW s \in Nat
  PROVE  n * s \in Nat /\ (n + 1) * s = n * s + s /\ (n + 1) * s \in Nat /\ 0 * s = 0
OBVIOUS

\* Counts that cancel out.
LEMMA CancelFact ==
  ASSUME NEW a \in Int, NEW b \in Int
  PROVE  a + 0 + b - b + 0 = a /\ a + b - b = a
OBVIOUS

LEMMA ShiftFact ==
  ASSUME NEW a \in Int, NEW b \in Int, NEW i \in Int
  PROVE  /\ a + b + (i + 1) - 1 - 1 = a + b + i - 1 - 0
         /\ a + b + (i + 1) - 1 - 0 = a + (b + 1) + i - 1 - 0
OBVIOUS

\* One more chunk extends the beginning of the file that has been received.
LEMMA NextChunk ==
  ASSUME NEW f \in Files, NEW s \in Nat, NEW n \in Nat
  PROVE  /\ Pre(f, s, n) \in Seq(Units) /\ Len(Pre(f, s, n)) = SmallerOf(n * s, Size[f])
         /\ ChunkOf(f, s, n) \in Seq(Units)
         /\ Pre(f, s, n) \o ChunkOf(f, s, n) = Pre(f, s, n + 1)
<1> DEFINE C == Content(f)
           a == n * s
           d == n * s + s
           p == SubSeq(C, 1, SmallerOf(a, Size[f]))
           c == SubSeq(C, a + 1, SmallerOf(d, Size[f]))
           r == SubSeq(C, 1, SmallerOf(d, Size[f]))
<1>1. C \in Seq(Units) /\ Len(C) = Size[f] /\ Size[f] \in Nat
  BY ContentFact
<1>2. a \in Nat /\ d \in Nat /\ a <= d
  BY ProductFact
<1>3. Pre(f, s, n) = p /\ ChunkOf(f, s, n) = c /\ Pre(f, s, n + 1) = r
  BY ProductFact DEF Pre, ChunkOf
<1> HIDE DEF C, a, d
<1>4. /\ SmallerOf(a, Size[f]) \in Nat /\ SmallerOf(a, Size[f]) <= Len(C) /\ SmallerOf(a, Size[f]) <= a
      /\ SmallerOf(d, Size[f]) \in Nat /\ SmallerOf(d, Size[f]) <= Len(C)
      /\ SmallerOf(a, Size[f]) <= SmallerOf(d, Size[f])
      /\ a > SmallerOf(d, Size[f]) => SmallerOf(a, Size[f]) = SmallerOf(d, Size[f])
      /\ a <= SmallerOf(d, Size[f]) => SmallerOf(a, Size[f]) = a
  BY <1>1, <1>2 DEF SmallerOf
<1>5. /\ p \in Seq(Units) /\ Len(p) = SmallerOf(a, Size[f]) /\ \A i \in 1 .. Len(p) : p[i] = C[i]
      /\ r \in Seq(Units) /\ Len(r) = SmallerOf(d, Size[f]) /\ \A i \in 1 .. Len(r) : r[i] = C[i]
  <2>1. ASSUME NEW b \in Nat, b <= Len(C)
        PROVE  /\ SubSeq(C, 1, b) \in Seq(Units) /\ Len(SubSeq(C, 1, b)) = b
               /\ \A i \in 1 .. Len(SubSeq(C, 1, b)) : SubSeq(C, 1, b)[i] = C[i]
    <3>1. 0 + 1 = 1 /\ \A i \in 1 .. b : 0 + i = i
      BY <2>1
    <3> QED BY <1>1, <2>1, <3>1, PartFact
  <2> QED BY <2>1, <1>4
<1>6. /\ c \in Seq(Units)
      /\ Len(c) = IF a <= SmallerOf(d, Size[f]) THEN SmallerOf(d, Size[f]) - a ELSE 0
      /\ \A i \in 1 .. Len(c) : c[i] = C[a + i]
  BY <1>1, <1>2, <1>4, PartFact
<1> HIDE DEF p, c, r
<1>7. /\ p \o c \in Seq(Units) /\ Len(p \o c) = Len(p) + Len(c)
      /\ \A i \in 1 .. Len(p) + Len(c) : (p \o c)[i] = IF i <= Len(p) THEN p[i] ELSE c[i - Len(p)]
  BY <1>5, <1>6, ConcatProperties
<1>8. Len(p \o c) = Len(r)
  BY <1>2, <1>4, <1>5, <1>6, <1>7
<1>9. ASSUME NEW i \in 1 .. Len(r)
      PROVE  (p \o c)[i] = r[i]
  <2>1. CASE i <= Len(p)
    BY <2>1, <1>5, <1>7, <1>8, <1>9
  <2>2. CASE i > Len(p)
    <3>1. a <= SmallerOf(d, Size[f]) /\ Len(p) = a /\ i - Len(p) \in 1 .. Len(c)
      BY <2>2, <1>2, <1>4, <1>5, <1>6, <1>7, <1>8, <1>9
    <3>2. (p \o c)[i] = c[i - Len(p)] /\ c[i - Len(p)] = C[a + (i - Len(p))] /\ a + (i - Len(p)) = i
      BY <2>2, <3>1, <1>2, <1>6, <1>7, <1>8, <1>9
    <3> QED BY <3>2, <1>5, <1>9
  <2>3. Len(p) \in Nat /\ Len(r) \in Nat
    BY <1>4, <1>5
  <2>4. i <= Len(p) \/ i > Len(p)
    BY <2>3
  <2> QED BY <2>1, <2>2, <2>4
<1>10. p \o c = r
  BY <1>5, <1>7, <1>8, <1>9, SeqEqual
<1> QED BY <1>3, <1>5, <1>6, <1>10 DEF a

-----------------------------------------------------------------------------
(* The sender's steps.                                                     *)

\* Send returns: its last frames may be lost.
LEMMA SenderStops ==
  ASSUME IInv, spc # "end", spc' = "end", NEW q \in {toR, Append(toR, BuildCancelledFrame)},
         toR' \in PrefixesOf(q), told' \in BOOLEAN, disturbed' \in BOOLEAN,
         UNCHANGED <<file, cs, kind, tries, base, next, eof, acks, resume, okGot, rc, toS,
                     openS, openR, rpc, hdr, opened, rbuf, cur, ret, partial, meta, store,
                     verified, kept, gap>>
  PROVE  IInv'
<1> USE DEF IInv
<1>1. toR \in Seq(Frames) /\ BuildCancelledFrame \in Frames /\ BuildCancelledFrame.type = "cancelled"
  BY FramesFact DEF TypeOK
<1>2. /\ q \in Seq(Frames) /\ Len(toR) \in Nat /\ Len(q) \in Nat /\ Len(q) <= Len(toR) + 1
      /\ \A i \in 1 .. Len(toR) : q[i] = toR[i]
      /\ Len(q) > Len(toR) => q[Len(toR) + 1].type = "cancelled"
  BY <1>1, AppendFact, EmptyFact
<1>3. /\ toR' \in Seq(Frames) /\ Len(toR') \in Nat /\ Len(toR') <= Len(q)
      /\ \A i \in 1 .. Len(toR') : i \in 1 .. Len(q) /\ toR'[i] = q[i]
  BY <1>2, PrefixFact
<1>4. \A i \in 1 .. Len(toR') : \/ i \in 1 .. Len(toR) /\ toR'[i] = toR[i]
                                \/ i = Len(toR) + 1 /\ i = Len(toR') /\ toR'[i].type = "cancelled"
  BY <1>2, <1>3
<1>5. toR' # <<>> => Len(toR') > 0
  BY <1>3, EmptyFact
<1>6. toR # <<>> <=> Len(toR) > 0
  BY <1>1, EmptyFact
<1>p0. TypeOK'
  BY <1>3 DEF TypeOK
<1>p1. Ends'
  BY DEF Ends, Live
<1>p2. ToReceiver'
  <2>1. ASSUME NEW i \in 1 .. Len(toR')
        PROVE  /\ toR'[i].type \in {"header", "chunk", "done", "cancelled"}
               /\ toR'[i].type = "header" => i = 1 /\ hdr = None /\ toR'[i].file = file /\ toR'[i].cs = cs
               /\ toR'[i].type = "chunk" => toR'[i].data = ChunkOf(file, cs, toR'[i].seq)
               /\ toR'[i].type = "done" => \A k \in i + 1 .. Len(toR') : toR'[k].type = "cancelled"
               /\ toR'[i].type = "cancelled" => i = Len(toR')
               /\ toR'[i].type \in {"chunk", "done"} /\ hdr = None => toR'[1].type = "header"
    <3>1. CASE i = Len(toR) + 1 /\ i = Len(toR') /\ toR'[i].type = "cancelled"
      BY <3>1
    <3>2. CASE i \in 1 .. Len(toR) /\ toR'[i] = toR[i]
      <4>1. toR'[i].type # "cancelled"
        BY <3>2 DEF ToReceiver
      <4>2. toR'[i].type = "done" => \A k \in i + 1 .. Len(toR') : toR'[k].type = "cancelled"
        BY <3>2, <1>2, <1>3, <1>4 DEF ToReceiver
      <4>3. 1 \in 1 .. Len(toR') /\ 1 \in 1 .. Len(toR)
        BY <3>2, <1>2, <1>3
      <4>4. toR'[1] = toR[1]
        BY <4>3, <1>2, <1>3
      <4> QED BY <3>2, <4>1, <4>2, <4>4 DEF ToReceiver
    <3> QED BY <3>1, <3>2, <1>4
  <2>2. verified => \A i \in 1 .. Len(toR') : toR'[i].type = "cancelled"
    BY <1>4 DEF ToReceiver
  <2> QED BY <2>1, <2>2 DEF ToReceiver
<1>p3. ToSender'
  BY DEF ToSender
<1>p4. Free'
  BY DEF Free
<1>p5. Written'
  BY DEF Written
<1>p6. Flow'
  BY DEF Flow, Received, ResumeAhead, HeaderAhead
<1>p7. Sound'
  BY DEF Sound
<1>p8. Pending'
  <2> SUFFICES ASSUME rpc # "end", toR' # <<>>, toR'[1].type = "header", NEW i \in 1 .. Len(toR'), toR'[i].type = "chunk"
               PROVE  toR'[i].seq = i - 2
    BY DEF Pending
  <2>1. i \in 1 .. Len(toR) /\ toR'[i] = toR[i] /\ 1 \in 1 .. Len(toR)
    BY <1>4, <1>2
  <2>2. toR'[1] = toR[1] /\ toR # <<>>
    BY <2>1, <1>2, <1>3, <1>6
  <2> QED BY <2>1, <2>2 DEF Pending
<1>p9. Receiving'
  <2> SUFFICES ASSUME ~ gap, kind = "disk", rpc # "end", ~ kept, opened \/ rpc = "meta0"
               PROVE  \E n \in Nat :
                        /\ rbuf = Pre(file, cs, n)
                        /\ rpc = "meta" => n = cur + 1
                        /\ \A i \in 1 .. Len(toR') : toR'[i].type = "chunk" => toR'[i].seq = n + i - 1
                        /\ opened /\ meta \notin {None, Torn} => meta.file = file
    BY DEF Receiving
  <2>1. PICK n \in Nat :
             /\ rbuf = Pre(file, cs, n)
             /\ rpc = "meta" => n = cur + 1
             /\ \A i \in 1 .. Len(toR) : toR[i].type = "chunk" => toR[i].seq = n + i - 1
             /\ opened /\ meta \notin {None, Torn} => meta.file = file
    BY DEF Receiving
  <2> QED BY <2>1, <1>4
<1> QED BY <1>p0, <1>p1, <1>p2, <1>p3, <1>p4, <1>p5, <1>p6, <1>p7, <1>p8, <1>p9

\* The header goes out.
LEMMA HeaderSent ==
  ASSUME IInv, spc = "start", spc' = "resume", toR' = IF rpc = "end" THEN toR ELSE Append(toR, HeaderFrame(file, cs)),
         UNCHANGED <<file, cs, kind, tries, base, next, eof, acks, resume, okGot, rc, told, toS,
                     openS, openR, rpc, hdr, opened, rbuf, cur, ret, partial, meta, store,
                     verified, kept, gap, disturbed>>
  PROVE  IInv'
<1> USE DEF IInv
<1>1. /\ toR = <<>> /\ hdr = None /\ file \in Files /\ cs \in ChunkSizes /\ next = 0 /\ base = 0 /\ acks = <<>>
      /\ ~ verified /\ rpc \in {"ready", "end"} /\ ~ opened
  BY DEF Ends, Live, ToReceiver, ToSender
<1>2. /\ HeaderFrame(file, cs) \in Frames /\ HeaderFrame(file, cs).type = "header"
      /\ HeaderFrame(file, cs).file = file /\ HeaderFrame(file, cs).cs = cs
  BY <1>1, FramesFact
<1>3. toR \in Seq(Frames) /\ Len(toR) = 0 /\ Len(acks) = 0
  BY <1>1, EmptyFact DEF TypeOK
<1>4. /\ toR' \in Seq(Frames)
      /\ rpc = "end" => toR' = <<>> /\ Len(toR') = 0
      /\ rpc # "end" => Len(toR') = 1 /\ toR' # <<>> /\ toR'[1] = HeaderFrame(file, cs)
  BY <1>1, <1>2, <1>3, AppendFact
<1> HIDE DEF HeaderFrame
<1>p0. TypeOK'
  BY <1>4 DEF TypeOK
<1>p1. Ends'
  BY DEF Ends, Live
<1>p2. ToReceiver'
  BY <1>1, <1>2, <1>4 DEF ToReceiver
<1>p3. ToSender'
  BY DEF ToSender
<1>p4. Free'
  BY DEF Free
<1>p5. Written'
  BY DEF Written
<1>p6. Flow'
  <2>1. Len(toS) \in Nat /\ (toS = <<>> <=> Len(toS) = 0) /\ Len(toS) <= 1 /\ (rpc # "end" => toS = <<>>)
        /\ \A i \in 1 .. Len(toS) : toS[i].type = "cancelled"
    BY <1>1, EmptyFact DEF ToSender, TypeOK
  <2>2. ResumeAhead' = 0
    BY <2>1 DEF ResumeAhead
  <2>3. CASE rpc = "end"
    BY <2>1, <2>2, <2>3, <1>1, <1>3 DEF Flow
  <2>4. CASE rpc # "end"
    <3>1. Received' = 0 /\ HeaderAhead' = 1
      BY <2>1, <2>2, <2>4, <1>1, <1>2, <1>3, <1>4 DEF Received, HeaderAhead
    <3> QED BY <2>1, <2>2, <2>4, <3>1, <1>1, <1>3, <1>4 DEF Flow
  <2> QED BY <2>3, <2>4
<1>p7. Sound'
  BY DEF Sound
<1>p8. Pending'
  BY <1>2, <1>4 DEF Pending
<1>p9. Receiving'
  BY <1>1 DEF Receiving
<1> QED BY <1>p0, <1>p1, <1>p2, <1>p3, <1>p4, <1>p5, <1>p6, <1>p7, <1>p8, <1>p9

\* Send leaves the select: with the chunk to start from, or without.
LEMMA ResumeAwaited ==
  ASSUME IInv, spc = "resume", spc' = "loop", disturbed' \in BOOLEAN,
         \/ resume # None /\ base' = resume /\ next' = resume /\ resume' = None /\ gap' = gap
         \/ gap' = (gap \/ cur > 0) /\ base' = base /\ next' = next /\ resume' = resume,
         UNCHANGED <<file, cs, kind, tries, eof, acks, okGot, rc, told, toR, toS, openS, openR,
                     rpc, hdr, opened, rbuf, cur, ret, partial, meta, store, verified, kept>>
  PROVE  IInv'
<1> USE DEF IInv
<1>1. /\ base = 0 /\ next = 0 /\ (gap => gap') /\ gap' \in BOOLEAN /\ base' = next' /\ base' \in Nat /\ next' \in Nat
      /\ resume' \in Nat \cup {None}
  BY DEF Ends, TypeOK
<1>2. /\ Len(toR) \in Nat /\ (toR = <<>> <=> Len(toR) = 0) /\ Len(toS) \in Nat /\ (toS = <<>> <=> Len(toS) = 0)
      /\ Len(acks) \in Nat
  BY EmptyFact DEF TypeOK
<1>3. \A i \in 1 .. Len(toR) : toR[i].type = "header" /\ i = 1 /\ hdr = None
  BY DEF ToReceiver
<1>p0. TypeOK'
  BY <1>1 DEF TypeOK
<1>p1. Ends'
  BY <1>1 DEF Ends, Live
<1>p2. ToReceiver'
  BY <1>3 DEF ToReceiver
<1>p3. ToSender'
  BY DEF ToSender
<1>p4. Free'
  BY DEF Free
<1>p5. Written'
  BY DEF Written
<1>p6. Flow'
  <2> SUFFICES ASSUME ret = None PROVE Flow'
    BY DEF Flow
  <2>1. PICK r \in {0, 1}, h \in {0, 1} :
             r = ResumeAhead /\ h = HeaderAhead /\ r <= Len(toS) /\ h <= Len(toR) /\ r = ResumeAhead' /\ h = HeaderAhead'
    BY <1>2 DEF ResumeAhead, HeaderAhead
  <2>2. CASE rpc # "end"
    <3>1. next = Received + Len(toR) - h
      BY <2>1, <2>2 DEF Flow
    <3>2. PICK m \in {0, 1} : /\ m = IF rpc = "meta" THEN 1 ELSE 0
                             /\ Received = base + Len(acks) + Len(toS) - r + m
      BY <2>1 DEF Received
    <3>3. Len(acks) = 0 /\ Len(toS) = r /\ m = 0 /\ Len(toR) = h
      <4>1. 0 = 0 + Len(acks) + Len(toS) - r + m + Len(toR) - h
        BY <3>1, <3>2, <1>1
      <4>2. r <= Len(toS) /\ h <= Len(toR)
        BY <2>1
      <4> QED BY <4>1, <4>2, <1>2
    <3>4. rpc # "meta"
      BY <3>2, <3>3
    <3>5. Received' = base'
      <4>1. Received' = base' + Len(acks) + Len(toS) - r + 0
        BY <2>1, <3>4 DEF Received
      <4>2. base' \in Int /\ r \in Int
        BY <1>1, <2>1
      <4>3. base' + 0 + r - r + 0 = base'
        BY <4>2, CancelFact
      <4> QED BY <4>1, <4>3, <3>3
    <3>6. next' = Received' + Len(toR) - h
      <4>1. base' \in Int /\ h \in Int
        BY <1>1, <2>1
      <4>2. base' = base' + h - h
        BY <4>1, CancelFact
      <4> QED BY <3>3, <3>5, <4>2, <1>1
    <3>7. /\ \A i \in 1 .. Len(acks) : FALSE
          /\ \A i \in 1 .. Len(toS) : ~ i > r
          /\ \A i \in 1 .. Len(toR) : ~ i > h
      BY <3>3
    <3> QED BY <2>1, <2>2, <3>4, <3>6, <3>7 DEF Flow
  <2>3. CASE rpc = "end"
    <3>1. Len(acks) = 0 /\ \A i \in 1 .. Len(toS) : toS[i].type = "ack" => toS[i].seq < 0
      BY <2>3, <1>1, <1>2 DEF Flow
    <3>2. \A i \in 1 .. Len(toS) : toS[i] \in Frames
      BY ElementOfSeq DEF TypeOK
    <3>3. \A i \in 1 .. Len(toS) : toS[i].type # "ack"
      BY <3>1, <3>2, FrameFields
    <3>4. \A i \in 1 .. Len(toS) : i > r => i = Len(toS) /\ toS[i].type = "cancelled"
      BY <2>1, <2>3, <3>3 DEF Flow
    <3>5. base' + Len(acks) <= next' /\ \A i \in 1 .. Len(acks) : acks[i] = base' + i - 1
      BY <3>1, <1>1
    <3> QED BY <2>1, <2>3, <3>3, <3>4, <3>5 DEF Flow
  <2> QED BY <2>2, <2>3
<1>p7. Sound'
  BY <1>1 DEF Sound
<1>p8. Pending'
  BY <1>1, <1>2, <1>3 DEF Pending, ToSender
<1>p9. Receiving'
  <2> SUFFICES ASSUME ~ gap', kind = "disk", rpc # "end", ~ kept, opened \/ rpc = "meta0"
               PROVE  \E n \in Nat :
                        /\ rbuf = Pre(file, cs, n)
                        /\ rpc = "meta" => n = cur + 1
                        /\ \A i \in 1 .. Len(toR) : toR[i].type = "chunk" => toR[i].seq = n + i - 1
                        /\ next' = n + Len(toR)
                        /\ opened /\ meta \notin {None, Torn} => meta.file = file
    BY DEF Receiving
  <2>1. PICK n \in Nat :
             /\ rbuf = Pre(file, cs, n)
             /\ rpc = "meta" => n = cur + 1
             /\ n = cur /\ (resume # None => resume = cur)
             /\ opened /\ meta \notin {None, Torn} => meta.file = file
    BY <1>1 DEF Receiving
  <2>2. hdr # None
    BY DEF ToSender
  <2>3. Len(toR) = 0
    BY <2>2, <1>2, <1>3
  <2>4. next' = n
    BY <2>1, <1>1 DEF TypeOK
  <2> QED BY <2>1, <2>3, <2>4
<1> QED BY <1>p0, <1>p1, <1>p2, <1>p3, <1>p4, <1>p5, <1>p6, <1>p7, <1>p8, <1>p9

\* The file has been read to its end.
LEMMA AtEOF ==
  ASSUME IInv, eof' \in BOOLEAN,
         UNCHANGED <<file, cs, kind, tries, spc, base, next, acks, resume, okGot, rc, told, toR,
                     toS, openS, openR, rpc, hdr, opened, rbuf, cur, ret, partial, meta, store,
                     verified, kept, gap, disturbed>>
  PROVE  IInv'
<1> USE DEF IInv
<1>p0. TypeOK'
  BY DEF TypeOK
<1>p1. Ends'
  BY DEF Ends, Live
<1>p2. ToReceiver'
  BY DEF ToReceiver
<1>p3. ToSender'
  BY DEF ToSender
<1>p4. Free'
  BY DEF Free
<1>p5. Written'
  BY DEF Written
<1>p6. Flow'
  BY DEF Flow, Received, ResumeAhead, HeaderAhead
<1>p7. Sound'
  BY DEF Sound
<1>p8. Pending'
  BY DEF Pending
<1>p9. Receiving'
  BY DEF Receiving
<1> QED BY <1>p0, <1>p1, <1>p2, <1>p3, <1>p4, <1>p5, <1>p6, <1>p7, <1>p8, <1>p9

\* A chunk goes out.
LEMMA ChunkSent ==
  ASSUME IInv, spc = "loop", NEW data, data = ChunkOf(file, cs, next), next' = next + 1,
         toR' = IF rpc = "end" THEN toR ELSE Append(toR, ChunkFrame(next, data)),
         UNCHANGED <<file, cs, kind, tries, spc, base, eof, acks, resume, okGot, rc, told, toS,
                     openS, openR, rpc, hdr, opened, rbuf, cur, ret, partial, meta, store,
                     verified, kept, gap, disturbed>>
  PROVE  IInv'
<1> USE DEF IInv
<1>1. /\ file \in Files /\ cs \in ChunkSizes /\ next \in Nat /\ cs \in Nat /\ toR \in Seq(Frames) /\ ~ verified
  BY ChunkSizesAssumption DEF Ends, Live, TypeOK, ToReceiver
<1>2. data \in Seq(Units)
  BY <1>1, NextChunk
<1>3. /\ ChunkFrame(next, data) \in Frames /\ ChunkFrame(next, data).type = "chunk"
      /\ ChunkFrame(next, data).seq = next /\ ChunkFrame(next, data).data = data
  BY <1>1, <1>2, FramesFact
<1>4. Len(toR) \in Nat /\ (toR = <<>> <=> Len(toR) = 0)
  BY <1>1, EmptyFact
<1> HIDE DEF ChunkFrame
<1>5. /\ toR' \in Seq(Frames) /\ (rpc = "end" => toR' = toR)
      /\ rpc # "end" => /\ Len(toR') = Len(toR) + 1 /\ toR'[Len(toR) + 1] = ChunkFrame(next, data) /\ toR' # <<>>
                        /\ \A i \in 1 .. Len(toR) : toR'[i] = toR[i]
  BY <1>1, <1>3, AppendFact
<1>6. \A i \in 1 .. Len(toR') : i \in 1 .. Len(toR) \/ (i = Len(toR) + 1 /\ rpc # "end")
  BY <1>4, <1>5
<1>7. \A i \in 1 .. Len(toR) : toR[i].type \in {"header", "chunk"}
  BY DEF ToReceiver
<1>8. rpc # "end" /\ Len(toR) > 0 => toR'[1] = toR[1]
  BY <1>4, <1>5
<1>p0. TypeOK'
  BY <1>1, <1>5 DEF TypeOK
<1>p1. Ends'
  BY DEF Ends, Live
<1>p2. ToReceiver'
  <2>1. CASE rpc = "end"
    BY <2>1, <1>5 DEF ToReceiver
  <2>2. CASE rpc # "end"
    <3>1. hdr = None => toR # <<>> /\ toR[1].type = "header"
      BY <2>2 DEF ToReceiver
    <3>2. ASSUME NEW i \in 1 .. Len(toR')
          PROVE  /\ toR'[i].type \in {"header", "chunk"}
                 /\ toR'[i].type = "header" => i = 1 /\ hdr = None /\ toR'[i].file = file /\ toR'[i].cs = cs
                 /\ toR'[i].type = "chunk" => toR'[i].data = ChunkOf(file, cs, toR'[i].seq)
                 /\ hdr = None => toR'[1].type = "header"
      <4>1. hdr = None => toR'[1].type = "header"
        BY <2>2, <3>1, <1>4, <1>8
      <4>2. CASE i \in 1 .. Len(toR)
        BY <2>2, <4>1, <4>2, <1>5, <1>7 DEF ToReceiver
      <4>3. CASE i = Len(toR) + 1
        BY <2>2, <4>1, <4>3, <1>3, <1>5
      <4> QED BY <4>2, <4>3, <1>6
    <3>3. hdr = None => toR'[1].type = "header"
      BY <2>2, <3>1, <1>4, <1>8
    <3> QED BY <2>2, <3>2, <3>3, <1>1, <1>5 DEF ToReceiver
  <2> QED BY <2>1, <2>2
<1>p3. ToSender'
  BY DEF ToSender
<1>p4. Free'
  BY DEF Free
<1>p5. Written'
  BY DEF Written
<1>p6. Flow'
  <2> SUFFICES ASSUME ret = None PROVE Flow'
    BY DEF Flow
  <2>1. CASE rpc = "end"
    <3>1. ResumeAhead' = ResumeAhead
      BY DEF ResumeAhead
    <3>2. Len(acks) \in Nat /\ base \in Nat /\ \A i \in 1 .. Len(toS) : toS[i].type = "ack" => toS[i].seq \in Nat
      BY EmptyFact, ElementOfSeq, FrameFields DEF TypeOK
    <3>3. \A i \in 1 .. Len(toS) : toS[i].type = "ack" => toS[i].seq < next'
      BY <2>1, <3>2, <1>1 DEF Flow
    <3>4. base + Len(acks) <= next'
      BY <2>1, <3>2, <1>1 DEF Flow
    <3>5. /\ \A i \in 1 .. Len(acks) : acks[i] = base + i - 1
          /\ \A i \in 1 .. Len(toS) :
               i > ResumeAhead => \/ toS[i].type = "ack" /\ toS[i].seq = base + Len(acks) + i - 1 - ResumeAhead
                                  \/ rpc = "end" /\ i = Len(toS) /\ toS[i].type = "cancelled"
      BY DEF Flow
    <3> QED BY <2>1, <3>1, <3>3, <3>4, <3>5 DEF Flow
  <2>2. CASE rpc # "end"
    <3>1. ResumeAhead' = ResumeAhead /\ Received' = Received
      BY DEF ResumeAhead, Received
    <3>2. HeaderAhead' = HeaderAhead /\ HeaderAhead \in {0, 1}
      <4>1. CASE Len(toR) > 0
        BY <2>2, <4>1, <1>4, <1>5, <1>8 DEF HeaderAhead
      <4>2. CASE Len(toR) = 0
        BY <2>2, <4>2, <1>3, <1>4, <1>5 DEF HeaderAhead
      <4> QED BY <4>1, <4>2, <1>4
    <3>3. next = Received + Len(toR) - HeaderAhead
      BY <2>2 DEF Flow
    <3>4. Received \in Int
      BY EmptyFact DEF Received, ResumeAhead, TypeOK
    <3>5. \A i \in 1 .. Len(toR') : i > HeaderAhead =>
            toR'[i].type = "chunk" /\ toR'[i].seq = Received + i - 1 - HeaderAhead
      <4> SUFFICES ASSUME NEW i \in 1 .. Len(toR'), i > HeaderAhead
                   PROVE  toR'[i].type = "chunk" /\ toR'[i].seq = Received + i - 1 - HeaderAhead
        OBVIOUS
      <4>1. CASE i \in 1 .. Len(toR)
        BY <2>2, <4>1, <1>5 DEF Flow
      <4>2. CASE i = Len(toR) + 1
        BY <2>2, <4>2, <3>2, <3>3, <3>4, <1>3, <1>4, <1>5
      <4> QED BY <4>1, <4>2, <1>6
    <3>6. next' = Received + Len(toR') - HeaderAhead
      BY <2>2, <3>2, <3>3, <3>4, <1>4, <1>5
    <3> QED BY <2>2, <3>1, <3>2, <3>5, <3>6 DEF Flow
  <2> QED BY <2>1, <2>2
<1>p7. Sound'
  BY DEF Sound
<1>p8. Pending'
  <2> SUFFICES ASSUME rpc # "end", toR' # <<>>, toR'[1].type = "header"
               PROVE  (\A i \in 1 .. Len(toR') : toR'[i].type = "chunk" => toR'[i].seq = i - 2) /\ next' = Len(toR') - 1
    BY DEF Pending
  <2>1. toR # <<>> /\ Len(toR) > 0 /\ toR[1].type = "header"
    BY <1>3, <1>4, <1>5, <1>8
  <2>2. next = Len(toR) - 1 /\ \A i \in 1 .. Len(toR) : toR[i].type = "chunk" => toR[i].seq = i - 2
    BY <2>1 DEF Pending
  <2> QED BY <2>1, <2>2, <1>1, <1>3, <1>4, <1>5, <1>6
<1>p9. Receiving'
  <2> SUFFICES ASSUME ~ gap, kind = "disk", rpc # "end", ~ kept, opened \/ rpc = "meta0"
               PROVE  \E n \in Nat :
                        /\ rbuf = Pre(file, cs, n)
                        /\ rpc = "meta" => n = cur + 1
                        /\ \A i \in 1 .. Len(toR') : toR'[i].type = "chunk" => toR'[i].seq = n + i - 1
                        /\ next' = n + Len(toR')
                        /\ opened /\ meta \notin {None, Torn} => meta.file = file
    BY DEF Receiving
  <2>1. PICK n \in Nat :
             /\ rbuf = Pre(file, cs, n)
             /\ rpc = "meta" => n = cur + 1
             /\ \A i \in 1 .. Len(toR) : toR[i].type = "chunk" => toR[i].seq = n + i - 1
             /\ next = n + Len(toR)
             /\ opened /\ meta \notin {None, Torn} => meta.file = file
    BY DEF Receiving
  <2>2. \A i \in 1 .. Len(toR') : toR'[i].type = "chunk" => toR'[i].seq = n + i - 1
    BY <2>1, <1>3, <1>4, <1>5, <1>6
  <2>3. next' = n + Len(toR')
    BY <2>1, <1>1, <1>4, <1>5
  <2> QED BY <2>1, <2>2, <2>3
<1> QED BY <1>p0, <1>p1, <1>p2, <1>p3, <1>p4, <1>p5, <1>p6, <1>p7, <1>p8, <1>p9

\* A new attempt starts, on what the earlier ones left on the disk.
LEMMA Started ==
  ASSUME IInv, NEW f \in Files, NEW size \in ChunkSizes, NEW k \in Kinds, Start(f, size, k),
         UNCHANGED <<partial, meta, store, gap>>
  PROVE  IInv'
<1> USE DEF IInv
<1> USE DEF Start
<1>1. tries \in Nat /\ tries < MaxTries /\ MaxTries \in Nat /\ tries' = tries + 1
  BY MaxTriesAssumption DEF TypeOK
<1>2. k \in {"disk", "mem"} /\ f # None
  BY KindsAssumption, NoneAssumption
<1>3. toR' = <<>> /\ toS' = <<>> /\ Len(toR') = 0 /\ Len(toS') = 0
  BY EmptySeq
<1>p0. TypeOK'
  <2>1. acks' \in Seq(Nat) /\ toR' \in Seq(Frames) /\ toS' \in Seq(Frames) /\ rbuf' \in Seq(Files \X Nat)
    BY EmptySeq
  <2>2. tries' \in 0 .. MaxTries
    BY <1>1
  <2> QED BY <2>1, <2>2, <1>2 DEF TypeOK, diskVars
<1>p1. Ends'
  <2>1. tries' > 0
    BY <1>1
  <2> QED BY <2>1, <1>2, NoneAssumption DEF Ends, Live
<1>p2. ToReceiver'
  BY <1>3 DEF ToReceiver
<1>p3. ToSender'
  BY <1>3 DEF ToSender
<1>p4. Free'
  <2>1. PICK u \in 0 .. tries : \A n \in Names : store[n] # None <=> n < u
    BY DEF Free
  <2>2. u \in 0 .. tries' /\ u < tries'
    BY <1>1, <2>1
  <2> QED BY <2>1, <2>2, <1>1 DEF Free, diskVars
<1>p5. Written'
  BY DEF Written
<1>p6. Flow'
  BY DEF Flow
<1>p7. Sound'
  BY DEF Sound, diskVars
<1>p8. Pending'
  BY <1>3 DEF Pending
<1>p9. Receiving'
  BY DEF Receiving
<1> QED BY <1>p0, <1>p1, <1>p2, <1>p3, <1>p4, <1>p5, <1>p6, <1>p7, <1>p8, <1>p9

\* The oldest chunk in flight is acknowledged.
LEMMA AckTaken ==
  ASSUME IInv, spc = "loop", acks # <<>>, Head(acks) = base, base' = base + 1, acks' = Tail(acks),
         UNCHANGED <<file, cs, kind, tries, spc, next, eof, resume, okGot, rc, told, toR, toS,
                     openS, openR, rpc, hdr, opened, rbuf, cur, ret, partial, meta, store,
                     verified, kept, gap, disturbed>>
  PROVE  IInv'
<1> USE DEF IInv
<1>1. /\ acks' \in Seq(Nat) /\ Len(acks) \in Nat /\ Len(acks) > 0 /\ Len(acks') = Len(acks) - 1
      /\ \A i \in 1 .. Len(acks') : i + 1 \in 1 .. Len(acks) /\ acks'[i] = acks[i + 1]
      /\ base \in Nat
  BY TailFact DEF TypeOK
<1>2. base' + Len(acks') = base + Len(acks)
  BY <1>1
<1>p0. TypeOK'
  BY <1>1 DEF TypeOK
<1>p1. Ends'
  BY DEF Ends, Live
<1>p2. ToReceiver'
  BY DEF ToReceiver
<1>p3. ToSender'
  BY DEF ToSender
<1>p4. Free'
  BY DEF Free
<1>p5. Written'
  BY DEF Written
<1>p6. Flow'
  <2> SUFFICES ASSUME ret = None PROVE Flow'
    BY DEF Flow
  <2>1. ResumeAhead' = ResumeAhead /\ HeaderAhead' = HeaderAhead
    BY DEF ResumeAhead, HeaderAhead
  <2>2. Received' = Received
    BY <2>1, <1>2 DEF Received
  <2>3. \A i \in 1 .. Len(acks') : acks'[i] = base' + i - 1
    <3> TAKE i \in 1 .. Len(acks')
    <3>1. acks[i + 1] = base + (i + 1) - 1
      BY <1>1 DEF Flow
    <3> QED BY <1>1, <3>1
  <2>4. \A i \in 1 .. Len(toS) :
          i > ResumeAhead => \/ toS[i].type = "ack" /\ toS[i].seq = base' + Len(acks') + i - 1 - ResumeAhead
                             \/ rpc = "end" /\ i = Len(toS) /\ toS[i].type = "cancelled"
    BY <1>2 DEF Flow
  <2>5. rpc # "end" =>
          /\ rpc = "meta" => cur = Received - 1
          /\ \A i \in 1 .. Len(toR) : i > HeaderAhead =>
               toR[i].type = "chunk" /\ toR[i].seq = Received + i - 1 - HeaderAhead
          /\ next = Received + Len(toR) - HeaderAhead
    BY DEF Flow
  <2>6. rpc = "end" => /\ base' + Len(acks') <= next
                       /\ \A i \in 1 .. Len(toS) : toS[i].type = "ack" => toS[i].seq < next
    BY <1>2 DEF Flow
  <2> QED BY <2>1, <2>2, <2>3, <2>4, <2>5, <2>6 DEF Flow
<1>p7. Sound'
  BY DEF Sound
<1>p8. Pending'
  BY DEF Pending
<1>p9. Receiving'
  BY DEF Receiving
<1> QED BY <1>p0, <1>p1, <1>p2, <1>p3, <1>p4, <1>p5, <1>p6, <1>p7, <1>p8, <1>p9

\* TransferDone goes out.
LEMMA DoneSent ==
  ASSUME IInv, spc = "loop", spc' = "wait", toR' = IF rpc = "end" THEN toR ELSE Append(toR, [type |-> "done"]),
         UNCHANGED <<file, cs, kind, tries, base, next, eof, acks, resume, okGot, rc, told, toS,
                     openS, openR, rpc, hdr, opened, rbuf, cur, ret, partial, meta, store,
                     verified, kept, gap, disturbed>>
  PROVE  IInv'
<1> USE DEF IInv
<1> DEFINE d == [type |-> "done"]
<1>1. d \in Frames /\ d.type = "done" /\ toR \in Seq(Frames)
  BY FramesFact DEF TypeOK
<1> HIDE DEF d
<1>2. /\ toR' \in Seq(Frames) /\ (rpc = "end" => toR' = toR)
      /\ rpc # "end" => /\ Len(toR') = Len(toR) + 1 /\ toR'[Len(toR) + 1] = d /\ toR' # <<>>
                        /\ \A i \in 1 .. Len(toR) : toR'[i] = toR[i]
  BY <1>1, AppendFact DEF d
<1>3. Len(toR) \in Nat /\ (toR = <<>> <=> Len(toR) = 0)
  BY <1>1, EmptyFact
<1>4. \A i \in 1 .. Len(toR') : i \in 1 .. Len(toR) \/ (i = Len(toR) + 1 /\ i = Len(toR') /\ rpc # "end")
  BY <1>2, <1>3
<1>5. rpc # "end" /\ Len(toR) > 0 => toR'[1] = toR[1]
  BY <1>2, <1>3
<1>6. ~ verified /\ \A i \in 1 .. Len(toR) : toR[i].type \in {"header", "chunk"}
  BY DEF ToReceiver
<1>7. rpc # "end" /\ hdr = None => Len(toR) > 0 /\ toR'[1].type = "header"
  BY <1>3, <1>5 DEF ToReceiver
<1>p0. TypeOK'
  BY <1>2 DEF TypeOK
<1>p1. Ends'
  BY DEF Ends, Live
<1>p2. ToReceiver'
  <2>1. CASE rpc = "end"
    BY <2>1, <1>2, <1>6 DEF ToReceiver
  <2>2. CASE rpc # "end"
    <3>1. ASSUME NEW i \in 1 .. Len(toR')
          PROVE  /\ toR'[i].type \in {"header", "chunk", "done"}
                 /\ toR'[i].type = "header" => i = 1 /\ hdr = None /\ toR'[i].file = file /\ toR'[i].cs = cs
                 /\ toR'[i].type = "chunk" => toR'[i].data = ChunkOf(file, cs, toR'[i].seq)
                 /\ toR'[i].type = "done" => i = Len(toR')
                 /\ hdr = None => toR'[1].type = "header"
      <4>1. CASE i \in 1 .. Len(toR)
        BY <2>2, <4>1, <1>2, <1>6, <1>7 DEF ToReceiver
      <4>2. CASE i = Len(toR) + 1 /\ i = Len(toR')
        BY <2>2, <4>2, <1>1, <1>2, <1>7
      <4> QED BY <4>1, <4>2, <1>4
    <3>2. Len(toR') \in Nat
      BY <2>2, <1>2, <1>3
    <3>3. \A i \in 1 .. Len(toR') : toR'[i].type = "done" => \A k \in i + 1 .. Len(toR') : FALSE
      BY <3>1, <3>2
    <3> QED BY <2>2, <3>1, <3>3, <1>6 DEF ToReceiver
  <2> QED BY <2>1, <2>2
<1>p3. ToSender'
  BY DEF ToSender
<1>p4. Free'
  BY DEF Free
<1>p5. Written'
  BY DEF Written
<1>p6. Flow'
  BY DEF Flow
<1>p7. Sound'
  BY DEF Sound
<1>p8. Pending'
  <2> SUFFICES ASSUME rpc # "end", toR' # <<>>, toR'[1].type = "header", NEW i \in 1 .. Len(toR'), toR'[i].type = "chunk"
               PROVE  toR'[i].seq = i - 2
    BY DEF Pending
  <2>1. i \in 1 .. Len(toR)
    BY <1>1, <1>2, <1>4
  <2>2. toR # <<>> /\ toR[1].type = "header" /\ toR'[i] = toR[i]
    BY <2>1, <1>2, <1>3, <1>5
  <2> QED BY <2>1, <2>2 DEF Pending
<1>p9. Receiving'
  <2> SUFFICES ASSUME ~ gap, kind = "disk", rpc # "end", ~ kept, opened \/ rpc = "meta0"
               PROVE  \E n \in Nat :
                        /\ rbuf = Pre(file, cs, n)
                        /\ rpc = "meta" => n = cur + 1
                        /\ \A i \in 1 .. Len(toR') : toR'[i].type = "chunk" => toR'[i].seq = n + i - 1
                        /\ opened /\ meta \notin {None, Torn} => meta.file = file
    BY DEF Receiving
  <2>1. PICK n \in Nat :
             /\ rbuf = Pre(file, cs, n)
             /\ rpc = "meta" => n = cur + 1
             /\ \A i \in 1 .. Len(toR) : toR[i].type = "chunk" => toR[i].seq = n + i - 1
             /\ opened /\ meta \notin {None, Torn} => meta.file = file
    BY DEF Receiving
  <2>2. \A i \in 1 .. Len(toR') : toR'[i].type = "chunk" => toR'[i].seq = n + i - 1
    BY <2>1, <1>1, <1>2, <1>4
  <2> QED BY <2>1, <2>2
<1> QED BY <1>p0, <1>p1, <1>p2, <1>p3, <1>p4, <1>p5, <1>p6, <1>p7, <1>p8, <1>p9

\* What a frame does to the sender's channels.
Applies(m) ==
  \/ m.type = "ack" /\ acks' = Append(acks, m.seq) /\ UNCHANGED <<resume, okGot>>
  \/ m.type = "resume" /\ resume' = (IF resume = None THEN m.seq ELSE resume) /\ UNCHANGED <<acks, okGot>>
  \/ m.type = "ok" /\ okGot' = TRUE /\ UNCHANGED <<acks, resume>>
  \/ m.type \in {"cancelled", "error"} /\ UNCHANGED <<acks, resume, okGot>>

\* OnMessage of the sender: an acknowledgement, a ResumeFrom, TransferOK or a cancellation.
LEMMA MessageTaken ==
  ASSUME IInv, spc # "end", toS # <<>>, toS' = Tail(toS), NEW m, m = toS[1], rc' \in BOOLEAN,
         Applies(m),
         UNCHANGED <<file, cs, kind, tries, spc, base, next, eof, told, toR, openS, openR, rpc,
                     hdr, opened, rbuf, cur, ret, partial, meta, store, verified, kept, gap,
                     disturbed>>
  PROVE  IInv'
<1> USE DEF IInv
<1>1. /\ toS' \in Seq(Frames) /\ Len(toS) \in Nat /\ Len(toS) > 0 /\ Len(toS') = Len(toS) - 1 /\ m \in Frames
      /\ \A i \in 1 .. Len(toS') : i + 1 \in 1 .. Len(toS) /\ toS'[i] = toS[i + 1]
      /\ 1 \in 1 .. Len(toS)
  BY TailFact DEF TypeOK
<1>2. m.type \in {"ack", "resume"} => m.seq \in Nat
  BY <1>1, FrameFields
<1>3. acks \in Seq(Nat) /\ Len(acks) \in Nat
  BY EmptyFact DEF TypeOK
<1>4. /\ acks' = (IF m.type = "ack" THEN Append(acks, m.seq) ELSE acks)
      /\ resume' = (IF m.type = "resume" /\ resume = None THEN m.seq ELSE resume)
      /\ okGot' \in {okGot, TRUE} /\ (okGot' # okGot => m.type = "ok")
  BY DEF Applies
<1>8. m.type = "ack" => /\ acks' \in Seq(Nat) /\ Len(acks') = Len(acks) + 1 /\ acks'[Len(acks) + 1] = m.seq
                        /\ \A i \in 1 .. Len(acks) : acks'[i] = acks[i]
  BY <1>2, <1>3, <1>4, AppendFact
<1>9. \A i \in 1 .. Len(toS') : i + 1 = Len(toS) => i = Len(toS')
  BY LastFact DEF TypeOK
<1>5. hdr = None => m.type = "cancelled" /\ Len(toS) = 1
  BY <1>1 DEF ToSender
<1>6. m.type = "ok" => verified
  BY <1>1 DEF ToSender
<1>7. spc = "start" => hdr = None
  BY DEF ToReceiver
<1>p0. TypeOK'
  <2>1. acks' \in Seq(Nat)
    BY <1>3, <1>8, <1>4
  <2>2. resume' \in Nat \cup {None} /\ okGot' \in BOOLEAN
    BY <1>2, <1>4 DEF TypeOK
  <2> QED BY <2>1, <2>2, <1>1 DEF TypeOK
<1>p1. Ends'
  BY <1>5, <1>6, <1>7, <1>4 DEF Ends, Live
<1>p2. ToReceiver'
  BY DEF ToReceiver
<1>p3. ToSender'
  <2>1. \A i \in 1 .. Len(toS') : /\ toS'[i].type \in {"ack", "resume", "ok", "error", "cancelled"}
                                  /\ toS'[i].type = "ok" => verified
                                  /\ hdr = None => toS'[i].type = "cancelled"
    BY <1>1 DEF ToSender
  <2>2. hdr = None => toS' = <<>> /\ Len(toS') = 0
    BY <1>1, <1>5, EmptyFact
  <2> QED BY <2>1, <2>2, <1>5, <1>4 DEF ToSender
<1>p4. Free'
  BY DEF Free
<1>p5. Written'
  BY DEF Written
<1>p6. Flow'
  <2> SUFFICES ASSUME spc \in {"resume", "loop"}, ret = None PROVE Flow'
    BY DEF Flow
  <2>1. /\ \A i \in 1 .. Len(acks) : acks[i] = base + i - 1
        /\ \A i \in 1 .. Len(toS) :
             i > ResumeAhead => \/ toS[i].type = "ack" /\ toS[i].seq = base + Len(acks) + i - 1 - ResumeAhead
                                \/ rpc = "end" /\ i = Len(toS) /\ toS[i].type = "cancelled"
        /\ rpc # "end" =>
             /\ rpc = "meta" => cur = Received - 1
             /\ \A i \in 1 .. Len(toR) : i > HeaderAhead =>
                  toR[i].type = "chunk" /\ toR[i].seq = Received + i - 1 - HeaderAhead
             /\ next = Received + Len(toR) - HeaderAhead
        /\ rpc = "end" => /\ base + Len(acks) <= next
                          /\ \A i \in 1 .. Len(toS) : toS[i].type = "ack" => toS[i].seq < next
    BY DEF Flow
  <2>2. HeaderAhead' = HeaderAhead /\ base \in Nat /\ next \in Nat
    BY DEF HeaderAhead, TypeOK
  <2>3. ResumeAhead = (IF m.type = "resume" THEN 1 ELSE 0)
    BY DEF ResumeAhead
  <2>4. \A i \in 1 .. Len(toS') : toS'[i].type \in {"ack", "cancelled"}
    <3> TAKE i \in 1 .. Len(toS')
    <3>1. i + 1 \in 1 .. Len(toS) /\ toS'[i] = toS[i + 1] /\ i + 1 > ResumeAhead
      BY <1>1, <2>3
    <3> QED BY <2>1, <3>1
  <2>5. ResumeAhead' = 0
    <3>1. toS' # <<>> => 1 \in 1 .. Len(toS')
      BY <1>1, EmptyFact
    <3> QED BY <2>4, <3>1 DEF ResumeAhead
  <2>6. CASE m.type = "resume"
    <3>1. ResumeAhead = 1 /\ acks' = acks
      BY <2>3, <2>6, <1>4
    <3>2. Received' = Received
      <4>1. Len(toS') - 0 = Len(toS) - 1
        BY <1>1
      <4>2. base + Len(acks) + Len(toS') - 0 = base + Len(acks) + Len(toS) - 1
        BY <1>1, <1>3, <2>2
      <4> QED BY <2>5, <3>1, <4>2 DEF Received
    <3>3. ASSUME NEW i \in 1 .. Len(toS')
          PROVE  \/ toS'[i].type = "ack" /\ toS'[i].seq = base + Len(acks) + i - 1 - 0
                 \/ rpc = "end" /\ i = Len(toS') /\ toS'[i].type = "cancelled"
      <4>1. i + 1 \in 1 .. Len(toS) /\ toS'[i] = toS[i + 1] /\ i + 1 > 1
        BY <1>1
      <4>2. \/ toS[i + 1].type = "ack" /\ toS[i + 1].seq = base + Len(acks) + (i + 1) - 1 - 1
            \/ rpc = "end" /\ i + 1 = Len(toS) /\ toS[i + 1].type = "cancelled"
        BY <2>1, <3>1, <4>1
      <4>3. base + Len(acks) + (i + 1) - 1 - 1 = base + Len(acks) + i - 1 - 0 /\ (i + 1 = Len(toS) => i = Len(toS'))
        <5>1. i \in Int /\ base \in Int /\ Len(acks) \in Int
          BY <1>3, <2>2
        <5>2. i + 1 = Len(toS) => i = Len(toS')
          BY <1>9
        <5> QED BY <5>1, <5>2, ShiftFact
      <4> QED BY <4>1, <4>2, <4>3
    <3>4. rpc = "end" => \A i \in 1 .. Len(toS') : toS'[i].type = "ack" => toS'[i].seq < next
      BY <1>1, <2>1
    <3> QED BY <2>1, <2>2, <2>5, <3>1, <3>2, <3>3, <3>4 DEF Flow
  <2>7. CASE m.type # "resume"
    <3>1. ResumeAhead = 0 /\ 1 > ResumeAhead
      BY <2>3, <2>7
    <3>2. \/ m.type = "ack" /\ m.seq = base + Len(acks)
          \/ rpc = "end" /\ Len(toS) = 1 /\ m.type = "cancelled"
      <4>1. \/ toS[1].type = "ack" /\ toS[1].seq = base + Len(acks) + 1 - 1 - 0
            \/ rpc = "end" /\ 1 = Len(toS) /\ toS[1].type = "cancelled"
        BY <1>1, <2>1, <3>1
      <4> QED BY <4>1, <1>3, <2>2
    <3>3. CASE m.type = "ack"
      <4>1. m.seq = base + Len(acks) /\ acks' \in Seq(Nat) /\ Len(acks') = Len(acks) + 1
        BY <3>2, <3>3, <1>8, <1>4
      <4>2. Received' = Received
        <5>1. base + Len(acks') + Len(toS') - 0 = base + Len(acks) + Len(toS) - 0
          BY <4>1, <1>1, <1>3, <2>2
        <5> QED BY <2>5, <3>1, <5>1 DEF Received
      <4>3. ASSUME NEW i \in 1 .. Len(acks') PROVE acks'[i] = base + i - 1
        <5>1. CASE i \in 1 .. Len(acks)
          BY <5>1, <3>3, <1>8, <2>1
        <5>2. CASE i = Len(acks) + 1
          BY <5>2, <3>3, <4>1, <1>3, <1>8, <2>2
        <5>3. i \in 1 .. Len(acks) \/ i = Len(acks) + 1
          BY <4>1, <1>3
        <5> QED BY <5>1, <5>2, <5>3
      <4>4. ASSUME NEW i \in 1 .. Len(toS')
            PROVE  \/ toS'[i].type = "ack" /\ toS'[i].seq = base + Len(acks') + i - 1 - 0
                   \/ rpc = "end" /\ i = Len(toS') /\ toS'[i].type = "cancelled"
        <5>1. i + 1 \in 1 .. Len(toS) /\ toS'[i] = toS[i + 1] /\ i + 1 > 0
          BY <1>1
        <5>2. \/ toS[i + 1].type = "ack" /\ toS[i + 1].seq = base + Len(acks) + (i + 1) - 1 - 0
              \/ rpc = "end" /\ i + 1 = Len(toS) /\ toS[i + 1].type = "cancelled"
          BY <2>1, <3>1, <5>1
        <5>3. base + Len(acks) + (i + 1) - 1 - 0 = base + Len(acks') + i - 1 - 0 /\ (i + 1 = Len(toS) => i = Len(toS'))
          <6>1. i \in Int /\ base \in Int /\ Len(acks) \in Int
            BY <1>3, <2>2
          <6>2. i + 1 = Len(toS) => i = Len(toS')
            BY <1>9
          <6> QED BY <4>1, <6>1, <6>2, ShiftFact
        <5> QED BY <5>1, <5>2, <5>3
      <4>5. rpc = "end" => /\ base + Len(acks') <= next
                           /\ \A i \in 1 .. Len(toS') : toS'[i].type = "ack" => toS'[i].seq < next
        <5>1. rpc = "end" => m.seq < next
          BY <2>1, <3>3, <1>1
        <5>2. rpc = "end" => base + Len(acks') <= next
          BY <5>1, <4>1, <1>3, <2>2
        <5> QED BY <5>2, <1>1, <2>1
      <4> QED BY <2>1, <2>2, <2>5, <4>2, <4>3, <4>4, <4>5 DEF Flow
    <3>4. CASE m.type # "ack"
      <4>1. rpc = "end" /\ Len(toS') = 0 /\ acks' = acks
        BY <3>2, <3>4, <1>1, <1>4
      <4>2. \A i \in 1 .. Len(toS') : FALSE
        BY <4>1
      <4> QED BY <2>1, <2>2, <2>5, <4>1, <4>2 DEF Flow
    <3> QED BY <3>3, <3>4
  <2> QED BY <2>6, <2>7
<1>p7. Sound'
  BY DEF Sound
<1>p8. Pending'
  BY DEF Pending
<1>p9. Receiving'
  <2> SUFFICES ASSUME ~ gap, kind = "disk", rpc # "end", ~ kept, opened \/ rpc = "meta0"
               PROVE  Receiving'
    BY DEF Receiving
  <2>1. PICK n \in Nat :
             /\ rbuf = Pre(file, cs, n)
             /\ rpc = "meta" => n = cur + 1
             /\ \A i \in 1 .. Len(toR) : toR[i].type = "chunk" => toR[i].seq = n + i - 1
             /\ spc = "loop" => next = n + Len(toR)
             /\ spc = "resume" => /\ n = cur /\ (resume # None => resume = cur)
                                  /\ \A i \in 1 .. Len(toS) : toS[i].type = "resume" => toS[i].seq = cur
             /\ opened /\ meta \notin {None, Torn} => meta.file = file
    BY DEF Receiving
  <2>2. spc = "resume" => /\ resume' # None => resume' = cur
                          /\ \A i \in 1 .. Len(toS') : toS'[i].type = "resume" => toS'[i].seq = cur
    BY <2>1, <1>1, <1>4
  <2> QED BY <2>1, <2>2 DEF Receiving
<1> QED BY <1>p0, <1>p1, <1>p2, <1>p3, <1>p4, <1>p5, <1>p6, <1>p7, <1>p8, <1>p9

\* The sender's end of the channel closes.
LEMMA SenderClosed ==
  ASSUME IInv, openS' \in BOOLEAN, rc' \in BOOLEAN,
         UNCHANGED <<file, cs, kind, tries, spc, base, next, eof, acks, resume, okGot, told,
                     toR, toS, openR, rpc, hdr, opened, rbuf, cur, ret, partial, meta, store,
                     verified, kept, gap, disturbed>>
  PROVE  IInv'
<1> USE DEF IInv
<1>p0. TypeOK'
  BY DEF TypeOK
<1>p1. Ends'
  BY DEF Ends, Live
<1>p2. ToReceiver'
  BY DEF ToReceiver
<1>p3. ToSender'
  BY DEF ToSender
<1>p4. Free'
  BY DEF Free
<1>p5. Written'
  BY DEF Written
<1>p6. Flow'
  BY DEF Flow, Received, ResumeAhead, HeaderAhead
<1>p7. Sound'
  BY DEF Sound
<1>p8. Pending'
  BY DEF Pending
<1>p9. Receiving'
  BY DEF Receiving
<1> QED BY <1>p0, <1>p1, <1>p2, <1>p3, <1>p4, <1>p5, <1>p6, <1>p7, <1>p8, <1>p9

\* The receiver's end of the channel closes.
LEMMA ReceiverClosed ==
  ASSUME IInv, spc = "end", openR' \in BOOLEAN,
         UNCHANGED <<file, cs, kind, tries, spc, base, next, eof, acks, resume, okGot, rc, told,
                     toR, toS, openS, rpc, hdr, opened, rbuf, cur, ret, partial, meta, store,
                     verified, kept, gap, disturbed>>
  PROVE  IInv'
<1> USE DEF IInv
<1>p0. TypeOK'
  BY DEF TypeOK
<1>p1. Ends'
  BY DEF Ends, Live
<1>p2. ToReceiver'
  BY DEF ToReceiver
<1>p3. ToSender'
  BY DEF ToSender
<1>p4. Free'
  BY DEF Free
<1>p5. Written'
  BY DEF Written
<1>p6. Flow'
  BY DEF Flow, Received, ResumeAhead, HeaderAhead
<1>p7. Sound'
  BY DEF Sound
<1>p8. Pending'
  BY DEF Pending
<1>p9. Receiving'
  BY DEF Receiving
<1> QED BY <1>p0, <1>p1, <1>p2, <1>p3, <1>p4, <1>p5, <1>p6, <1>p7, <1>p8, <1>p9

-----------------------------------------------------------------------------
(* The receiver's steps: taking a frame.                                   *)

Takes == rpc = "ready" /\ toR # <<>> /\ toR' = Tail(toR)

\* The frames behind the one taken.
LEMMA TakenFact ==
  ASSUME IInv, Takes
  PROVE  /\ toR' \in Seq(Frames) /\ Len(toR) \in Nat /\ Len(toR') \in Nat /\ Len(toR') = Len(toR) - 1
         /\ toR # <<>> /\ toR[1] \in Frames /\ 1 \in 1 .. Len(toR)
         /\ \A i \in 1 .. Len(toR') : i + 1 \in 1 .. Len(toR) /\ toR'[i] = toR[i + 1] /\ i + 1 # 1
         /\ toR' # <<>> <=> Len(toR') > 0
         /\ file \in Files /\ file # None /\ cs \in ChunkSizes /\ cs \in Nat /\ tries > 0 /\ rpc = "ready"
         /\ spc # "start"
<1>1. toR \in Seq(Frames) /\ toR # <<>> /\ toR' = Tail(toR) /\ rpc = "ready"
  BY DEF IInv, TypeOK, Takes
<1>2. /\ toR' \in Seq(Frames) /\ Len(toR) \in Nat /\ Len(toR) > 0 /\ Len(toR') = Len(toR) - 1
      /\ toR[1] \in Frames
      /\ \A i \in 1 .. Len(toR') : i + 1 \in 1 .. Len(toR) /\ toR'[i] = toR[i + 1]
  BY <1>1, TailFact
<1>3. file \in Files /\ cs \in ChunkSizes /\ tries > 0 /\ spc # "start"
  BY <1>1 DEF IInv, Ends, Live, ToReceiver
<1>4. file # None /\ cs \in Nat
  BY <1>3, NoneAssumption, ChunkSizesAssumption
<1>5. toR' # <<>> <=> Len(toR') > 0
  BY <1>2, EmptyFact
<1>6. Len(toR') \in Nat /\ 1 \in 1 .. Len(toR) /\ \A i \in 1 .. Len(toR') : i + 1 # 1
  BY <1>2, LenProperties
<1> QED BY <1>1, <1>2, <1>3, <1>4, <1>5, <1>6

\* Taking a frame keeps the order of what is on its way.
LEMMA TakenOrder ==
  ASSUME IInv, Takes, UNCHANGED <<file, cs, spc>>,
         hdr' = file \/ (hdr' = hdr /\ toR[1].type # "header"),
         verified' = verified \/ (verified' = TRUE /\ toR[1].type = "done")
  PROVE  ToReceiver' /\ Pending'
<1>1. /\ toR' \in Seq(Frames) /\ Len(toR) \in Nat /\ Len(toR') \in Nat /\ Len(toR') = Len(toR) - 1
      /\ toR # <<>> /\ 1 \in 1 .. Len(toR) /\ (toR' # <<>> <=> Len(toR') > 0)
  BY TakenFact
<1>2. \A i \in 1 .. Len(toR') : i + 1 \in 1 .. Len(toR) /\ toR'[i] = toR[i + 1] /\ i + 1 # 1
  BY TakenFact
<1>3. file \in Files /\ file # None /\ rpc = "ready" /\ spc # "start"
  BY TakenFact
<1>4. hdr' = None => hdr = None /\ toR[1].type # "header"
  BY <1>3
<1>5. \A i \in 1 .. Len(toR') : i + 1 = Len(toR) => i = Len(toR')
  BY LastFact DEF Takes, IInv, TypeOK
<1>6. ASSUME NEW i \in 1 .. Len(toR')
      PROVE  /\ toR'[i].type \in {"chunk", "done", "cancelled"}
             /\ toR'[i].type = "chunk" => /\ spc \in {"loop", "wait", "end"}
                                          /\ toR'[i].data = ChunkOf(file, cs, toR'[i].seq)
             /\ toR'[i].type = "done" => /\ spc \in {"wait", "end"}
                                         /\ \A k \in i + 1 .. Len(toR') : toR'[k].type = "cancelled"
             /\ toR'[i].type = "cancelled" => spc = "end" /\ i = Len(toR')
             /\ hdr' = None => toR'[i].type \notin {"chunk", "done"}
  <2>1. i + 1 \in 1 .. Len(toR) /\ toR'[i] = toR[i + 1] /\ i + 1 # 1
    BY <1>2, <1>6
  <2>2. /\ toR[i + 1].type \in {"chunk", "done", "cancelled"}
        /\ toR[i + 1].type = "chunk" => /\ spc \in {"loop", "wait", "end"}
                                        /\ toR[i + 1].data = ChunkOf(file, cs, toR[i + 1].seq)
        /\ toR[i + 1].type = "done" => /\ spc \in {"wait", "end"}
                                       /\ \A k \in (i + 1) + 1 .. Len(toR) : toR[k].type = "cancelled"
        /\ toR[i + 1].type = "cancelled" => spc = "end" /\ i + 1 = Len(toR)
        /\ toR[i + 1].type \in {"chunk", "done"} /\ hdr = None => toR[1].type = "header"
    BY <2>1 DEF IInv, ToReceiver
  <2>3. ASSUME toR[i + 1].type = "done", NEW k \in i + 1 .. Len(toR')
        PROVE  toR'[k].type = "cancelled"
    <3>1. k \in 1 .. Len(toR') /\ k + 1 \in (i + 1) + 1 .. Len(toR)
      BY <2>3, <1>1
    <3> QED BY <3>1, <2>2, <2>3, <1>2
  <2> QED BY <2>1, <2>2, <2>3, <1>4, <1>5
<1>7. spc \in {"resume", "loop"} => hdr' # None
  BY <1>3, <1>4 DEF IInv, ToReceiver
<1>8. verified' => spc \in {"wait", "end"} /\ \A i \in 1 .. Len(toR') : toR'[i].type = "cancelled"
  <2>1. CASE verified
    BY <2>1, <1>2 DEF IInv, ToReceiver
  <2>2. CASE toR[1].type = "done"
    <3>1. spc \in {"wait", "end"} /\ \A k \in 1 + 1 .. Len(toR) : toR[k].type = "cancelled"
      BY <2>2, <1>1 DEF IInv, ToReceiver
    <3>2. \A i \in 1 .. Len(toR') : i + 1 \in 1 + 1 .. Len(toR)
      BY <1>1
    <3> QED BY <3>1, <3>2, <1>2
  <2> QED BY <2>1, <2>2
<1>9. ToReceiver'
  BY <1>3, <1>6, <1>7, <1>8 DEF ToReceiver
<1>10. toR' # <<>> => toR'[1].type # "header"
  BY <1>1, <1>6
<1> QED BY <1>9, <1>10 DEF Pending

\* What is so when a header arrives, and when a chunk or TransferDone does.
LEMMA HeaderFact ==
  ASSUME IInv, Takes, toR[1].type = "header"
  PROVE  /\ hdr = None /\ ~ opened /\ ~ verified /\ ~ kept /\ resume = None /\ cur = 0 /\ toS = <<>> /\ Len(toS) = 0
         /\ toR[1].file = file /\ toR[1].cs = cs /\ ret # "ok"
<1>1. 1 \in 1 .. Len(toR) /\ rpc = "ready"
  BY TakenFact
<1>2. hdr = None /\ toR[1].file = file /\ toR[1].cs = cs
  BY <1>1 DEF IInv, ToReceiver
<1>3. ~ opened /\ ~ verified /\ resume = None /\ cur = 0 /\ toS = <<>>
  BY <1>1, <1>2 DEF IInv, ToSender
<1>4. ~ kept /\ ret # "ok"
  BY <1>3 DEF IInv, Ends
<1>5. Len(toS) = 0
  BY <1>3, EmptySeq
<1> QED BY <1>2, <1>3, <1>4, <1>5

LEMMA BodyFact ==
  ASSUME IInv, Takes, toR[1].type \in {"chunk", "done"}
  PROVE  /\ hdr = file /\ hdr # None /\ ~ verified /\ ~ kept /\ spc # "resume" /\ ret # "ok"
         /\ toR[1].type = "done" => spc \in {"wait", "end"}
<1>1. 1 \in 1 .. Len(toR) /\ rpc = "ready" /\ file \in Files /\ file # None
  BY TakenFact
<1>2. hdr # None
  BY <1>1 DEF IInv, ToReceiver
<1>3. hdr = file
  BY <1>2 DEF IInv, Ends
<1>4. ~ verified
  BY <1>1 DEF IInv, ToReceiver
<1>5. spc # "resume" /\ (toR[1].type = "done" => spc \in {"wait", "end"})
  BY <1>1 DEF IInv, ToReceiver
<1>6. ~ kept /\ ret # "ok"
  BY <1>4 DEF IInv, Ends
<1> QED BY <1>2, <1>3, <1>4, <1>5, <1>6

\* What is on its way to the sender after a frame m was sent, or was not.
Answers(m) == toS' = toS \/ toS' = Append(toS, m)

LEMMA AnswerFact ==
  ASSUME IInv, NEW m \in Frames, Answers(m)
  PROVE  /\ toS' \in Seq(Frames) /\ Len(toS) \in Nat /\ Len(toS') \in Nat
         /\ \A i \in 1 .. Len(toS') : \/ i \in 1 .. Len(toS) /\ toS'[i] = toS[i]
                                      \/ i = Len(toS) + 1 /\ toS'[i] = m
<1>1. toS \in Seq(Frames) /\ Len(toS) \in Nat
  BY EmptyFact DEF IInv, TypeOK
<1>2. CASE toS' = toS
  BY <1>1, <1>2
<1>3. CASE toS' = Append(toS, m)
  <2>1. /\ toS' \in Seq(Frames) /\ Len(toS') = Len(toS) + 1 /\ toS'[Len(toS) + 1] = m
        /\ \A i \in 1 .. Len(toS) : toS'[i] = toS[i]
    BY <1>1, <1>3, AppendFact
  <2>2. \A i \in 1 .. Len(toS') : i \in 1 .. Len(toS) \/ i = Len(toS) + 1
    BY <1>1, <2>1
  <2> QED BY <1>1, <2>1, <2>2
<1> QED BY <1>2, <1>3 DEF Answers

\* Which keeps ToSender, once the header has arrived.
LEMMA AnswerOrder ==
  ASSUME IInv, NEW m \in Frames, Answers(m), hdr' # None, hdr' = hdr \/ hdr = None, verified => verified',
         m.type \in {"ack", "resume", "ok", "error", "cancelled"}, m.type = "ok" => verified'
  PROVE  ToSender'
<1>1. \A i \in 1 .. Len(toS') : \/ i \in 1 .. Len(toS) /\ toS'[i] = toS[i]
                                \/ i = Len(toS) + 1 /\ toS'[i] = m
  BY AnswerFact
<1>2. \A i \in 1 .. Len(toS') : /\ toS'[i].type \in {"ack", "resume", "ok", "error", "cancelled"}
                                /\ toS'[i].type = "ok" => verified'
  BY <1>1 DEF IInv, ToSender
<1> QED BY <1>2 DEF ToSender

\* Nothing is counted when a header is handled.
LEMMA HeaderFlow ==
  ASSUME IInv, Takes, toR[1].type = "header", NEW m \in Frames, m.type = "resume", Answers(m),
         rpc' \in {"ready", "meta0"}, UNCHANGED <<spc, base, next, acks, ret>>
  PROVE  Flow'
<1> USE DEF IInv
<1> SUFFICES ASSUME spc \in {"resume", "loop"}, ret = None PROVE Flow'
  BY DEF Flow
<1>1. /\ toR' \in Seq(Frames) /\ Len(toR) \in Nat /\ Len(toR') \in Nat /\ Len(toR') = Len(toR) - 1
      /\ \A i \in 1 .. Len(toR') : i + 1 \in 1 .. Len(toR) /\ toR'[i] = toR[i + 1] /\ i + 1 # 1
      /\ 1 \in 1 .. Len(toR) /\ (toR' # <<>> <=> Len(toR') > 0) /\ rpc = "ready" /\ toR # <<>>
  BY TakenFact
<1>2. Len(acks) \in Nat /\ base \in Nat /\ next \in Nat
  BY EmptyFact DEF TypeOK
<1>3. Len(toS) = 0 /\ toS = <<>>
  BY HeaderFact
<1>4. HeaderAhead = 1 /\ ResumeAhead = 0
  BY <1>1, <1>3 DEF HeaderAhead, ResumeAhead
<1>5. Received = base + Len(acks)
  BY <1>1, <1>2, <1>3, <1>4 DEF Received
<1>6. /\ \A i \in 1 .. Len(acks) : acks[i] = base + i - 1
      /\ \A i \in 1 .. Len(toR) : i > 1 => toR[i].type = "chunk" /\ toR[i].seq = Received + i - 1 - 1
      /\ next = Received + Len(toR) - 1
  BY <1>1, <1>4 DEF Flow
<1>7. HeaderAhead' = 0
  <2>1. toR' # <<>> => 1 \in 1 .. Len(toR')
    BY <1>1
  <2>2. \A i \in 1 .. Len(toR') : i + 1 > 1
    BY <1>1
  <2>3. \A i \in 1 .. Len(toR') : toR'[i].type = "chunk"
    BY <1>1, <1>6, <2>2
  <2> QED BY <2>1, <2>3 DEF HeaderAhead
<1>8. Len(toS') = ResumeAhead' /\ ResumeAhead' \in {0, 1}
  <2>1. CASE toS' = toS
    <3>1. toS' = <<>> /\ Len(toS') = 0
      BY <2>1, <1>3
    <3> QED BY <3>1 DEF ResumeAhead
  <2>2. CASE toS' = Append(toS, m)
    <3>1. Len(toS') = 1 /\ toS'[1] = m /\ toS' # <<>>
      <4>1. Len(toS') = Len(toS) + 1 /\ toS'[Len(toS) + 1] = m /\ toS' # <<>>
        <5>1. toS \in Seq(Frames)
          BY DEF TypeOK
        <5> QED BY <2>2, <5>1, AppendFact
      <4> QED BY <4>1, <1>3
    <3> QED BY <3>1 DEF ResumeAhead
  <2> QED BY <2>1, <2>2 DEF Answers
<1>9. Received' = base + Len(acks)
  <2>1. Received' = base + Len(acks) + Len(toS') - ResumeAhead' + 0
    BY DEF Received
  <2> QED BY <2>1, <1>2, <1>8
<1>10. /\ \A i \in 1 .. Len(toS') : ~ i > ResumeAhead'
  BY <1>8
<1>11. \A i \in 1 .. Len(toR') : toR'[i].type = "chunk" /\ toR'[i].seq = Received' + i - 1 - 0
  <2> TAKE i \in 1 .. Len(toR')
  <2>1. i + 1 \in 1 .. Len(toR) /\ toR'[i] = toR[i + 1] /\ i + 1 > 1 /\ i \in Int
    BY <1>1
  <2>2. toR[i + 1].type = "chunk" /\ toR[i + 1].seq = Received + (i + 1) - 1 - 1
    BY <2>1, <1>6
  <2>3. base + Len(acks) + (i + 1) - 1 - 1 = base + Len(acks) + i - 1 - 0
    BY <2>1, <1>2
  <2> QED BY <2>1, <2>2, <2>3, <1>5, <1>9
<1>12. next = Received' + Len(toR') - 0
  <2>1. base + Len(acks) + Len(toR) - 1 = base + Len(acks) + (Len(toR) - 1) - 0
    BY <1>1, <1>2
  <2> QED BY <2>1, <1>1, <1>5, <1>6, <1>9
<1> QED BY <1>6, <1>7, <1>10, <1>11, <1>12 DEF Flow

\* Feed returns an error: the receiver is over, and only waits for Receive to return.
LEMMA FrameFailed ==
  ASSUME IInv, Takes, toR[1].type \in {"header", "chunk", "done"}, hdr' = file, rpc' = "ready", Answers(BuildErrorFrame),
         Deliver("error"), opened' \in BOOLEAN, rbuf' \in Seq(Units), cur' \in Nat, gap' \in BOOLEAN, disturbed' \in BOOLEAN,
         gap => gap', kind = "mem" => rbuf' = rbuf,
         opened' => opened /\ rbuf' = rbuf /\ (gap' \/ kind = "mem" \/ toR[1].type = "done"),
         UNCHANGED <<file, cs, kind, tries, spc, base, next, eof, acks, resume, okGot, rc, told,
                     openS, openR, partial, meta, store, verified, kept>>
  PROVE  IInv'
<1> USE DEF IInv
<1>1. /\ toR' \in Seq(Frames) /\ Len(toR) \in Nat /\ Len(toR') \in Nat /\ Len(toR') = Len(toR) - 1
      /\ \A i \in 1 .. Len(toR') : i + 1 \in 1 .. Len(toR) /\ toR'[i] = toR[i + 1]
      /\ rpc = "ready" /\ file \in Files /\ file # None /\ cs \in ChunkSizes /\ cs \in Nat /\ spc # "start"
  BY TakenFact
<1>2. /\ BuildErrorFrame \in Frames /\ BuildErrorFrame.type = "error"
  BY FramesFact
<1>3. toS' \in Seq(Frames)
  BY <1>2, AnswerFact
<1>4. ret' \in {"ok", "error", "cancelled"} /\ (ret' # "error" => ret' = ret) /\ ret' # None
  BY NoneAssumption DEF Deliver, TypeOK
<1>5. hdr = None \/ hdr = file
  BY DEF Ends
<1>6. ~ verified /\ ~ kept /\ ret # "ok"
  BY HeaderFact, BodyFact
<1> HIDE DEF BuildErrorFrame
<1>p0. TypeOK'
  BY <1>1, <1>3, <1>4 DEF TypeOK, Units
<1>p1. Ends'
  BY <1>1, <1>4, <1>6 DEF Ends, Live
<1>p2. ToReceiver'
  BY TakenOrder
<1>p3. ToSender'
  BY <1>1, <1>2, <1>5, AnswerOrder
<1>p4. Free'
  BY DEF Free
<1>p5. Written'
  BY <1>1 DEF Written
<1>p6. Flow'
  BY <1>4 DEF Flow
<1>p7. Sound'
  BY DEF Sound
<1>p8. Pending'
  BY TakenOrder
<1>p9. Receiving'
  <2> SUFFICES ASSUME ~ gap', kind = "disk", opened'
               PROVE  Receiving'
    BY DEF Receiving
  <2>1. opened /\ rbuf' = rbuf /\ toR[1].type = "done" /\ ~ gap /\ spc \in {"wait", "end"}
    BY BodyFact
  <2>2. PICK n \in Nat : /\ rbuf = Pre(file, cs, n)
                         /\ opened /\ meta \notin {None, Torn} => meta.file = file
    BY <2>1, <1>1, <1>6 DEF Receiving
  <2>3. \A k \in 1 + 1 .. Len(toR) : toR[k].type = "cancelled"
    BY <2>1, TakenFact DEF ToReceiver
  <2>4. \A i \in 1 .. Len(toR') : toR'[i].type = "cancelled"
    <3>1. \A i \in 1 .. Len(toR') : i + 1 \in 1 + 1 .. Len(toR)
      BY <1>1
    <3> QED BY <3>1, <2>3, <1>1
  <2> QED BY <2>1, <2>2, <2>4 DEF Receiving
<1> QED BY <1>p0, <1>p1, <1>p2, <1>p3, <1>p4, <1>p5, <1>p6, <1>p7, <1>p8, <1>p9

\* handleHeader truncates the partial file.
LEMMA FreshStarted ==
  ASSUME IInv, Takes, toR[1].type = "header", kind = "disk", hdr' = file, rpc' = "meta0", partial' = <<>>, rbuf' = <<>>,
         UNCHANGED <<file, cs, kind, tries, spc, base, next, eof, acks, resume, okGot, rc, told,
                     toS, openS, openR, opened, cur, ret, meta, store, verified, kept, gap,
                     disturbed>>
  PROVE  IInv'
<1> USE DEF IInv
<1>1. /\ toR' \in Seq(Frames) /\ Len(toR) \in Nat /\ Len(toR') \in Nat /\ Len(toR') = Len(toR) - 1
      /\ \A i \in 1 .. Len(toR') : i + 1 \in 1 .. Len(toR) /\ toR'[i] = toR[i + 1]
      /\ rpc = "ready" /\ file \in Files /\ file # None /\ cs \in ChunkSizes /\ cs \in Nat /\ spc # "start"
  BY TakenFact
<1>2. /\ hdr = None /\ ~ opened /\ ~ verified /\ ~ kept /\ resume = None /\ cur = 0 /\ toS = <<>> /\ Len(toS) = 0
      /\ ret # "ok"
  BY HeaderFact
<1>3. <<>> \in Seq(Units) /\ Len(<<>>) = 0
  BY EmptySeq
<1>4. BuildResumeFrame(0) \in Frames /\ BuildResumeFrame(0).type = "resume"
  BY FramesFact
<1>p0. TypeOK'
  BY <1>1, <1>3 DEF TypeOK, Units
<1>p1. Ends'
  BY <1>1, <1>2 DEF Ends, Live
<1>p2. ToReceiver'
  BY TakenOrder
<1>p3. ToSender'
  BY <1>1, <1>2 DEF ToSender
<1>p4. Free'
  BY DEF Free
<1>p5. Written'
  BY DEF Written
<1>p6. Flow'
  <2>1. Answers(BuildResumeFrame(0))
    BY DEF Answers
  <2> QED BY <2>1, <1>4, HeaderFlow
<1>p7. Sound'
  <2> SUFFICES ASSUME ~ gap, meta \notin {None, Torn}, Len(<<>>) = meta.bytes
               PROVE  <<>> = SubSeq(Content(meta.file), 1, Len(<<>>))
    BY DEF Sound
  <2>1. meta.file \in Files
    BY DEF TypeOK
  <2> QED BY <2>1, <1>3, ContentFact, EmptyPart
<1>p8. Pending'
  BY TakenOrder
<1>p9. Receiving'
  <2>1. <<>> = Pre(file, cs, 0)
    <3>1. SmallerOf(0 * cs, Size[file]) = 0
      BY <1>1, ContentFact DEF SmallerOf
    <3> QED BY <3>1, <1>1, ContentFact, EmptyPart DEF Pre
  <2>2. /\ \A i \in 1 .. Len(toR) : toR[i].type = "chunk" => toR[i].seq = i - 2
        /\ spc = "loop" => next = Len(toR) - 1
    BY <1>1, TakenFact DEF Pending
  <2>3. \A i \in 1 .. Len(toR') : toR'[i].type = "chunk" => toR'[i].seq = 0 + i - 1
    <3> TAKE i \in 1 .. Len(toR')
    <3>1. i + 1 \in 1 .. Len(toR) /\ toR'[i] = toR[i + 1] /\ (i + 1) - 2 = 0 + i - 1
      BY <1>1
    <3> QED BY <3>1, <2>2
  <2>4. spc = "loop" => next = 0 + Len(toR')
    BY <2>2, <1>1
  <2> QED BY <2>1, <2>3, <2>4, <1>2 DEF Receiving
<1> QED BY <1>p0, <1>p1, <1>p2, <1>p3, <1>p4, <1>p5, <1>p6, <1>p7, <1>p8, <1>p9

\* ReceiveStateMem starts a buffer.
LEMMA MemHeaderTaken ==
  ASSUME IInv, Takes, toR[1].type = "header", kind = "mem", hdr' = file, opened' = TRUE, rbuf' = <<>>,
         UNCHANGED <<file, cs, kind, tries, spc, base, next, eof, acks, resume, okGot, rc, told,
                     toS, openS, openR, rpc, cur, ret, partial, meta, store, verified, kept,
                     gap, disturbed>>
  PROVE  IInv'
<1> USE DEF IInv
<1>1. /\ toR' \in Seq(Frames) /\ Len(toR) \in Nat /\ Len(toR') \in Nat /\ Len(toR') = Len(toR) - 1
      /\ \A i \in 1 .. Len(toR') : i + 1 \in 1 .. Len(toR) /\ toR'[i] = toR[i + 1]
      /\ rpc = "ready" /\ file \in Files /\ file # None /\ cs \in ChunkSizes /\ cs \in Nat /\ spc # "start"
  BY TakenFact
<1>2. /\ hdr = None /\ ~ opened /\ ~ verified /\ ~ kept /\ resume = None /\ cur = 0 /\ toS = <<>> /\ Len(toS) = 0
      /\ ret # "ok"
  BY HeaderFact
<1>3. <<>> \in Seq(Units) /\ Len(<<>>) = 0
  BY EmptySeq
<1>4. BuildResumeFrame(0) \in Frames /\ BuildResumeFrame(0).type = "resume"
  BY FramesFact
<1>p0. TypeOK'
  BY <1>1, <1>3 DEF TypeOK, Units
<1>p1. Ends'
  BY <1>1, <1>2 DEF Ends, Live
<1>p2. ToReceiver'
  BY TakenOrder
<1>p3. ToSender'
  BY <1>1, <1>2 DEF ToSender
<1>p4. Free'
  BY DEF Free
<1>p5. Written'
  BY DEF Written
<1>p6. Flow'
  <2>1. Answers(BuildResumeFrame(0))
    BY DEF Answers
  <2> QED BY <2>1, <1>1, <1>4, HeaderFlow
<1>p7. Sound'
  BY DEF Sound
<1>p8. Pending'
  BY TakenOrder
<1>p9. Receiving'
  BY DEF Receiving
<1> QED BY <1>p0, <1>p1, <1>p2, <1>p3, <1>p4, <1>p5, <1>p6, <1>p7, <1>p8, <1>p9

\* A usable partial: the receiver goes on from it and asks for the next chunk.
LEMMA ResumeAsked ==
  ASSUME IInv, Takes, toR[1].type = "header", kind = "disk", openR, checkPartial(file, cs), hdr' = file,
         rbuf' = SubSeq(partial, 1, meta.bytes), opened' = TRUE, cur' = meta.chunks,
         toS' = IF spc = "end" THEN toS ELSE Append(toS, BuildResumeFrame(meta.chunks)),
         gap' = (gap \/ spc \in {"loop", "wait"} \/ Len(toR) > 1), disturbed' \in BOOLEAN,
         UNCHANGED <<file, cs, kind, tries, spc, base, next, eof, acks, resume, okGot, rc, told,
                     openS, openR, rpc, ret, partial, meta, store, verified, kept>>
  PROVE  IInv'
<1> USE DEF IInv
<1>1. /\ toR' \in Seq(Frames) /\ Len(toR) \in Nat /\ Len(toR') \in Nat /\ Len(toR') = Len(toR) - 1
      /\ \A i \in 1 .. Len(toR') : i + 1 \in 1 .. Len(toR) /\ toR'[i] = toR[i + 1]
      /\ rpc = "ready" /\ file \in Files /\ file # None /\ cs \in ChunkSizes /\ cs \in Nat /\ spc # "start"
  BY TakenFact
<1>2. /\ hdr = None /\ ~ opened /\ ~ verified /\ ~ kept /\ resume = None /\ cur = 0 /\ toS = <<>> /\ Len(toS) = 0
      /\ ret # "ok"
  BY HeaderFact
<1>3. /\ meta \in Metas /\ meta \notin {None, Torn} /\ partial \in Seq(Units) /\ partial # None
      /\ meta.file = file /\ meta.cs = cs /\ Len(partial) = meta.bytes /\ meta.chunks \in Nat /\ meta.chunks # 0
  BY DEF checkPartial, TypeOK, Metas, Units
<1> DEFINE m == BuildResumeFrame(meta.chunks)
<1>4. m \in Frames /\ m.type = "resume" /\ m.seq = meta.chunks
  BY <1>3, FramesFact
<1>5. rbuf' = partial
  BY <1>3, EmptyPart
<1>6. Answers(m)
  BY DEF Answers
<1> HIDE DEF m
<1>7. toS' \in Seq(Frames) /\ \A i \in 1 .. Len(toS') : i \in 1 .. Len(toS) \/ toS'[i] = m
  BY <1>4, <1>6, AnswerFact
<1>8. gap' \in BOOLEAN /\ (gap => gap')
  BY DEF TypeOK
<1>p0. TypeOK'
  BY <1>1, <1>3, <1>5, <1>7, <1>8 DEF TypeOK, Units
<1>p1. Ends'
  BY <1>1, <1>2 DEF Ends, Live
<1>p2. ToReceiver'
  BY TakenOrder
<1>p3. ToSender'
  BY <1>1, <1>2, <1>4, <1>6, AnswerOrder
<1>p4. Free'
  BY DEF Free
<1>p5. Written'
  BY <1>5 DEF Written
<1>p6. Flow'
  BY <1>1, <1>4, <1>6, HeaderFlow
<1>p7. Sound'
  BY <1>8 DEF Sound
<1>p8. Pending'
  BY TakenOrder
<1>p9. Receiving'
  <2> SUFFICES ASSUME ~ gap' PROVE Receiving'
    BY DEF Receiving
  <2>1. ~ gap /\ spc \notin {"loop", "wait"} /\ Len(toR') = 0
    <3>1. ~ gap /\ spc \notin {"loop", "wait"} /\ ~ Len(toR) > 1
      OBVIOUS
    <3> QED BY <3>1, <1>1
  <2>2. /\ meta.bytes = SmallerOf(meta.chunks * meta.cs, Size[meta.file])
        /\ partial = SubSeq(Content(meta.file), 1, Len(partial))
    BY <2>1, <1>3 DEF Sound
  <2>3. rbuf' = Pre(file, cs, meta.chunks)
    BY <2>2, <1>3, <1>5 DEF Pre
  <2>4. \A i \in 1 .. Len(toS') : toS'[i] = m
    BY <1>2, <1>7
  <2>5. \A i \in 1 .. Len(toR') : FALSE
    BY <2>1
  <2> QED BY <2>1, <2>3, <2>4, <2>5, <1>1, <1>2, <1>3, <1>4 DEF Receiving
<1> QED BY <1>p0, <1>p1, <1>p2, <1>p3, <1>p4, <1>p5, <1>p6, <1>p7, <1>p8, <1>p9

\* The meta file of a fresh start: no bytes, no chunks.
LEMMA FirstMetaWritten ==
  ASSUME IInv, rpc = "meta0", rpc' = "ready", meta' = PartialMeta(0), opened' = TRUE,
         UNCHANGED <<file, cs, kind, tries, spc, base, next, eof, acks, resume, okGot, rc, told,
                     toR, toS, openS, openR, hdr, rbuf, cur, ret, partial, store, verified,
                     kept, gap, disturbed>>
  PROVE  IInv'
<1> USE DEF IInv
<1>1. /\ hdr = file /\ file \in Files /\ file # None /\ cs \in ChunkSizes /\ cs \in Nat /\ ~ kept /\ kind = "disk"
      /\ rbuf = <<>> /\ cur = 0 /\ ~ opened
  <2>1. hdr # None /\ ~ kept /\ rbuf = <<>> /\ cur = 0 /\ ~ opened /\ file \in Files /\ cs \in ChunkSizes
    BY DEF Ends, Live
  <2>2. kind = "disk" /\ hdr = file
    BY <2>1 DEF Ends, TypeOK
  <2> QED BY <2>1, <2>2, NoneAssumption, ChunkSizesAssumption
<1>2. Len(rbuf) = 0
  BY <1>1, EmptySeq
<1>3. meta' \in Metas /\ meta'.file = file /\ meta'.cs = cs /\ meta'.bytes = 0 /\ meta'.chunks = 0
  BY <1>1, <1>2 DEF PartialMeta, Metas
<1>p0. TypeOK'
  BY <1>3 DEF TypeOK, Metas
<1>p1. Ends'
  BY <1>1 DEF Ends, Live
<1>p2. ToReceiver'
  BY DEF ToReceiver
<1>p3. ToSender'
  BY <1>1 DEF ToSender
<1>p4. Free'
  BY DEF Free
<1>p5. Written'
  BY <1>1 DEF Written
<1>p6. Flow'
  <2>1. ResumeAhead' = ResumeAhead /\ HeaderAhead' = HeaderAhead
    BY DEF ResumeAhead, HeaderAhead
  <2>2. Received' = Received
    BY <2>1 DEF Received
  <2> QED BY <2>1, <2>2 DEF Flow
<1>p7. Sound'
  <2>1. SmallerOf(0 * cs, Size[file]) = 0
    BY <1>1, ContentFact DEF SmallerOf
  <2> QED BY <2>1, <1>3 DEF Sound
<1>p8. Pending'
  BY DEF Pending
<1>p9. Receiving'
  <2> SUFFICES ASSUME ~ gap PROVE Receiving'
    BY DEF Receiving
  <2>1. PICK n \in Nat :
             /\ rbuf = Pre(file, cs, n)
             /\ \A i \in 1 .. Len(toR) : toR[i].type = "chunk" => toR[i].seq = n + i - 1
             /\ spc = "loop" => next = n + Len(toR)
             /\ spc = "resume" => /\ n = cur /\ (resume # None => resume = cur)
                                  /\ \A i \in 1 .. Len(toS) : toS[i].type = "resume" => toS[i].seq = cur
    BY <1>1 DEF Receiving
  <2> QED BY <2>1, <1>3 DEF Receiving
<1> QED BY <1>p0, <1>p1, <1>p2, <1>p3, <1>p4, <1>p5, <1>p6, <1>p7, <1>p8, <1>p9

\* The meta file of a fresh start cannot be written.
LEMMA FirstMetaFailed ==
  ASSUME IInv, rpc = "meta0", rpc' = "ready", meta' \in {meta, Torn}, Answers(BuildErrorFrame), Deliver("error"),
         disturbed' \in BOOLEAN,
         UNCHANGED <<file, cs, kind, tries, spc, base, next, eof, acks, resume, okGot, rc, told,
                     toR, openS, openR, hdr, opened, rbuf, cur, partial, store, verified, kept,
                     gap>>
  PROVE  IInv'
<1> USE DEF IInv
<1>1. /\ hdr = file /\ file \in Files /\ file # None /\ cs \in ChunkSizes /\ cs \in Nat /\ ~ kept /\ kind = "disk"
      /\ rbuf = <<>> /\ cur = 0 /\ ~ opened
  <2>1. hdr # None /\ ~ kept /\ rbuf = <<>> /\ cur = 0 /\ ~ opened /\ file \in Files /\ cs \in ChunkSizes
    BY DEF Ends, Live
  <2>2. kind = "disk" /\ hdr = file
    BY <2>1 DEF Ends, TypeOK
  <2> QED BY <2>1, <2>2, NoneAssumption, ChunkSizesAssumption
<1>2. Len(rbuf) = 0
  BY <1>1, EmptySeq
<1>3. /\ BuildErrorFrame \in Frames /\ BuildErrorFrame.type = "error"
  BY FramesFact
<1>4. toS' \in Seq(Frames)
  BY <1>3, AnswerFact
<1>5. ret' \in {"ok", "error", "cancelled"} /\ (ret' # "error" => ret' = ret) /\ ret' # None
  BY NoneAssumption DEF Deliver, TypeOK
<1> HIDE DEF BuildErrorFrame
<1>p0. TypeOK'
  BY <1>4, <1>5 DEF TypeOK
<1>p1. Ends'
  BY <1>1, <1>5 DEF Ends, Live
<1>p2. ToReceiver'
  BY DEF ToReceiver
<1>p3. ToSender'
  BY <1>1, <1>3, AnswerOrder
<1>p4. Free'
  BY DEF Free
<1>p5. Written'
  BY <1>1 DEF Written
<1>p6. Flow'
  BY <1>5 DEF Flow
<1>p7. Sound'
  BY DEF Sound
<1>p8. Pending'
  BY DEF Pending
<1>p9. Receiving'
  BY <1>1 DEF Receiving
<1> QED BY <1>p0, <1>p1, <1>p2, <1>p3, <1>p4, <1>p5, <1>p6, <1>p7, <1>p8, <1>p9

\* The chunk that arrives is the next one to be acknowledged.
LEMMA ChunkFlow ==
  ASSUME IInv, Takes, toR[1].type = "chunk", spc = "loop", ret = None
  PROVE  /\ ResumeAhead \in {0, 1} /\ HeaderAhead = 0 /\ HeaderAhead' = 0 /\ Received \in Int
         /\ Received = base + Len(acks) + Len(toS) - ResumeAhead
         /\ toR[1].seq = Received /\ next = (Received + 1) + Len(toR')
         /\ \A i \in 1 .. Len(toR') : toR'[i].type = "chunk" /\ toR'[i].seq = (Received + 1) + i - 1 - 0
         /\ \A i \in 1 .. Len(acks) : acks[i] = base + i - 1
         /\ \A i \in 1 .. Len(toS) : i > ResumeAhead =>
              toS[i].type = "ack" /\ toS[i].seq = base + Len(acks) + i - 1 - ResumeAhead
<1> USE DEF IInv
<1>1. /\ toR' \in Seq(Frames) /\ Len(toR) \in Nat /\ Len(toR') \in Nat /\ Len(toR') = Len(toR) - 1
      /\ \A i \in 1 .. Len(toR') : i + 1 \in 1 .. Len(toR) /\ toR'[i] = toR[i + 1] /\ i + 1 # 1
      /\ 1 \in 1 .. Len(toR) /\ (toR' # <<>> <=> Len(toR') > 0) /\ rpc = "ready" /\ toR # <<>>
  BY TakenFact
<1>2. Len(acks) \in Nat /\ base \in Nat /\ next \in Nat /\ Len(toS) \in Nat
  BY EmptyFact DEF TypeOK
<1>3. HeaderAhead = 0 /\ ResumeAhead \in {0, 1}
  BY <1>1 DEF HeaderAhead, ResumeAhead
<1>4. /\ \A i \in 1 .. Len(acks) : acks[i] = base + i - 1
      /\ \A i \in 1 .. Len(toS) : i > ResumeAhead =>
           toS[i].type = "ack" /\ toS[i].seq = base + Len(acks) + i - 1 - ResumeAhead
      /\ \A i \in 1 .. Len(toR) : i > 0 => toR[i].type = "chunk" /\ toR[i].seq = Received + i - 1 - 0
      /\ next = Received + Len(toR) - 0
  BY <1>1, <1>3 DEF Flow
<1>5. Received = base + Len(acks) + Len(toS) - ResumeAhead /\ Received \in Int
  <2>1. Received = base + Len(acks) + Len(toS) - ResumeAhead + 0
    BY <1>1 DEF Received
  <2> QED BY <2>1, <1>2, <1>3
<1>6. toR[1].seq = Received
  <2>1. toR[1].seq = Received + 1 - 1 - 0
    BY <1>1, <1>4
  <2> QED BY <2>1, <1>5
<1>7. next = (Received + 1) + Len(toR')
  <2>1. Received + Len(toR) - 0 = (Received + 1) + Len(toR')
    BY <1>1, <1>5
  <2> QED BY <2>1, <1>4
<1>8. \A i \in 1 .. Len(toR') : toR'[i].type = "chunk" /\ toR'[i].seq = (Received + 1) + i - 1 - 0
  <2> TAKE i \in 1 .. Len(toR')
  <2>1. i + 1 \in 1 .. Len(toR) /\ toR'[i] = toR[i + 1] /\ i + 1 > 0 /\ i \in Int
    BY <1>1
  <2>2. toR[i + 1].type = "chunk" /\ toR[i + 1].seq = Received + (i + 1) - 1 - 0
    BY <2>1, <1>4
  <2>3. Received + (i + 1) - 1 - 0 = (Received + 1) + i - 1 - 0
    BY <2>1, <1>5
  <2> QED BY <2>1, <2>2, <2>3
<1>9. HeaderAhead' = 0
  <2>1. toR' # <<>> => 1 \in 1 .. Len(toR')
    BY <1>1
  <2> QED BY <2>1, <1>8 DEF HeaderAhead
<1> QED BY <1>3, <1>4, <1>5, <1>6, <1>7, <1>8, <1>9

\* An acknowledgement joins the others.
LEMMA AckJoins ==
  ASSUME IInv, NEW n \in Nat, toS' = Append(toS, BuildAckFrame(n)), ResumeAhead \in {0, 1},
         n = base + Len(acks) + Len(toS) - ResumeAhead, UNCHANGED <<acks, base>>, rpc' # "meta",
         \A i \in 1 .. Len(toS) : i > ResumeAhead =>
           toS[i].type = "ack" /\ toS[i].seq = base + Len(acks) + i - 1 - ResumeAhead
  PROVE  /\ ResumeAhead' = ResumeAhead /\ Received' = n + 1
         /\ \A i \in 1 .. Len(toS') : i > ResumeAhead =>
              toS'[i].type = "ack" /\ toS'[i].seq = base + Len(acks) + i - 1 - ResumeAhead
<1> DEFINE m == BuildAckFrame(n)
<1>1. m \in Frames /\ m.type = "ack" /\ m.seq = n
  BY FramesFact
<1>2. toS \in Seq(Frames) /\ acks \in Seq(Nat) /\ base \in Nat /\ Len(acks) \in Nat
  BY EmptyFact DEF IInv, TypeOK
<1> HIDE DEF m
<1>3. /\ toS' # <<>> /\ Len(toS) \in Nat /\ Len(toS') = Len(toS) + 1 /\ toS'[Len(toS) + 1] = m
      /\ \A i \in 1 .. Len(toS) : toS'[i] = toS[i]
  <2>1. toS' = Append(toS, m)
    BY DEF m
  <2> QED BY <2>1, <1>1, <1>2, AppendFact
<1>4. toS = <<>> <=> Len(toS) = 0
  BY <1>2, EmptyFact
<1>5. ResumeAhead' = ResumeAhead
  <2>1. CASE Len(toS) = 0
    <3>1. toS'[1] = m
      BY <2>1, <1>3
    <3> QED BY <2>1, <3>1, <1>1, <1>4 DEF ResumeAhead
  <2>2. CASE Len(toS) > 0
    <3>1. toS'[1] = toS[1]
      BY <2>2, <1>3
    <3> QED BY <2>2, <3>1, <1>3, <1>4 DEF ResumeAhead
  <2> QED BY <2>1, <2>2, <1>3
<1>6. Received' = n + 1
  <2>1. Received' = base + Len(acks) + Len(toS') - ResumeAhead + 0
    BY <1>5 DEF Received
  <2>2. base + Len(acks) + (Len(toS) + 1) - ResumeAhead + 0 = base + Len(acks) + Len(toS) - ResumeAhead + 1
    BY <1>2, <1>3
  <2> QED BY <2>1, <2>2, <1>3
<1>7. ASSUME NEW i \in 1 .. Len(toS'), i > ResumeAhead
      PROVE  toS'[i].type = "ack" /\ toS'[i].seq = base + Len(acks) + i - 1 - ResumeAhead
  <2>1. CASE i \in 1 .. Len(toS)
    BY <2>1, <1>3, <1>7
  <2>2. CASE i = Len(toS) + 1
    <3>1. base + Len(acks) + (Len(toS) + 1) - 1 - ResumeAhead = base + Len(acks) + Len(toS) - ResumeAhead
      BY <1>2, <1>3
    <3> QED BY <2>2, <3>1, <1>1, <1>3
  <2>3. i \in 1 .. Len(toS) \/ i = Len(toS) + 1
    BY <1>3
  <2> QED BY <2>1, <2>2, <2>3
<1> QED BY <1>5, <1>6, <1>7

\* handleChunk appends a chunk to the partial file.
LEMMA ChunkWritten ==
  ASSUME IInv, Takes, toR[1].type = "chunk", kind = "disk", opened, rpc' = "meta", rbuf' = rbuf \o toR[1].data,
         cur' = toR[1].seq, partial' = partial \o toR[1].data,
         UNCHANGED <<file, cs, kind, tries, spc, base, next, eof, acks, resume, okGot, rc, told,
                     toS, openS, openR, hdr, opened, ret, meta, store, verified, kept, gap,
                     disturbed>>
  PROVE  IInv'
<1> USE DEF IInv
<1>1. /\ toR' \in Seq(Frames) /\ Len(toR) \in Nat /\ Len(toR') \in Nat /\ Len(toR') = Len(toR) - 1
      /\ \A i \in 1 .. Len(toR') : i + 1 \in 1 .. Len(toR) /\ toR'[i] = toR[i + 1]
      /\ rpc = "ready" /\ file \in Files /\ file # None /\ cs \in ChunkSizes /\ cs \in Nat /\ spc # "start"
  BY TakenFact
<1>2. hdr = file /\ hdr # None /\ ~ verified /\ ~ kept /\ spc # "resume" /\ ret # "ok"
  BY BodyFact
<1>3. toR[1].seq \in Nat /\ toR[1].data \in Seq(Units) /\ toR[1].data = ChunkOf(file, cs, toR[1].seq)
  BY TakenFact, FrameFields DEF ToReceiver
<1>4. partial = rbuf /\ partial' = rbuf' /\ rbuf' \in Seq(Units)
  <2>1. partial = rbuf /\ rbuf \in Seq(Units)
    BY <1>2 DEF Written, TypeOK, Units
  <2> QED BY <2>1, <1>3, ConcatProperties
<1>5. ~ gap => \E n \in Nat :
                 /\ rbuf' = Pre(file, cs, n + 1) /\ toR[1].seq = n
                 /\ \A i \in 1 .. Len(toR') : toR'[i].type = "chunk" => toR'[i].seq = (n + 1) + i - 1
                 /\ spc = "loop" => next = (n + 1) + Len(toR')
                 /\ meta \notin {None, Torn} => meta.file = file
  <2> SUFFICES ASSUME ~ gap PROVE \E n \in Nat :
                 /\ rbuf' = Pre(file, cs, n + 1) /\ toR[1].seq = n
                 /\ \A i \in 1 .. Len(toR') : toR'[i].type = "chunk" => toR'[i].seq = (n + 1) + i - 1
                 /\ spc = "loop" => next = (n + 1) + Len(toR')
                 /\ meta \notin {None, Torn} => meta.file = file
    OBVIOUS
  <2>1. PICK n \in Nat :
             /\ rbuf = Pre(file, cs, n)
             /\ \A i \in 1 .. Len(toR) : toR[i].type = "chunk" => toR[i].seq = n + i - 1
             /\ spc = "loop" => next = n + Len(toR)
             /\ meta \notin {None, Torn} => meta.file = file
    BY <1>1, <1>2 DEF Receiving
  <2>2. toR[1].seq = n
    <3>1. toR[1].seq = n + 1 - 1
      BY <2>1, TakenFact
    <3> QED BY <3>1
  <2>3. rbuf' = Pre(file, cs, n + 1)
    <3>1. Pre(file, cs, n) \o ChunkOf(file, cs, n) = Pre(file, cs, n + 1)
      BY <1>1, NextChunk
    <3>2. toR[1].data = ChunkOf(file, cs, n)
      BY <2>2, <1>3
    <3> QED BY <2>1, <3>1, <3>2
  <2>4. \A i \in 1 .. Len(toR') : toR'[i].type = "chunk" => toR'[i].seq = (n + 1) + i - 1
    <3> TAKE i \in 1 .. Len(toR')
    <3>1. i + 1 \in 1 .. Len(toR) /\ toR'[i] = toR[i + 1] /\ n + (i + 1) - 1 = (n + 1) + i - 1
      BY <1>1
    <3> QED BY <2>1, <3>1
  <2>5. n + Len(toR) = (n + 1) + Len(toR')
    BY <1>1
  <2> QED BY <2>1, <2>2, <2>3, <2>4, <2>5
<1>p0. TypeOK'
  BY <1>1, <1>3, <1>4 DEF TypeOK, Units
<1>p1. Ends'
  BY <1>1, <1>2 DEF Ends, Live
<1>p2. ToReceiver'
  BY <1>2, TakenOrder
<1>p3. ToSender'
  BY <1>2 DEF ToSender
<1>p4. Free'
  BY DEF Free
<1>p5. Written'
  BY <1>4 DEF Written
<1>p6. Flow'
  <2> SUFFICES ASSUME spc = "loop", ret = None PROVE Flow'
    BY <1>2 DEF Flow
  <2>1. /\ ResumeAhead \in {0, 1} /\ HeaderAhead' = 0 /\ Received \in Int
        /\ Received = base + Len(acks) + Len(toS) - ResumeAhead
        /\ toR[1].seq = Received /\ next = (Received + 1) + Len(toR')
        /\ \A i \in 1 .. Len(toR') : toR'[i].type = "chunk" /\ toR'[i].seq = (Received + 1) + i - 1 - 0
        /\ \A i \in 1 .. Len(acks) : acks[i] = base + i - 1
        /\ \A i \in 1 .. Len(toS) : i > ResumeAhead =>
             toS[i].type = "ack" /\ toS[i].seq = base + Len(acks) + i - 1 - ResumeAhead
    BY ChunkFlow
  <2>2. ResumeAhead' = ResumeAhead
    BY DEF ResumeAhead
  <2>3. Received' = Received + 1
    <3>1. Received' = base + Len(acks) + Len(toS) - ResumeAhead + 1
      BY <2>2 DEF Received
    <3> QED BY <3>1, <2>1
  <2>4. cur' = Received' - 1 /\ next = Received' + Len(toR') - 0
    <3>1. Received = (Received + 1) - 1 /\ (Received + 1) + Len(toR') = (Received + 1) + Len(toR') - 0
      BY <2>1, <1>1
    <3> QED BY <3>1, <2>1, <2>3
  <2> QED BY <2>1, <2>2, <2>3, <2>4 DEF Flow
<1>p7. Sound'
  <2> SUFFICES ASSUME ~ gap, meta \notin {None, Torn}
               PROVE  partial' = SubSeq(Content(meta.file), 1, Len(partial'))
    BY DEF Sound
  <2>1. PICK n \in Nat : rbuf' = Pre(file, cs, n + 1) /\ meta.file = file
    BY <1>5
  <2>2. Len(partial') = SmallerOf((n + 1) * cs, Size[file])
    <3>1. n + 1 \in Nat
      OBVIOUS
    <3>2. Len(Pre(file, cs, n + 1)) = SmallerOf((n + 1) * cs, Size[file])
      BY <3>1, <1>1, NextChunk
    <3> QED BY <2>1, <3>2, <1>4
  <2> QED BY <2>1, <2>2, <1>4 DEF Pre
<1>p8. Pending'
  BY <1>2, TakenOrder
<1>p9. Receiving'
  <2> SUFFICES ASSUME ~ gap PROVE Receiving'
    BY DEF Receiving
  <2>1. PICK n \in Nat :
                 /\ rbuf' = Pre(file, cs, n + 1) /\ toR[1].seq = n
                 /\ \A i \in 1 .. Len(toR') : toR'[i].type = "chunk" => toR'[i].seq = (n + 1) + i - 1
                 /\ spc = "loop" => next = (n + 1) + Len(toR')
                 /\ meta \notin {None, Torn} => meta.file = file
    BY <1>5
  <2>2. n + 1 \in Nat
    OBVIOUS
  <2> QED BY <2>1, <2>2, <1>2 DEF Receiving
<1> QED BY <1>p0, <1>p1, <1>p2, <1>p3, <1>p4, <1>p5, <1>p6, <1>p7, <1>p8, <1>p9

\* The end of handleChunk and of its counterpart in memory.
Acks(n) ==
  IF openR THEN SendToS(BuildAckFrame(n)) /\ ret' = ret
           ELSE Deliver("cancelled") /\ toS' = toS

\* ReceiveStateMem appends a chunk and acknowledges it.
LEMMA MemChunkTaken ==
  ASSUME IInv, Takes, toR[1].type = "chunk", kind = "mem", rbuf' \in Seq(Units), Acks(toR[1].seq),
         UNCHANGED <<file, cs, kind, tries, spc, base, next, eof, acks, resume, okGot, rc, told,
                     openS, openR, rpc, hdr, opened, cur, partial, meta, store, verified, kept,
                     gap, disturbed>>
  PROVE  IInv'
<1> USE DEF IInv
<1>1. /\ toR' \in Seq(Frames) /\ Len(toR) \in Nat /\ Len(toR') \in Nat /\ Len(toR') = Len(toR) - 1
      /\ \A i \in 1 .. Len(toR') : i + 1 \in 1 .. Len(toR) /\ toR'[i] = toR[i + 1]
      /\ rpc = "ready" /\ file \in Files /\ file # None /\ cs \in ChunkSizes /\ cs \in Nat /\ spc # "start"
  BY TakenFact
<1>2. hdr = file /\ hdr # None /\ ~ verified /\ ~ kept /\ spc # "resume" /\ ret # "ok"
  BY BodyFact
<1>3. toR[1].seq \in Nat /\ toR[1].data \in Seq(Units) /\ toR[1].data = ChunkOf(file, cs, toR[1].seq)
  BY TakenFact, FrameFields DEF ToReceiver
<1>8. /\ spc # "end" /\ ret' = None => ret = None /\ toS' = Append(toS, BuildAckFrame(toR[1].seq))
      /\ ret' \in {None, "ok", "error", "cancelled"}
      /\ ret' # ret => ret' = "cancelled" /\ spc = "end"
      /\ Answers(BuildAckFrame(toR[1].seq))
  BY <1>1, NoneAssumption DEF Acks, Deliver, SendToS, Ends, TypeOK, Answers
<1>9. BuildAckFrame(toR[1].seq) \in Frames /\ BuildAckFrame(toR[1].seq).type = "ack"
  BY <1>3, FramesFact
<1>10. toS' \in Seq(Frames)
  BY <1>8, <1>9, AnswerFact
<1>p0. TypeOK'
  BY <1>1, <1>8, <1>10 DEF TypeOK, Units
<1>p1. Ends'
  BY <1>1, <1>2, <1>8 DEF Ends, Live
<1>p2. ToReceiver'
  BY <1>2, TakenOrder
<1>p3. ToSender'
  BY <1>2, <1>8, <1>9, AnswerOrder
<1>p4. Free'
  BY DEF Free
<1>p5. Written'
  BY DEF Written
<1>p6. Flow'
  <2> SUFFICES ASSUME spc = "loop", ret' = None PROVE Flow'
    BY <1>2 DEF Flow
  <2>1. /\ ResumeAhead \in {0, 1} /\ HeaderAhead' = 0 /\ Received \in Int
        /\ Received = base + Len(acks) + Len(toS) - ResumeAhead
        /\ toR[1].seq = Received /\ next = (Received + 1) + Len(toR')
        /\ \A i \in 1 .. Len(toR') : toR'[i].type = "chunk" /\ toR'[i].seq = (Received + 1) + i - 1 - 0
        /\ \A i \in 1 .. Len(acks) : acks[i] = base + i - 1
        /\ \A i \in 1 .. Len(toS) : i > ResumeAhead =>
             toS[i].type = "ack" /\ toS[i].seq = base + Len(acks) + i - 1 - ResumeAhead
    BY <1>8, ChunkFlow
  <2>2. /\ ResumeAhead' = ResumeAhead /\ Received' = Received + 1
        /\ \A i \in 1 .. Len(toS') : i > ResumeAhead =>
             toS'[i].type = "ack" /\ toS'[i].seq = base + Len(acks) + i - 1 - ResumeAhead
    BY <2>1, <1>1, <1>3, <1>8, AckJoins, SMTT(30)
  <2>3. next = Received' + Len(toR') - 0
    <3>1. (Received + 1) + Len(toR') = (Received + 1) + Len(toR') - 0
      BY <2>1, <1>1
    <3> QED BY <3>1, <2>1, <2>2
  <2> QED BY <2>1, <2>2, <2>3, <1>1 DEF Flow
<1>p7. Sound'
  BY DEF Sound
<1>p8. Pending'
  BY <1>2, TakenOrder
<1>p9. Receiving'
  BY DEF Receiving
<1> QED BY <1>p0, <1>p1, <1>p2, <1>p3, <1>p4, <1>p5, <1>p6, <1>p7, <1>p8, <1>p9

\* The rest of handleChunk: the meta file, perhaps torn or not written, and the acknowledgement.
LEMMA ChunkAcked ==
  ASSUME IInv, rpc = "meta", rpc' = "ready", meta' \in {PartialMeta(cur + 1), meta, Torn}, Acks(cur),
         UNCHANGED <<file, cs, kind, tries, spc, base, next, eof, acks, resume, okGot, rc, told,
                     toR, openS, openR, hdr, opened, rbuf, cur, partial, store, verified, kept,
                     gap, disturbed>>
  PROVE  IInv'
<1> USE DEF IInv
<1>1. /\ hdr = file /\ hdr # None /\ file \in Files /\ cs \in ChunkSizes /\ cs \in Nat /\ ~ kept /\ opened /\ kind = "disk"
      /\ cur \in Nat /\ cur + 1 \in Nat /\ rbuf \in Seq(Units) /\ Len(rbuf) \in Nat
  <2>1. hdr # None /\ ~ kept /\ opened /\ file \in Files /\ cs \in ChunkSizes /\ kind # "mem"
    BY DEF Ends, Live
  <2>2. hdr = file /\ kind = "disk" /\ cur \in Nat /\ rbuf \in Seq(Units)
    BY <2>1 DEF Ends, TypeOK, Units
  <2> QED BY <2>1, <2>2, ChunkSizesAssumption, EmptyFact
<1>2. partial = rbuf
  BY <1>1 DEF Written
<1> DEFINE p == PartialMeta(cur + 1)
<1>3. p \in Metas /\ p.file = file /\ p.cs = cs /\ p.bytes = Len(rbuf) /\ p.chunks = cur + 1
  BY <1>1 DEF PartialMeta, Metas
<1> HIDE DEF p
<1>4. meta' \in {p, meta, Torn}
  BY DEF p
<1>5. ~ gap => rbuf = Pre(file, cs, cur + 1) /\ spc # "resume"
  <2> SUFFICES ASSUME ~ gap PROVE rbuf = Pre(file, cs, cur + 1) /\ spc # "resume"
    OBVIOUS
  <2>1. PICK n \in Nat : rbuf = Pre(file, cs, n) /\ n = cur + 1 /\ (spc = "resume" => n = cur)
    BY <1>1 DEF Receiving
  <2>2. cur + 1 # cur
    BY <1>1
  <2> QED BY <2>1, <2>2
<1>8. /\ spc # "end" /\ ret' = None => ret = None /\ toS' = Append(toS, BuildAckFrame(cur))
      /\ ret' \in {None, "ok", "error", "cancelled"}
      /\ ret' # ret => ret' = "cancelled" /\ spc = "end"
      /\ Answers(BuildAckFrame(cur))
  BY NoneAssumption DEF Acks, Deliver, SendToS, Ends, TypeOK, Answers
<1>9. BuildAckFrame(cur) \in Frames /\ BuildAckFrame(cur).type = "ack"
  BY <1>1, FramesFact
<1>10. toS' \in Seq(Frames)
  BY <1>8, <1>9, AnswerFact
<1>p0. TypeOK'
  BY <1>3, <1>4, <1>8, <1>10 DEF TypeOK, Metas
<1>p1. Ends'
  <2>1. ret' = "ok" => ret = "ok"
    BY <1>8
  <2> QED BY <2>1, <1>1, <1>8 DEF Ends, Live
<1>p2. ToReceiver'
  BY DEF ToReceiver
<1>p3. ToSender'
  BY <1>1, <1>8, <1>9, AnswerOrder
<1>p4. Free'
  BY DEF Free
<1>p5. Written'
  BY <1>1, <1>2 DEF Written
<1>p6. Flow'
  <2> SUFFICES ASSUME spc \in {"resume", "loop"}, ret' = None PROVE Flow'
    BY DEF Flow
  <2>1. ret = None /\ toS' = Append(toS, BuildAckFrame(cur))
    BY <1>8
  <2>2. /\ \A i \in 1 .. Len(acks) : acks[i] = base + i - 1
        /\ \A i \in 1 .. Len(toS) : i > ResumeAhead =>
             toS[i].type = "ack" /\ toS[i].seq = base + Len(acks) + i - 1 - ResumeAhead
        /\ cur = Received - 1
        /\ \A i \in 1 .. Len(toR) : i > HeaderAhead =>
             toR[i].type = "chunk" /\ toR[i].seq = Received + i - 1 - HeaderAhead
        /\ next = Received + Len(toR) - HeaderAhead
    BY <2>1 DEF Flow
  <2>3. HeaderAhead' = HeaderAhead /\ ResumeAhead \in {0, 1}
    BY DEF HeaderAhead, ResumeAhead
  <2>4. Received = base + Len(acks) + Len(toS) - ResumeAhead + 1
    BY DEF Received
  <2>5. Len(acks) \in Nat /\ base \in Nat /\ Len(toS) \in Nat
    BY EmptyFact DEF TypeOK
  <2>6. cur = base + Len(acks) + Len(toS) - ResumeAhead /\ Received = cur + 1
    BY <2>2, <2>3, <2>4, <2>5
  <2>7. /\ ResumeAhead' = ResumeAhead /\ Received' = cur + 1
        /\ \A i \in 1 .. Len(toS') : i > ResumeAhead =>
             toS'[i].type = "ack" /\ toS'[i].seq = base + Len(acks) + i - 1 - ResumeAhead
    BY <2>1, <2>2, <2>3, <2>6, <1>1, AckJoins
  <2> QED BY <2>2, <2>3, <2>6, <2>7 DEF Flow
<1>p7. Sound'
  <2> SUFFICES ASSUME ~ gap, meta' \notin {None, Torn} PROVE Sound'
    BY DEF Sound
  <2>1. CASE meta' = meta
    BY <2>1 DEF Sound
  <2>2. CASE meta' = p
    <3>1. cur + 1 \in Nat /\ rbuf = Pre(file, cs, cur + 1)
      BY <1>1, <1>5
    <3>2. Len(rbuf) = SmallerOf((cur + 1) * cs, Size[file])
      BY <3>1, <1>1, NextChunk
    <3>3. rbuf = SubSeq(Content(file), 1, Len(rbuf))
      BY <3>1, <3>2 DEF Pre
    <3> QED BY <2>2, <3>2, <3>3, <1>2, <1>3 DEF Sound
  <2> QED BY <2>1, <2>2, <1>4
<1>p8. Pending'
  BY DEF Pending
<1>p9. Receiving'
  <2> SUFFICES ASSUME ~ gap PROVE Receiving'
    BY DEF Receiving
  <2>1. PICK n \in Nat :
             /\ rbuf = Pre(file, cs, n)
             /\ \A i \in 1 .. Len(toR) : toR[i].type = "chunk" => toR[i].seq = n + i - 1
             /\ spc = "loop" => next = n + Len(toR)
             /\ meta \notin {None, Torn} => meta.file = file
    BY <1>1 DEF Receiving
  <2>2. meta' \notin {None, Torn} => meta'.file = file
    BY <2>1, <1>3, <1>4
  <2> QED BY <2>1, <2>2, <1>5 DEF Receiving
<1> QED BY <1>p0, <1>p1, <1>p2, <1>p3, <1>p4, <1>p5, <1>p6, <1>p7, <1>p8, <1>p9

\* uniquePath finds the first name that is free, and there is one.
LEMMA NameFact ==
  ASSUME IInv, ~ kept, tries > 0
  PROVE  /\ uniquePath \in Names /\ store[uniquePath] = None
         /\ \A d \in Seq(Units) :
              /\ store' = [store EXCEPT ![uniquePath] = d]
              /\ kept' = TRUE /\ tries' = tries
              => Free' /\ store' \in [Names -> Seq(Units) \cup {None}]
<1>1. PICK u \in 0 .. tries : (\A n \in Names : store[n] # None <=> n < u) /\ u < tries
  BY DEF IInv, Free
<1>2. tries \in 0 .. MaxTries /\ MaxTries \in Nat /\ store \in [Names -> Seq(Units) \cup {None}]
  BY MaxTriesAssumption DEF IInv, TypeOK, Units
<1>3. u \in Names /\ u + 1 \in 0 .. tries /\ u \in Nat
  BY <1>1, <1>2 DEF Names
<1>4. store[u] = None /\ \A m \in 0 .. u - 1 : store[m] # None
  BY <1>1, <1>2, <1>3 DEF Names
<1>5. ASSUME NEW n \in Names, store[n] = None, \A m \in 0 .. n - 1 : store[m] # None
      PROVE  n = u
  <2>1. ~ n < u /\ n \in Nat
    BY <1>1, <1>2, <1>5 DEF Names
  <2>2. ~ u < n
    <3>1. u < n => u \in 0 .. n - 1
      BY <2>1, <1>3
    <3> QED BY <3>1, <1>4, <1>5
  <2> QED BY <2>1, <2>2, <1>3
<1>6. uniquePath = u
  BY <1>3, <1>4, <1>5 DEF uniquePath
<1>7. ASSUME NEW d \in Seq(Units), store' = [store EXCEPT ![u] = d], kept' = TRUE, tries' = tries
      PROVE  Free' /\ store' \in [Names -> Seq(Units) \cup {None}]
  <2>1. d # None
    BY NoneAssumption DEF Units
  <2>2. \A n \in Names : store'[n] = IF n = u THEN d ELSE store[n]
    BY <1>2, <1>7
  <2>3. \A n \in Names : n < u + 1 <=> n < u \/ n = u
    BY <1>2, <1>3 DEF Names
  <2>4. \A n \in Names : store'[n] # None <=> n < u + 1
    BY <2>1, <2>2, <2>3, <1>1
  <2>5. store' \in [Names -> Seq(Units) \cup {None}]
    BY <1>2, <1>7
  <2> QED BY <2>4, <2>5, <1>3, <1>7 DEF Free
<1> QED BY <1>3, <1>4, <1>6, <1>7

\* handleDone renames the verified partial to a free name.
LEMMA FileKept ==
  ASSUME IInv, Takes, toR[1].type = "done", kind = "disk", opened, rbuf = Content(file),
         store' = [store EXCEPT ![uniquePath] = partial], partial' = None, verified' = TRUE, kept' = TRUE, rpc' = "renamed",
         UNCHANGED <<file, cs, kind, tries, spc, base, next, eof, acks, resume, okGot, rc, told,
                     toS, openS, openR, hdr, opened, rbuf, cur, ret, meta, gap, disturbed>>
  PROVE  IInv'
<1> USE DEF IInv
<1>1. /\ toR' \in Seq(Frames) /\ Len(toR) \in Nat /\ Len(toR') \in Nat /\ Len(toR') = Len(toR) - 1
      /\ \A i \in 1 .. Len(toR') : i + 1 \in 1 .. Len(toR) /\ toR'[i] = toR[i + 1]
      /\ rpc = "ready" /\ file \in Files /\ file # None /\ cs \in ChunkSizes /\ cs \in Nat /\ spc # "start"
  BY TakenFact
<1>2. hdr = file /\ hdr # None /\ ~ verified /\ ~ kept /\ spc # "resume" /\ ret # "ok"
  BY BodyFact
<1>3. partial = rbuf /\ partial \in Seq(Units) /\ tries > 0 /\ spc \in {"wait", "end"}
  BY <1>1, <1>2, ContentFact, TakenFact, BodyFact DEF Written
<1>4. Free' /\ store' \in [Names -> Seq(Units) \cup {None}]
  BY <1>2, <1>3, NameFact
<1>p0. TypeOK'
  BY <1>1, <1>4 DEF TypeOK, Units
<1>p1. Ends'
  BY <1>1, <1>2 DEF Ends, Live
<1>p2. ToReceiver'
  BY TakenOrder
<1>p3. ToSender'
  BY <1>2 DEF ToSender
<1>p4. Free'
  BY <1>4
<1>p5. Written'
  BY DEF Written
<1>p6. Flow'
  BY <1>3 DEF Flow
<1>p7. Sound'
  BY DEF Sound
<1>p8. Pending'
  BY TakenOrder
<1>p9. Receiving'
  BY DEF Receiving
<1> QED BY <1>p0, <1>p1, <1>p2, <1>p3, <1>p4, <1>p5, <1>p6, <1>p7, <1>p8, <1>p9

\* The rest of handleDone: TransferOK.
LEMMA OKReported ==
  ASSUME IInv, rpc = "renamed", rpc' = "ready", meta' \in {None, meta}, Answers([type |-> "ok"]), Deliver("ok"),
         UNCHANGED <<file, cs, kind, tries, spc, base, next, eof, acks, resume, okGot, rc, told,
                     toR, openS, openR, hdr, opened, rbuf, cur, partial, store, verified, kept,
                     gap, disturbed>>
  PROVE  IInv'
<1> USE DEF IInv
<1>1. kept /\ verified /\ kind = "disk" /\ spc \in {"wait", "end"}
  <2>1. kept /\ kind # "mem"
    BY DEF Ends
  <2>2. verified
    BY <2>1 DEF Ends
  <2> QED BY <2>1, <2>2 DEF ToReceiver, TypeOK
<1>2. hdr # None
  BY DEF ToSender
<1> DEFINE m == [type |-> "ok"]
<1>3. m \in Frames /\ m.type = "ok"
  BY FramesFact
<1>4. Answers(m)
  BY DEF m
<1> HIDE DEF m
<1>5. toS' \in Seq(Frames)
  BY <1>3, <1>4, AnswerFact
<1>6. ret' \in {"ok", "error", "cancelled"} /\ (ret' # "ok" => ret' = ret) /\ ret' # None
  BY NoneAssumption DEF Deliver, TypeOK
<1>p0. TypeOK'
  BY <1>5, <1>6 DEF TypeOK
<1>p1. Ends'
  BY <1>1, <1>6 DEF Ends, Live
<1>p2. ToReceiver'
  BY DEF ToReceiver
<1>p3. ToSender'
  BY <1>1, <1>2, <1>3, <1>4, AnswerOrder
<1>p4. Free'
  BY DEF Free
<1>p5. Written'
  BY <1>1 DEF Written
<1>p6. Flow'
  BY <1>1 DEF Flow
<1>p7. Sound'
  BY DEF Sound
<1>p8. Pending'
  BY DEF Pending
<1>p9. Receiving'
  BY <1>1 DEF Receiving
<1> QED BY <1>p0, <1>p1, <1>p2, <1>p3, <1>p4, <1>p5, <1>p6, <1>p7, <1>p8, <1>p9

\* The bytes in memory are verified.
LEMMA MemVerified ==
  ASSUME IInv, Takes, toR[1].type = "done", kind = "mem", rbuf = Content(file), verified' = TRUE, Answers([type |-> "ok"]), Deliver("ok"),
         UNCHANGED <<file, cs, kind, tries, spc, base, next, eof, acks, resume, okGot, rc, told,
                     openS, openR, rpc, hdr, opened, rbuf, cur, partial, meta, store, kept, gap,
                     disturbed>>
  PROVE  IInv'
<1> USE DEF IInv
<1>1. /\ toR' \in Seq(Frames) /\ Len(toR) \in Nat /\ Len(toR') \in Nat /\ Len(toR') = Len(toR) - 1
      /\ \A i \in 1 .. Len(toR') : i + 1 \in 1 .. Len(toR) /\ toR'[i] = toR[i + 1]
      /\ rpc = "ready" /\ file \in Files /\ file # None /\ cs \in ChunkSizes /\ cs \in Nat /\ spc # "start"
  BY TakenFact
<1>2. hdr = file /\ hdr # None /\ ~ verified /\ ~ kept /\ spc # "resume" /\ ret # "ok"
  BY BodyFact
<1> DEFINE m == [type |-> "ok"]
<1>3. m \in Frames /\ m.type = "ok"
  BY FramesFact
<1>4. Answers(m)
  BY DEF m
<1> HIDE DEF m
<1>5. toS' \in Seq(Frames)
  BY <1>3, <1>4, AnswerFact
<1>6. ret' \in {"ok", "error", "cancelled"} /\ (ret' # "ok" => ret' = ret) /\ ret' # None
  BY NoneAssumption DEF Deliver, TypeOK
<1>7. spc \in {"wait", "end"}
  BY BodyFact
<1>p0. TypeOK'
  BY <1>1, <1>5, <1>6 DEF TypeOK
<1>p1. Ends'
  BY <1>1, <1>2, <1>6, <1>7 DEF Ends, Live
<1>p2. ToReceiver'
  BY <1>2, TakenOrder
<1>p3. ToSender'
  BY <1>1, <1>2, <1>3, <1>4, AnswerOrder
<1>p4. Free'
  BY DEF Free
<1>p5. Written'
  BY DEF Written
<1>p6. Flow'
  BY <1>7 DEF Flow
<1>p7. Sound'
  BY DEF Sound
<1>p8. Pending'
  BY <1>2, TakenOrder
<1>p9. Receiving'
  BY DEF Receiving
<1> QED BY <1>p0, <1>p1, <1>p2, <1>p3, <1>p4, <1>p5, <1>p6, <1>p7, <1>p8, <1>p9

\* The sender has cancelled: nothing more is on its way.
LEMMA CancelledTaken ==
  ASSUME IInv, Takes, toR[1].type = "cancelled", Deliver("cancelled"),
         UNCHANGED <<file, cs, kind, tries, spc, base, next, eof, acks, resume, okGot, rc, told,
                     toS, openS, openR, rpc, hdr, opened, rbuf, cur, partial, meta, store,
                     verified, kept, gap, disturbed>>
  PROVE  IInv'
<1> USE DEF IInv
<1>1. /\ toR' \in Seq(Frames) /\ Len(toR) \in Nat /\ Len(toR') \in Nat /\ Len(toR') = Len(toR) - 1
      /\ 1 \in 1 .. Len(toR) /\ rpc = "ready"
  BY TakenFact
<1>2. spc = "end" /\ Len(toR') = 0
  <2>1. spc = "end" /\ 1 = Len(toR)
    BY <1>1 DEF ToReceiver
  <2> QED BY <2>1, <1>1
<1>3. ret' \in {"ok", "error", "cancelled"} /\ (ret' # "cancelled" => ret' = ret)
  BY NoneAssumption DEF Deliver, TypeOK
<1>4. \A i \in 1 .. Len(toR') : FALSE
  BY <1>2
<1>p0. TypeOK'
  BY <1>1, <1>3 DEF TypeOK
<1>p1. Ends'
  BY <1>2, <1>3 DEF Ends, Live
<1>p2. ToReceiver'
  BY TakenOrder
<1>p3. ToSender'
  BY DEF ToSender
<1>p4. Free'
  BY DEF Free
<1>p5. Written'
  BY DEF Written
<1>p6. Flow'
  BY <1>2 DEF Flow
<1>p7. Sound'
  BY DEF Sound
<1>p8. Pending'
  BY TakenOrder
<1>p9. Receiving'
  <2> SUFFICES ASSUME ~ gap, kind = "disk", ~ kept, opened PROVE Receiving'
    BY <1>1 DEF Receiving
  <2>1. PICK n \in Nat : /\ rbuf = Pre(file, cs, n)
                         /\ meta \notin {None, Torn} => meta.file = file
    BY <1>1 DEF Receiving
  <2> QED BY <2>1, <1>1, <1>2, <1>4 DEF Receiving
<1> QED BY <1>p0, <1>p1, <1>p2, <1>p3, <1>p4, <1>p5, <1>p6, <1>p7, <1>p8, <1>p9

\* Receive returns or dies: its last frames may be lost, its meta file may be torn.
LEMMA ReceiverStops ==
  ASSUME IInv, rpc # "end", rpc' = "end", NEW q \in {toS, Append(toS, BuildCancelledFrame)}, toS' \in PrefixesOf(q),
         meta' \in {meta, Torn}, disturbed' \in BOOLEAN, kept' \in BOOLEAN, kept => kept', kept' => verified,
         Free', store' \in [Names -> Seq(Units) \cup {None}], openR' \in BOOLEAN,
         UNCHANGED <<file, cs, kind, tries, spc, base, next, eof, acks, resume, okGot, rc, told,
                     toR, openS, hdr, opened, rbuf, cur, ret, partial, verified, gap>>
  PROVE  IInv'
<1> USE DEF IInv
<1>1. toS \in Seq(Frames) /\ BuildCancelledFrame \in Frames /\ BuildCancelledFrame.type = "cancelled"
  BY FramesFact DEF TypeOK
<1>2. /\ q \in Seq(Frames) /\ Len(toS) \in Nat /\ Len(q) \in Nat /\ Len(q) <= Len(toS) + 1
      /\ \A i \in 1 .. Len(toS) : q[i] = toS[i]
      /\ Len(q) > Len(toS) => q[Len(toS) + 1].type = "cancelled"
  BY <1>1, AppendFact, EmptyFact
<1>3. /\ toS' \in Seq(Frames) /\ Len(toS') \in Nat /\ Len(toS') <= Len(q)
      /\ \A i \in 1 .. Len(toS') : i \in 1 .. Len(q) /\ toS'[i] = q[i]
  BY <1>2, PrefixFact
<1>4. \A i \in 1 .. Len(toS') : \/ i \in 1 .. Len(toS) /\ toS'[i] = toS[i]
                                \/ i = Len(toS) + 1 /\ i = Len(toS') /\ toS'[i].type = "cancelled"
  BY <1>2, <1>3
<1>5. (toS' # <<>> => Len(toS') > 0) /\ (toS # <<>> <=> Len(toS) > 0)
  BY <1>1, <1>3, EmptyFact
<1>p0. TypeOK'
  BY <1>3 DEF TypeOK, Units
<1>p1. Ends'
  BY DEF Ends, Live
<1>p2. ToReceiver'
  BY DEF ToReceiver
<1>p3. ToSender'
  <2>1. hdr = None => toS = <<>> /\ Len(toS) = 0
    BY <1>2, <1>5 DEF ToSender
  <2>2. hdr = None => Len(toS') <= 1
    BY <2>1, <1>2, <1>3
  <2>3. \A i \in 1 .. Len(toS') : /\ toS'[i].type \in {"ack", "resume", "ok", "error", "cancelled"}
                                  /\ toS'[i].type = "ok" => verified
                                  /\ hdr = None => toS'[i].type = "cancelled"
    BY <1>4 DEF ToSender
  <2> QED BY <2>2, <2>3 DEF ToSender
<1>p4. Free'
  OBVIOUS
<1>p5. Written'
  BY DEF Written
<1>p6. Flow'
  <2> SUFFICES ASSUME spc \in {"resume", "loop"}, ret = None PROVE Flow'
    BY DEF Flow
  <2>1. Len(acks) \in Nat /\ base \in Nat /\ next \in Nat /\ Len(toR) \in Nat /\ (toR # <<>> => Len(toR) > 0)
    BY EmptyFact DEF TypeOK
  <2>2. /\ \A i \in 1 .. Len(acks) : acks[i] = base + i - 1
        /\ \A i \in 1 .. Len(toS) : i > ResumeAhead =>
             toS[i].type = "ack" /\ toS[i].seq = base + Len(acks) + i - 1 - ResumeAhead
        /\ next = Received + Len(toR) - HeaderAhead
    BY DEF Flow
  <2>3. /\ ResumeAhead \in {0, 1} /\ ResumeAhead <= Len(toS) /\ HeaderAhead \in {0, 1} /\ HeaderAhead <= Len(toR)
        /\ ResumeAhead = 1 => toS[1].type = "resume"
    BY <2>1, <1>2, <1>5 DEF ResumeAhead, HeaderAhead
  <2>4. PICK w \in {0, 1} : Received = base + Len(acks) + Len(toS) - ResumeAhead + w
    BY DEF Received
  <2>5. base + Len(acks) + Len(toS) - ResumeAhead <= next
    BY <2>1, <2>2, <2>3, <2>4, <1>2
  <2>6. base + Len(acks) <= next
    BY <2>1, <2>3, <2>5, <1>2
  <2>7. \A i \in 1 .. Len(toS) : toS[i].type = "ack" => toS[i].seq < next
    <3> SUFFICES ASSUME NEW i \in 1 .. Len(toS), toS[i].type = "ack" PROVE toS[i].seq < next
      OBVIOUS
    <3>1. i > ResumeAhead
      BY <2>3, <1>2
    <3>2. toS[i].seq = base + Len(acks) + i - 1 - ResumeAhead
      BY <2>2, <3>1
    <3> QED BY <3>2, <2>1, <2>3, <2>5, <1>2
  <2>8. \A i \in 1 .. Len(toS') : toS'[i].type = "ack" => toS'[i].seq < next
    BY <2>7, <1>4
  <2>9. toS' # <<>> => ResumeAhead' = ResumeAhead
    <3> SUFFICES ASSUME toS' # <<>> PROVE ResumeAhead' = ResumeAhead
      OBVIOUS
    <3>1. 1 \in 1 .. Len(toS')
      BY <1>3, <1>5
    <3>2. CASE 1 \in 1 .. Len(toS) /\ toS'[1] = toS[1]
      BY <3>2, <1>2, <1>5 DEF ResumeAhead
    <3>3. CASE 1 = Len(toS) + 1 /\ toS'[1].type = "cancelled"
      <4>1. toS = <<>>
        BY <3>3, <1>2, <1>5
      <4> QED BY <3>3, <4>1 DEF ResumeAhead
    <3> QED BY <3>1, <3>2, <3>3, <1>4
  <2>10. ASSUME NEW i \in 1 .. Len(toS'), i > ResumeAhead'
         PROVE  \/ toS'[i].type = "ack" /\ toS'[i].seq = base + Len(acks) + i - 1 - ResumeAhead'
                \/ i = Len(toS') /\ toS'[i].type = "cancelled"
    <3>1. ResumeAhead' = ResumeAhead
      <4>1. toS' # <<>>
        BY <1>3, <2>10, EmptyFact
      <4> QED BY <4>1, <2>9
    <3> QED BY <3>1, <2>2, <2>10, <1>4
  <2> QED BY <2>2, <2>6, <2>8, <2>10 DEF Flow
<1>p7. Sound'
  BY DEF Sound
<1>p8. Pending'
  BY DEF Pending
<1>p9. Receiving'
  BY DEF Receiving
<1> QED BY <1>p0, <1>p1, <1>p2, <1>p3, <1>p4, <1>p5, <1>p6, <1>p7, <1>p8, <1>p9

-----------------------------------------------------------------------------
(* The actions.                                                            *)

\* Every step of the sender keeps the invariant.
LEMMA SenderKeeps ==
  ASSUME IInv, SenderNext \/ CallbackNext \/ senderCancel
  PROVE  IInv'
<1> USE DEF attemptVars, senderVars, recvVars, diskVars, ghostVars
<1>1. told \in BOOLEAN /\ disturbed \in BOOLEAN /\ rc \in BOOLEAN /\ gap \in BOOLEAN /\ toR \in {toR, Append(toR, BuildCancelledFrame)}
  BY DEF IInv, TypeOK
<1>2. ASSUME SenderEnds, spc # "end", told' \in BOOLEAN, UNCHANGED <<attemptVars, recvVars, diskVars, ghostVars>>
      PROVE  IInv'
  BY <1>1, <1>2, SenderStops DEF SenderEnds
<1>3. CASE sendHeader
  <2>1. CASE openS
    BY <1>3, <2>1, HeaderSent DEF sendHeader, SendToR
  <2>2. CASE ~ openS
    BY <1>1, <1>2, <1>3, <2>2 DEF sendHeader
  <2> QED BY <2>1, <2>2
<1>4. CASE awaitResume
  BY <1>1, <1>4, ResumeAwaited DEF awaitResume
<1>5. CASE sendChunk
  <2> DEFINE data == ChunkOf(file, cs, next)
  <2> HIDE DEF data
  <2>1. CASE data = <<>>
    BY <1>5, <2>1, AtEOF DEF sendChunk, data
  <2>2. CASE data # <<>> /\ openS
    BY <1>5, <2>2, ChunkSent DEF sendChunk, data, SendToR
  <2>3. CASE data # <<>> /\ ~ openS
    BY <1>1, <1>2, <1>5, <2>3 DEF sendChunk, data
  <2> QED BY <2>1, <2>2, <2>3
<1>6. CASE recvAck
  <2>1. CASE Head(acks) = base
    BY <1>6, <2>1, AckTaken DEF recvAck
  <2>2. CASE Head(acks) # base
    BY <1>1, <1>2, <1>6, <2>2 DEF recvAck
  <2> QED BY <2>1, <2>2
<1>7. CASE remoteCancelled
  BY <1>1, <1>2, <1>7 DEF remoteCancelled
<1>8. CASE sendDone
  <2>1. CASE openS
    BY <1>8, <2>1, DoneSent DEF sendDone, SendToR
  <2>2. CASE ~ openS
    BY <1>1, <1>2, <1>8, <2>2 DEF sendDone
  <2> QED BY <2>1, <2>2
<1>9. CASE awaitOK
  BY <1>2, <1>9 DEF awaitOK
<1>10. CASE senderOnMessage
  <2> DEFINE m == toS[1]
  <2>1. Head(toS) = m
    BY <1>10, TailFact DEF senderOnMessage, IInv, TypeOK
  <2> HIDE DEF m
  <2>2. Applies(m)
    BY <1>10, <2>1 DEF senderOnMessage, Applies
  <2>3. rc' \in BOOLEAN
    BY <1>1, <1>10 DEF senderOnMessage
  <2> QED BY <1>10, <2>2, <2>3, MessageTaken DEF senderOnMessage, m
<1>11. CASE senderOnClose
  BY <1>1, <1>11, SenderClosed DEF senderOnClose, closeSignals, IInv, TypeOK
<1>12. CASE senderCancel
  BY <1>1, <1>12, SenderStops DEF senderCancel
<1> QED BY <1>3, <1>4, <1>5, <1>6, <1>7, <1>8, <1>9, <1>10, <1>11, <1>12 DEF SenderNext, CallbackNext

\* A handler that fails answers with an error frame.
LEMMA FailFact ==
  ASSUME Fail
  PROVE  rpc' = "ready" /\ Answers(BuildErrorFrame) /\ Deliver("error")
BY DEF Fail, SendToS, Answers

LEMMA ReceivesFact ==
  ASSUME IInv, NEW type, receives(type)
  PROVE  Takes /\ toR[1].type = type /\ Head(toR) = toR[1] /\ rpc = "ready" /\ toR[1] \in Frames
<1>1. toR \in Seq(Frames) /\ toR # <<>> /\ Head(toR).type = type /\ Takes /\ rpc = "ready"
  BY DEF receives, Takes, IInv, TypeOK
<1>2. Head(toR) = toR[1] /\ toR[1] \in Frames
  BY <1>1, TailFact
<1> QED BY <1>1, <1>2

\* Every step of the receiver keeps the invariant.
LEMMA HandlerKeeps ==
  ASSUME IInv, HandlerNext
  PROVE  IInv'
<1> USE DEF attemptVars, senderVars, recvVars, diskVars, ghostVars
<1>1. /\ disturbed \in BOOLEAN /\ gap \in BOOLEAN /\ opened \in BOOLEAN /\ rbuf \in Seq(Units) /\ cur \in Nat
      /\ <<>> \in Seq(Units)
  BY EmptySeq DEF IInv, TypeOK, Units
<1>2. CASE resumePartial
  <2>1. Takes /\ toR[1].type = "header" /\ Head(toR) = toR[1]
    BY <1>2, ReceivesFact DEF resumePartial
  <2>2. toR[1].file = file /\ toR[1].cs = cs /\ ~ opened
    BY <2>1, HeaderFact
  <2>3. checkPartial(file, cs) /\ kind = "disk" /\ hdr' = file /\ disturbed' \in BOOLEAN
    BY <1>1, <1>2, <2>1, <2>2 DEF resumePartial
  <2>4. CASE openR
    BY <1>2, <2>1, <2>3, <2>4, ResumeAsked DEF resumePartial, replayHash, SendToS
  <2>5. CASE ~ openR
    <3>1. /\ meta \in Metas /\ partial \in Seq(Units) /\ Len(partial) = meta.bytes /\ meta.chunks \in Nat
      BY <2>3 DEF checkPartial, IInv, TypeOK, Metas, Units
    <3>2. rbuf' = partial
      BY <1>2, <3>1, EmptyPart DEF resumePartial, replayHash
    <3>3. /\ opened' = FALSE /\ cur' = meta.chunks /\ Fail /\ gap' \in BOOLEAN /\ (gap => gap')
          /\ UNCHANGED <<openS, openR, attemptVars, senderVars, diskVars, verified, kept>>
      BY <1>1, <1>2, <2>5 DEF resumePartial
    <3> QED BY <2>1, <2>3, <3>1, <3>2, <3>3, FailFact, FrameFailed
  <2> QED BY <2>4, <2>5
<1>3. CASE freshStart
  <2>1. Takes /\ toR[1].type = "header" /\ Head(toR) = toR[1]
    BY <1>3, ReceivesFact DEF freshStart
  <2>2. toR[1].file = file /\ ~ opened
    BY <2>1, HeaderFact
  <2>3. kind = "disk" /\ hdr' = file /\ rbuf' = <<>> /\ opened' = opened
    BY <1>3, <2>1, <2>2 DEF freshStart
  <2>4. CASE partial' = <<>> /\ rpc' = "meta0" /\ UNCHANGED <<toS, ret, disturbed>>
    BY <1>3, <2>1, <2>3, <2>4, FreshStarted DEF freshStart
  <2>5. CASE Fail /\ disturbed' = TRUE /\ UNCHANGED partial
    <3>1. UNCHANGED <<cur, meta, store, openS, openR, attemptVars, senderVars, verified, kept, gap>>
      BY <1>3 DEF freshStart
    <3> QED BY <1>1, <2>1, <2>2, <2>3, <2>5, <3>1, FailFact, FrameFailed
  <2> QED BY <1>3, <2>4, <2>5 DEF freshStart
<1>4. CASE writeFirstMeta
  <2>1. CASE meta' = PartialMeta(0) /\ rpc' = "ready" /\ opened' = TRUE /\ UNCHANGED <<toS, ret, disturbed>>
    BY <1>4, <2>1, FirstMetaWritten DEF writeFirstMeta
  <2>2. CASE meta' \in {meta, Torn} /\ Fail /\ disturbed' = TRUE /\ UNCHANGED opened
    BY <1>4, <2>2, FailFact, FirstMetaFailed DEF writeFirstMeta
  <2> QED BY <1>4, <2>1, <2>2 DEF writeFirstMeta
<1>5. CASE handleChunk
  <2>1. Takes /\ toR[1].type = "chunk" /\ Head(toR) = toR[1] /\ kind = "disk"
    BY <1>5, ReceivesFact DEF handleChunk
  <2>2. hdr = file
    BY <2>1, BodyFact
  <2>3. UNCHANGED <<hdr, meta, store, openS, openR, attemptVars, senderVars, verified, kept>>
    BY <1>5 DEF handleChunk
  <2>4. CASE opened' = FALSE /\ Fail /\ UNCHANGED <<rbuf, cur, partial, gap, disturbed>>
    BY <1>1, <2>1, <2>2, <2>3, <2>4, FailFact, FrameFailed
  <2>5. CASE /\ opened /\ rbuf' = rbuf \o toR[1].data /\ cur' = toR[1].seq /\ partial' = partial \o toR[1].data
             /\ rpc' = "meta" /\ UNCHANGED <<opened, toS, ret, gap, disturbed>>
    BY <2>1, <2>3, <2>5, ChunkWritten
  <2>6. CASE /\ opened /\ Fail /\ gap' = TRUE /\ disturbed' = TRUE
             /\ UNCHANGED <<opened, rbuf, cur, partial>>
    BY <1>1, <2>1, <2>2, <2>3, <2>6, FailFact, FrameFailed
  <2> QED BY <1>5, <2>1, <2>4, <2>5, <2>6 DEF handleChunk
<1>6. CASE ackChunk
  <2>1. meta' \in {PartialMeta(cur + 1), meta, Torn} /\ Acks(cur)
    BY <1>6 DEF ackChunk, Acks
  <2> QED BY <1>6, <2>1, ChunkAcked DEF ackChunk
<1>7. CASE handleDone
  <2>1. Takes /\ toR[1].type = "done" /\ kind = "disk"
    BY <1>7, ReceivesFact DEF handleDone
  <2>2. hdr = file
    BY <2>1, BodyFact
  <2>3. UNCHANGED <<hdr, opened, rbuf, cur, meta, openS, openR, attemptVars, senderVars, gap>>
    BY <1>7 DEF handleDone
  <2>4. CASE Fail /\ disturbed' \in BOOLEAN /\ UNCHANGED <<partial, store, verified, kept>>
    BY <1>1, <2>1, <2>2, <2>3, <2>4, FailFact, FrameFailed
  <2>5. CASE /\ opened /\ rbuf = Content(hdr) /\ store' = [store EXCEPT ![uniquePath] = partial]
             /\ partial' = None /\ verified' = TRUE /\ kept' = TRUE /\ rpc' = "renamed"
             /\ UNCHANGED <<toS, ret, disturbed>>
    BY <2>1, <2>2, <2>3, <2>5, FileKept
  <2> QED BY <1>1, <1>7, <2>4, <2>5 DEF handleDone
<1>8. CASE reportOK
  <2>1. Answers([type |-> "ok"]) /\ Deliver("ok") /\ meta' \in {None, meta}
    BY <1>8 DEF reportOK, SendToS, Answers
  <2> QED BY <1>8, <2>1, OKReported DEF reportOK
<1>9. CASE memHeader
  <2>1. Takes /\ toR[1].type = "header" /\ Head(toR) = toR[1] /\ kind = "mem"
    BY <1>9, ReceivesFact DEF memHeader
  <2>2. toR[1].file = file
    BY <2>1, HeaderFact
  <2> QED BY <1>9, <2>1, <2>2, MemHeaderTaken DEF memHeader, memUnchanged
<1>10. CASE memChunk
  <2>1. Takes /\ toR[1].type = "chunk" /\ Head(toR) = toR[1] /\ kind = "mem" /\ toR[1] \in Frames
    BY <1>10, ReceivesFact DEF memChunk
  <2>2. hdr = file
    BY <2>1, BodyFact
  <2>3. UNCHANGED <<hdr, opened, verified, cur, openS, openR, attemptVars, senderVars, diskVars, kept, gap, disturbed>>
    BY <1>10 DEF memChunk, memUnchanged
  <2>4. CASE Fail /\ UNCHANGED rbuf
    BY <1>1, <2>1, <2>2, <2>3, <2>4, FailFact, FrameFailed
  <2>5. CASE rbuf' = rbuf \o toR[1].data /\ Acks(toR[1].seq) /\ UNCHANGED rpc
    <3>1. toR[1].data \in Seq(Units)
      BY <2>1, FrameFields
    <3>2. rbuf' \in Seq(Units)
      BY <1>1, <2>5, <3>1, ConcatProperties
    <3> QED BY <2>1, <2>3, <2>5, <3>2, MemChunkTaken
  <2> QED BY <1>10, <2>1, <2>4, <2>5 DEF memChunk, Acks
<1>11. CASE memDone
  <2>1. Takes /\ toR[1].type = "done" /\ kind = "mem"
    BY <1>11, ReceivesFact DEF memDone
  <2>2. hdr = file
    BY <2>1, BodyFact
  <2>3. UNCHANGED <<hdr, opened, rbuf, cur, openS, openR, attemptVars, senderVars, diskVars, kept, gap, disturbed>>
    BY <1>11 DEF memDone, memUnchanged
  <2>4. CASE opened /\ rbuf = Content(hdr)
    <3>1. verified' = TRUE /\ Answers([type |-> "ok"]) /\ Deliver("ok") /\ UNCHANGED rpc
      BY <1>11, <2>4 DEF memDone, SendToS, Answers
    <3> QED BY <2>1, <2>2, <2>3, <2>4, <3>1, MemVerified
  <2>5. CASE ~ (opened /\ rbuf = Content(hdr))
    <3>1. Fail /\ UNCHANGED verified
      BY <1>11, <2>5 DEF memDone
    <3> QED BY <1>1, <2>1, <2>2, <2>3, <3>1, FailFact, FrameFailed
  <2> QED BY <2>4, <2>5
<1>12. CASE handleCancelled
  <2>1. Takes /\ toR[1].type = "cancelled"
    BY <1>12, ReceivesFact DEF handleCancelled
  <2> QED BY <1>12, <2>1, CancelledTaken DEF handleCancelled
<1> QED BY <1>2, <1>3, <1>4, <1>5, <1>6, <1>7, <1>8, <1>9, <1>10, <1>11, <1>12 DEF HandlerNext

\* And so does the receiver's end.
LEMMA ReceiverKeeps ==
  ASSUME IInv, ReceiverNext \/ receiverCancel \/ receiverCrash
  PROVE  IInv'
<1> USE DEF attemptVars, senderVars, recvVars, diskVars, ghostVars
<1>1. /\ disturbed \in BOOLEAN /\ kept \in BOOLEAN /\ toS \in {toS, Append(toS, BuildCancelledFrame)}
      /\ store \in [Names -> Seq(Units) \cup {None}]
  BY DEF IInv, TypeOK, Units
<1>2. kept => verified
  BY DEF IInv, Ends
<1>3. UNCHANGED <<store, kept, tries>> => Free' /\ store' \in [Names -> Seq(Units) \cup {None}]
  BY <1>1 DEF IInv, Free
<1>4. CASE receiverReturns
  <2>1. /\ rpc # "end" /\ rpc' = "end" /\ toS' \in PrefixesOf(toS) /\ meta' \in {meta, Torn}
        /\ UNCHANGED <<hdr, opened, rbuf, cur, ret, partial, toR, openS, attemptVars, senderVars, verified, gap, disturbed>>
        /\ openR' \in BOOLEAN
    BY <1>4 DEF receiverReturns, ReceiverEnds
  <2>2. CASE kind = "mem" /\ ret = "ok"
    <3>1. store' = [store EXCEPT ![uniquePath] = rbuf] /\ kept' = TRUE
      BY <1>4, <2>2 DEF receiverReturns
    <3>2. ~ kept /\ tries > 0 /\ verified /\ rbuf \in Seq(Units)
      BY <2>1, <2>2 DEF IInv, Ends, Live, TypeOK, Units
    <3>3. Free' /\ store' \in [Names -> Seq(Units) \cup {None}]
      BY <2>1, <3>1, <3>2, NameFact
    <3> QED BY <1>1, <2>1, <3>1, <3>2, <3>3, ReceiverStops
  <2>3. CASE ~ (kind = "mem" /\ ret = "ok")
    <3>1. UNCHANGED <<store, kept>>
      BY <1>4, <2>3 DEF receiverReturns
    <3> QED BY <1>1, <1>2, <1>3, <2>1, <3>1, ReceiverStops
  <2> QED BY <2>2, <2>3
<1>5. CASE receiverChannelClosed
  BY <1>5, ReceiverClosed DEF receiverChannelClosed
<1>6. ASSUME NEW q \in {toS, Append(toS, BuildCancelledFrame)}, rpc # "end", ReceiverEnds(q), disturbed' = TRUE,
             UNCHANGED <<store, kept>>, openR' \in BOOLEAN
      PROVE  IInv'
  <2>1. /\ rpc' = "end" /\ toS' \in PrefixesOf(q) /\ meta' \in {meta, Torn}
        /\ UNCHANGED <<hdr, opened, rbuf, cur, ret, partial, toR, openS, attemptVars, senderVars, verified, gap>>
    BY <1>6 DEF ReceiverEnds
  <2> QED BY <1>1, <1>2, <1>3, <1>6, <2>1, ReceiverStops
<1>7. CASE receiverCancel
  <2>1. CASE openR /\ spc # "end"
    BY <1>6, <1>7, <2>1 DEF receiverCancel
  <2>2. CASE ~ (openR /\ spc # "end")
    BY <1>6, <1>7, <2>2 DEF receiverCancel
  <2> QED BY <2>1, <2>2
<1>8. CASE receiverCrash
  <2>1. openR' \in BOOLEAN
    BY <1>8 DEF receiverCrash, IInv, TypeOK
  <2> QED BY <1>6, <1>8, <2>1 DEF receiverCrash
<1> QED BY <1>4, <1>5, <1>7, <1>8 DEF ReceiverNext

\* The invariant holds at the start.
LEMMA InvInit ==
  ASSUME Init
  PROVE  IInv
<1> USE DEF Init
<1>1. <<>> \in Seq(Nat) /\ <<>> \in Seq(Frames) /\ <<>> \in Seq(Files \X Nat) /\ Len(<<>>) = 0
  BY EmptySeq
<1>2. 0 \in 0 .. MaxTries /\ \A n \in Names : store[n] = None /\ ~ n < 0
  BY MaxTriesAssumption DEF Names
<1>3. TypeOK
  BY <1>1, <1>2 DEF TypeOK
<1>4. Ends
  BY NoneAssumption DEF Ends, Live
<1>5. ToReceiver /\ ToSender
  BY <1>1 DEF ToReceiver, ToSender
<1>6. Free
  BY <1>2 DEF Free
<1>7. Written /\ Flow /\ Sound /\ Pending /\ Receiving
  BY DEF Written, Flow, Sound, Pending, Receiving
<1> QED BY <1>3, <1>4, <1>5, <1>6, <1>7 DEF IInv

\* A step that changes nothing keeps it.
LEMMA Stuttering ==
  ASSUME IInv, UNCHANGED vars
  PROVE  IInv'
<1>1. /\ UNCHANGED eof
      /\ UNCHANGED <<file, cs, kind, tries, spc, base, next, acks, resume, okGot, rc, told, toR, toS, openS,
                     openR, rpc, hdr, opened, rbuf, cur, ret, partial, meta, store, verified, kept, gap, disturbed>>
  BY DEF vars, attemptVars, senderVars, recvVars, diskVars, ghostVars
<1>2. eof' \in BOOLEAN
  BY <1>1 DEF IInv, TypeOK
<1> QED BY <1>1, <1>2, AtEOF

\* No step breaks the invariant.
LEMMA InvNext ==
  ASSUME IInv, [Next]_vars
  PROVE  IInv'
<1>1. CASE \E f \in Files, size \in ChunkSizes, k \in Kinds : Start(f, size, k)
  <2>1. PICK f \in Files, size \in ChunkSizes, k \in Kinds : Start(f, size, k)
    BY <1>1
  <2>2. UNCHANGED <<partial, meta, store, gap>>
    BY <2>1 DEF Start, diskVars
  <2> QED BY <2>1, <2>2, Started
<1> QED BY <1>1, SenderKeeps, HandlerKeeps, ReceiverKeeps, Stuttering
        DEF Next, ReceiverNext, FaultNext

-----------------------------------------------------------------------------
(* The theorems.                                                           *)

\* The inductive invariant of a transfer: what transfer.go and peer.go keep between
\* the two ends of the channel and the receiver's disk.
THEOREM InvHolds == Spec => []IInv
BY InvInit, InvNext, PTL DEF Spec

\* The state of sender, channel, receiver and disk is well typed, for files of any
\* size and any number of attempts.
THEOREM TypesHold == Spec => []TypeOK
<1>1. IInv => TypeOK
  BY DEF IInv
<1> QED BY <1>1, InvHolds, PTL

\* The out-of-order error of the send loop (transfer.go:361) is unreachable until the
\* receiver fails, whatever the window and however late a ResumeFrom comes.
THEOREM AcksInOrderHolds == Spec => []AcksInOrder
<1>1. ASSUME IInv PROVE AcksInOrder
  <2> SUFFICES ASSUME spc = "loop", ret # "error"
               PROVE  Len(acks) <= next - base /\ \A i \in 1 .. Len(acks) : acks[i] = base + i - 1
    BY DEF AcksInOrder
  <2>1. ret = None
    <3>1. ret # "cancelled" /\ (ret = "ok" => verified)
      BY <1>1 DEF IInv, Ends
    <3>2. ~ verified
      BY <1>1 DEF IInv, ToReceiver
    <3> QED BY <1>1, <3>1, <3>2 DEF IInv, TypeOK
  <2>2. Len(acks) \in Nat /\ base \in Nat /\ next \in Nat /\ Len(toS) \in Nat /\ Len(toR) \in Nat
    BY <1>1, EmptyFact DEF IInv, TypeOK
  <2>3. \A i \in 1 .. Len(acks) : acks[i] = base + i - 1
    BY <1>1, <2>1 DEF IInv, Flow
  <2>4. CASE rpc = "end"
    <3>1. base + Len(acks) <= next
      BY <1>1, <2>1, <2>4 DEF IInv, Flow
    <3> QED BY <2>2, <2>3, <3>1
  <2>5. CASE rpc # "end"
    <3>1. next = Received + Len(toR) - HeaderAhead
      BY <1>1, <2>1, <2>5 DEF IInv, Flow
    <3>2. PICK w \in {0, 1} : Received = base + Len(acks) + Len(toS) - ResumeAhead + w
      BY DEF Received
    <3>3. /\ ResumeAhead \in {0, 1} /\ ResumeAhead <= Len(toS)
          /\ HeaderAhead \in {0, 1} /\ HeaderAhead <= Len(toR)
      BY <1>1, <2>2, EmptyFact DEF ResumeAhead, HeaderAhead, IInv, TypeOK
    <3>4. Len(acks) <= next - base
      BY <2>2, <3>1, <3>2, <3>3
    <3> QED BY <2>3, <3>4
  <2> QED BY <2>4, <2>5
<1> QED BY <1>1, InvHolds, PTL

\* A partial that checkPartial accepts holds the beginning of that very file, up to the
\* chunk ResumeFrom asks for, unless a ResumeFrom came too late or a write failed.
THEOREM ResumeSoundHolds == Spec => []ResumeSound
<1>1. ASSUME IInv PROVE ResumeSound
  <2> SUFFICES ASSUME ~ gap, NEW f \in Files, NEW size \in ChunkSizes, checkPartial(f, size)
               PROVE  partial = SubSeq(Content(f), 1, SmallerOf(meta.chunks * size, Size[f]))
    BY DEF ResumeSound
  <2>1. /\ meta \notin {None, Torn} /\ partial # None /\ meta.file = f /\ meta.cs = size
        /\ Len(partial) = meta.bytes /\ meta.chunks # 0
    BY DEF checkPartial
  <2>2. /\ meta.bytes = SmallerOf(meta.chunks * meta.cs, Size[meta.file])
        /\ partial = SubSeq(Content(meta.file), 1, Len(partial))
    BY <1>1, <2>1 DEF IInv, Sound
  <2> QED BY <2>1, <2>2
<1> QED BY <1>1, InvHolds, PTL

-----------------------------------------------------------------------------
(* The refinement.                                                         *)

\* What FileDelivery sees.
Seen == <<file, verified, kept, store, told>>

\* A verified file kept under the name uniquePath finds is a Keep of FileDelivery.
LEMMA KeepStep ==
  ASSUME IInv, rpc # "end", ~ kept, store' = [store EXCEPT ![uniquePath] = Content(file)],
         verified' = TRUE, kept' = TRUE, UNCHANGED <<file, told>>
  PROVE  Delivery!Next
<1>1. file \in Files /\ tries > 0
  BY DEF IInv, Ends, Live
<1>2. file # None
  BY <1>1, NoneAssumption
<1>3. uniquePath \in Names /\ store[uniquePath] = None
  BY <1>1, NameFact
<1>4. Delivery!Keep(uniquePath)
  BY <1>2, <1>3 DEF Delivery!Keep
<1> QED BY <1>3, <1>4 DEF Delivery!Next

\* Every step is one of FileDelivery, or is not seen by it.
LEMMA DeliveryStep ==
  ASSUME IInv, [Next]_vars
  PROVE  [Delivery!Next]_(Delivery!vars)
<1> USE DEF attemptVars, senderVars, recvVars, diskVars, ghostVars
<1>1. SUFFICES Delivery!Next \/ UNCHANGED Seen
  BY DEF Delivery!vars, Seen
<1>2. CASE \E f \in Files, size \in ChunkSizes, k \in Kinds : Start(f, size, k)
  <2>1. PICK f \in Files, size \in ChunkSizes, k \in Kinds : Start(f, size, k)
    BY <1>2
  <2>2. Delivery!Offer(f)
    BY <2>1 DEF Start, Delivery!Offer
  <2> QED BY <2>2 DEF Delivery!Next
<1>3. CASE awaitOK
  <2>1. verified /\ ~ told
    BY <1>3 DEF awaitOK, IInv, Ends
  <2>2. Delivery!Tell
    BY <1>3, <2>1 DEF awaitOK, Delivery!Tell
  <2> QED BY <2>2 DEF Delivery!Next
<1>4. CASE handleDone
  <2>1. Takes /\ toR[1].type = "done" /\ rpc = "ready" /\ kind = "disk"
    BY <1>4, ReceivesFact DEF handleDone
  <2>2. hdr = file /\ ~ kept
    BY <2>1, BodyFact
  <2>3. CASE UNCHANGED <<partial, store, verified, kept>>
    BY <1>4, <2>3 DEF handleDone, Seen
  <2>4. CASE /\ opened /\ rbuf = Content(hdr) /\ store' = [store EXCEPT ![uniquePath] = partial]
             /\ verified' = TRUE /\ kept' = TRUE
    <3>1. partial = Content(file)
      BY <2>1, <2>2, <2>4 DEF IInv, Written
    <3>2. UNCHANGED <<file, told>>
      BY <1>4 DEF handleDone
    <3> QED BY <2>1, <2>2, <2>4, <3>1, <3>2, KeepStep
  <2> QED BY <1>4, <2>3, <2>4 DEF handleDone
<1>5. CASE memDone
  <2>1. Takes /\ toR[1].type = "done"
    BY <1>5, ReceivesFact DEF memDone
  <2>2. file # None /\ ~ verified
    BY <2>1, BodyFact, TakenFact
  <2>3. UNCHANGED <<file, told, store, kept>>
    BY <1>5 DEF memDone, memUnchanged
  <2>4. CASE verified' = TRUE
    <3>1. Delivery!Verify
      BY <2>2, <2>3, <2>4 DEF Delivery!Verify
    <3> QED BY <3>1 DEF Delivery!Next
  <2>5. CASE UNCHANGED verified
    BY <2>3, <2>5 DEF Seen
  <2> QED BY <1>5, <2>4, <2>5 DEF memDone
<1>6. CASE receiverReturns
  <2>1. UNCHANGED <<file, told, verified>> /\ rpc # "end"
    BY <1>6 DEF receiverReturns, ReceiverEnds
  <2>2. CASE kind = "mem" /\ ret = "ok"
    <3>1. verified /\ ~ kept /\ rbuf = Content(file)
      BY <2>1, <2>2 DEF IInv, Ends
    <3>2. store' = [store EXCEPT ![uniquePath] = rbuf] /\ kept' = TRUE
      BY <1>6, <2>2 DEF receiverReturns
    <3>3. verified' = TRUE
      BY <2>1, <3>1 DEF IInv, TypeOK
    <3> QED BY <2>1, <3>1, <3>2, <3>3, KeepStep
  <2>3. CASE ~ (kind = "mem" /\ ret = "ok")
    BY <1>6, <2>1, <2>3 DEF receiverReturns, Seen
  <2> QED BY <2>2, <2>3
<1>7. CASE sendHeader \/ awaitResume \/ sendChunk \/ recvAck \/ remoteCancelled \/ sendDone
  BY <1>7 DEF sendHeader, awaitResume, sendChunk, recvAck, remoteCancelled, sendDone, Seen
<1>8. CASE senderOnMessage \/ senderOnClose \/ senderCancel
  BY <1>8 DEF senderOnMessage, senderOnClose, senderCancel, Seen
<1>9. CASE resumePartial \/ freshStart \/ writeFirstMeta \/ handleChunk \/ ackChunk \/ reportOK
  BY <1>9 DEF resumePartial, freshStart, writeFirstMeta, handleChunk, ackChunk, reportOK, Seen
<1>10. CASE memHeader \/ memChunk \/ handleCancelled
  BY <1>10 DEF memHeader, memChunk, memUnchanged, handleCancelled, Seen
<1>11. CASE receiverChannelClosed \/ receiverCancel \/ receiverCrash
  BY <1>11 DEF receiverChannelClosed, receiverCancel, receiverCrash, ReceiverEnds, Seen
<1>12. CASE UNCHANGED vars
  BY <1>12 DEF vars, Seen
<1> QED BY <1>2, <1>3, <1>4, <1>5, <1>6, <1>7, <1>8, <1>9, <1>10, <1>11, <1>12
        DEF Next, SenderNext, CallbackNext, HandlerNext, ReceiverNext, FaultNext

\* The transfer implements FileDelivery: whatever crashes, cancellations, lost frames
\* and failed writes happen, in whatever number of attempts, what is kept under a final
\* name is an offered file, whole, kept once, in a place that was free, never replaced;
\* and Send reports success only for a file the receiver has verified.
THEOREM DeliversHolds == Spec => Delivers
<1>1. Init => Delivery!Init
  BY DEF Init, Delivery!Init
<1>2. IInv /\ [Next]_vars => [Delivery!Next]_(Delivery!vars)
  BY DeliveryStep
<1> QED BY <1>1, <1>2, InvHolds, PTL DEF Spec, Delivers, Delivery!Spec
=============================================================================
