------------------------------ MODULE Transfer ------------------------------
(* One file sent over one WebRTC data channel: transfer.Sender driven by     *)
(* peer.Send, transfer.ReceiveState (or ReceiveStateMem) driven by           *)
(* peer.Receive (or ReceiveToBytes).  Attempts follow each other; the files  *)
(* that an attempt leaves on the receiver's disk are what the next one       *)
(* resumes from.  Every file sent has the same name, so all attempts share   *)
(* one partial file and one meta file.                                       *)
(*                                                                           *)
(* Content is a sequence of units; a hash is its content (no collisions).    *)
(* The channel is ordered and reliable while both ends live: what an end had *)
(* sent but not yet delivered when it closes survives up to some prefix.     *)
EXTENDS Integers, Sequences, FiniteSets

CONSTANTS
  Files,        \* the files that can be offered
  Size,         \* Size[f]: units in file f
  ChunkSizes,   \* the chunk sizes senders are configured with
  Kinds,        \* the receivers: "disk" (Receive), "mem" (ReceiveToBytes)
  Window,       \* windowSize: chunks in flight
  AckCap,       \* capacity of ackCh
  Faults,       \* what may go wrong: "crash", "cancel", "disk"
  MaxTries,     \* bound: attempts
  None, Torn    \* no value; a meta file that does not parse

ASSUME SizeAssumption == Size \in [Files -> Nat]
ASSUME ChunkSizesAssumption == ChunkSizes \subseteq Nat \ {0}
ASSUME KindsAssumption == Kinds \subseteq {"disk", "mem"}
ASSUME MaxTriesAssumption == MaxTries \in Nat
ASSUME NoneAssumption ==
  /\ None \notin Files \cup {"ok", "error", "cancelled"} /\ None \notin Nat
  /\ None \notin Seq(Files \X Nat)

VARIABLES
  file, cs, kind, tries,                          \* the attempt
  spc, base, next, eof, acks, resume, okGot, rc, told,  \* the sender
  toR, toS, openS, openR,                         \* the data channel
  rpc, hdr, opened, rbuf, cur, ret,               \* the receiver
  partial, meta, store,                           \* the receiver's disk
  verified, kept, gap, disturbed                  \* history

attemptVars == <<file, cs, kind, tries>>
senderVars  == <<spc, base, next, eof, acks, resume, okGot, rc, told>>
recvVars    == <<rpc, hdr, opened, rbuf, cur, ret>>
diskVars    == <<partial, meta, store>>
ghostVars   == <<verified, kept, gap, disturbed>>
vars == <<attemptVars, senderVars, toR, toS, openS, openR, recvVars, diskVars, ghostVars>>

Content(f) == [i \in 1 .. Size[f] |-> <<f, i>>]

SmallerOf(a, b) == IF a < b THEN a ELSE b

\* What Read puts in the buffer for chunk seq of f; empty at the end of file.
ChunkOf(f, size, seq) ==
  SubSeq(Content(f), seq * size + 1, SmallerOf((seq + 1) * size, Size[f]))

Names == 0 .. MaxTries

\* Mutant: the final name is taken whether or not it is free.
uniquePathTaken == 0

\* uniquePath: the names "name", "name (1)", "name (2)"...
uniquePath ==
  CHOOSE n \in Names : store[n] = None /\ \A m \in 0 .. n - 1 : store[m] # None

PrefixesOf(q) == {SubSeq(q, 1, n) : n \in 0 .. Len(q)}

\* dc.Send: nothing arrives at an end that is gone.
SendToR(m) == toR' = IF rpc = "end" THEN toR ELSE Append(toR, m)
SendToS(m) == toS' = IF spc = "end" THEN toS ELSE Append(toS, m)

\* The frames of the two ends.
HeaderFrame(f, size) == [type |-> "header", file |-> f, cs |-> size]
ChunkFrame(seq, data) == [type |-> "chunk", seq |-> seq, data |-> data]
BuildResumeFrame(seq) == [type |-> "resume", seq |-> seq]
BuildCancelledFrame == [type |-> "cancelled"]
BuildErrorFrame == [type |-> "error"]

Init ==
  /\ file = None /\ cs = 0 /\ kind = "disk" /\ tries = 0
  /\ spc = "end" /\ base = 0 /\ next = 0 /\ eof = FALSE /\ acks = <<>>
  /\ resume = None /\ okGot = FALSE /\ rc = FALSE /\ told = FALSE
  /\ toR = <<>> /\ toS = <<>> /\ openS = FALSE /\ openR = FALSE
  /\ rpc = "end" /\ hdr = None /\ opened = FALSE /\ rbuf = <<>> /\ cur = 0 /\ ret = None
  /\ partial = None /\ meta = None /\ store = [n \in Names |-> None]
  /\ verified = FALSE /\ kept = FALSE /\ gap = FALSE /\ disturbed = FALSE

\* Both sides have completed the handshake and the data channel is open.
Start(f, size, k) ==
  /\ spc = "end" /\ rpc = "end" /\ tries < MaxTries
  /\ file' = f /\ cs' = size /\ kind' = k /\ tries' = tries + 1
  /\ spc' = "start" /\ base' = 0 /\ next' = 0 /\ eof' = FALSE /\ acks' = <<>>
  /\ resume' = None /\ okGot' = FALSE /\ rc' = FALSE /\ told' = FALSE
  /\ toR' = <<>> /\ toS' = <<>> /\ openS' = TRUE /\ openR' = TRUE
  /\ rpc' = "ready" /\ hdr' = None /\ opened' = FALSE /\ rbuf' = <<>> /\ cur' = 0
  /\ ret' = None
  /\ verified' = FALSE /\ kept' = FALSE /\ disturbed' = gap
  /\ UNCHANGED <<diskVars, gap>>

(***************************************************************************)
(* The sender.                                                             *)
(***************************************************************************)
\* Send returns and closes its peer connection.
SenderEnds ==
  /\ spc' = "end"
  /\ toR' \in PrefixesOf(toR)
  /\ UNCHANGED <<base, next, eof, acks, resume, okGot, rc, toS, openS, openR>>

sendHeader ==
  /\ spc = "start"
  /\ IF openS
     THEN /\ SendToR(HeaderFrame(file, cs))
          /\ spc' = "resume"
          /\ UNCHANGED <<base, next, eof, acks, resume, okGot, rc, toS, openS, openR>>
     ELSE SenderEnds
  /\ UNCHANGED <<told, attemptVars, recvVars, diskVars, ghostVars>>

\* The select after the header: a ResumeFrom, or two seconds without one.
awaitResume ==
  /\ spc = "resume"
  /\ \/ /\ resume # None
        /\ base' = resume /\ next' = resume /\ resume' = None
        /\ UNCHANGED <<gap, disturbed>>
     \/ /\ gap' = (gap \/ cur > 0) /\ disturbed' = (disturbed \/ cur > 0)
        /\ UNCHANGED <<base, next, resume>>
  /\ spc' = "loop"
  /\ UNCHANGED <<eof, acks, okGot, rc, told, toR, toS, openS, openR, attemptVars,
                 recvVars, diskVars, verified, kept>>

windowFull == next - base >= Window \/ (eof /\ next > base)

\* One turn of the loop that reads and sends a chunk, or meets the end.
sendChunk ==
  /\ spc = "loop" /\ ~eof /\ ~windowFull /\ ~rc
  /\ LET data == ChunkOf(file, cs, next) IN
     IF data = <<>>
     THEN /\ eof' = TRUE
          /\ UNCHANGED <<spc, base, next, acks, resume, okGot, rc, toR, toS, openS, openR>>
     ELSE IF openS
     THEN /\ SendToR(ChunkFrame(next, data))
          /\ next' = next + 1
          /\ UNCHANGED <<spc, base, eof, acks, resume, okGot, rc, toS, openS, openR>>
     ELSE SenderEnds
  /\ UNCHANGED <<told, attemptVars, recvVars, diskVars, ghostVars>>

\* One turn that waits for an acknowledgement.
recvAck ==
  /\ spc = "loop" /\ windowFull /\ acks # <<>>
  /\ IF Head(acks) = base
     THEN /\ base' = base + 1 /\ acks' = Tail(acks)
          /\ UNCHANGED <<spc, next, eof, resume, okGot, rc, toR, toS, openS, openR>>
     ELSE SenderEnds
  /\ UNCHANGED <<told, attemptVars, recvVars, diskVars, ghostVars>>

remoteCancelled ==
  /\ spc = "loop" /\ rc
  /\ (~eof \/ next > base)
  /\ SenderEnds
  /\ UNCHANGED <<told, attemptVars, recvVars, diskVars, ghostVars>>

sendDone ==
  /\ spc = "loop" /\ eof /\ next = base
  /\ IF openS
     THEN /\ SendToR([type |-> "done"])
          /\ spc' = "wait"
          /\ UNCHANGED <<base, next, eof, acks, resume, okGot, rc, toS, openS, openR>>
     ELSE SenderEnds
  /\ UNCHANGED <<told, attemptVars, recvVars, diskVars, ghostVars>>

\* The final select of Send: TransferOK arrived.
awaitOK ==
  /\ spc = "wait" /\ okGot
  /\ SenderEnds
  /\ told' = TRUE
  /\ UNCHANGED <<attemptVars, recvVars, diskVars, ghostVars>>

\* The sender's context is cancelled: TagCancelled is sent, except while the
\* sender is waiting for ResumeFrom.
senderCancel ==
  /\ "cancel" \in Faults
  /\ spc \in {"resume", "wait"} \/ (spc = "loop" /\ (~eof \/ next > base))
  /\ spc' = "end"
  /\ toR' \in PrefixesOf(IF spc = "resume" \/ ~openS THEN toR
                         ELSE Append(toR, BuildCancelledFrame))
  /\ disturbed' = TRUE
  /\ UNCHANGED <<base, next, eof, acks, resume, okGot, rc, told, toS, openS, openR,
                 attemptVars, recvVars, diskVars, verified, kept, gap>>

\* dc.OnMessage of the sender.  An error frame is not handled.
senderOnMessage ==
  /\ spc # "end" /\ toS # <<>>
  /\ toS' = Tail(toS)
  /\ LET m == Head(toS) IN
     \/ /\ m.type = "ack" /\ Len(acks) < AckCap
        /\ acks' = Append(acks, m.seq)
        /\ UNCHANGED <<resume, okGot, rc>>
     \/ /\ m.type = "resume"
        /\ resume' = IF resume = None THEN m.seq ELSE resume
        /\ UNCHANGED <<acks, okGot, rc>>
     \/ m.type = "ok" /\ okGot' = TRUE /\ UNCHANGED <<acks, resume, rc>>
     \/ m.type = "cancelled" /\ rc' = TRUE /\ UNCHANGED <<acks, resume, okGot>>
     \/ m.type = "error" /\ UNCHANGED <<acks, resume, okGot, rc>>
  /\ UNCHANGED <<spc, base, next, eof, told, toR, openS, openR, attemptVars, recvVars,
                 diskVars, ghostVars>>

\* Mutant: a closing channel is not taken for a cancellation.
closeSignalsNothing == rc

\* What OnClose leaves remoteCancel as: closed, unless TransferOK came first.
closeSignals == rc \/ ~okGot

\* dc.OnClose of the sender, once everything before the close was delivered: the
\* receiver closed its connection, or it died and the remains of it were noticed.
senderOnClose ==
  /\ spc # "end" /\ openS /\ rpc = "end" /\ toS = <<>>
  /\ openS' = FALSE
  /\ rc' = closeSignals
  /\ UNCHANGED <<spc, base, next, eof, acks, resume, okGot, told, toR, toS, openR,
                 attemptVars, recvVars, diskVars, ghostVars>>

(***************************************************************************)
(* The receiver.  A handler runs to its end unless the process dies or     *)
(* Receive returns: a state between two writes of a handler has an rpc.    *)
(***************************************************************************)
\* transferDone has capacity 1: the first result stands.
Deliver(r) == ret' = IF ret = None THEN r ELSE ret

\* Feed returned an error: an error frame, and Receive gets the error.
Fail ==
  /\ rpc' = "ready"
  /\ IF openR THEN SendToS(BuildErrorFrame) ELSE toS' = toS
  /\ Deliver("error")

\* Mutant: the length of the partial is not compared with the meta.
checkPartialAnyLength(f, size) ==
  /\ meta \notin {None, Torn} /\ partial # None
  /\ meta.file = f /\ meta.cs = size
  /\ meta.chunks # 0

\* Mutant: the partial of another file of the same name is accepted.
checkPartialAnyFile(f, size) ==
  /\ meta \notin {None, Torn} /\ partial # None
  /\ meta.cs = size
  /\ Len(partial) = meta.bytes
  /\ meta.chunks # 0

\* checkPartial: can the attempt resume from the partial on disk?
checkPartial(f, size) ==
  /\ meta \notin {None, Torn} /\ partial # None
  /\ meta.file = f /\ meta.cs = size
  /\ Len(partial) = meta.bytes
  /\ meta.chunks # 0

receives(type) == rpc = "ready" /\ toR # <<>> /\ Head(toR).type = type /\ toR' = Tail(toR)

\* The running hash of what is on disk, from its first n units.
replayHash(n) == SubSeq(partial, 1, n)

\* handleHeader with a usable partial: replay its hash, append to it.
resumePartial ==
  /\ receives("header") /\ kind = "disk"
  /\ LET h == Head(toR) IN
     /\ checkPartial(h.file, h.cs)
     /\ hdr' = h.file
     /\ rbuf' = replayHash(meta.bytes)
     /\ opened' = openR
     /\ cur' = meta.chunks
     /\ IF openR
        THEN /\ SendToS(BuildResumeFrame(meta.chunks))
             /\ UNCHANGED <<rpc, ret>>
        ELSE Fail
     /\ LET late == spc \in {"loop", "wait"} \/ Len(toR) > 1 IN
        gap' = (gap \/ late) /\ disturbed' = (disturbed \/ late)
  /\ UNCHANGED <<openS, openR, attemptVars, senderVars, diskVars, verified, kept>>

\* handleHeader from the start: os.Create truncates the partial.
\* A partial that cannot be reopened ends here too.
freshStart ==
  /\ receives("header") /\ kind = "disk"
  /\ LET h == Head(toR) IN
     /\ ~checkPartial(h.file, h.cs) \/ "disk" \in Faults
     /\ hdr' = h.file
  /\ \/ partial' = <<>> /\ rpc' = "meta0" /\ UNCHANGED <<toS, ret, disturbed>>
     \/ "disk" \in Faults /\ Fail /\ disturbed' = TRUE /\ UNCHANGED partial
  /\ rbuf' = <<>> /\ UNCHANGED opened
  /\ UNCHANGED <<cur, meta, store, openS, openR, attemptVars, senderVars, verified, kept, gap>>

\* Mutant: the chunk size is not stored and reads back as zero.
PartialMetaNoChunkSize(chunks) ==
  [file |-> hdr, cs |-> 0, bytes |-> Len(rbuf), chunks |-> chunks]

PartialMeta(chunks) ==
  [file |-> hdr, cs |-> cs, bytes |-> Len(rbuf), chunks |-> chunks]

\* writeMeta(hdr, 0, 0), the end of handleHeader.
writeFirstMeta ==
  /\ rpc = "meta0"
  /\ \/ /\ meta' = PartialMeta(0)
        /\ rpc' = "ready" /\ opened' = TRUE
        /\ UNCHANGED <<toS, ret, disturbed>>
     \/ /\ "disk" \in Faults
        /\ meta' \in {meta, Torn}
        /\ Fail /\ disturbed' = TRUE
        /\ UNCHANGED opened
  /\ UNCHANGED <<hdr, rbuf, cur, partial, store, toR, openS, openR, attemptVars, senderVars,
                 verified, kept, gap>>

\* handleChunk up to the write: no sequence check, only the announced size.
handleChunk ==
  /\ receives("chunk") /\ kind = "disk"
  /\ LET m == Head(toR) IN
     \/ /\ ~opened \/ Len(rbuf) + Len(m.data) > Size[hdr]
        /\ opened' = FALSE
        /\ Fail
        /\ UNCHANGED <<rbuf, cur, partial, gap, disturbed>>
     \/ /\ opened /\ Len(rbuf) + Len(m.data) <= Size[hdr]
        /\ rbuf' = rbuf \o m.data /\ cur' = m.seq
        /\ partial' = partial \o m.data
        /\ rpc' = "meta"
        /\ UNCHANGED <<opened, toS, ret, gap, disturbed>>
     \/ /\ "disk" \in Faults
        /\ opened /\ Len(rbuf) + Len(m.data) <= Size[hdr]
        /\ Fail /\ gap' = TRUE /\ disturbed' = TRUE
        /\ UNCHANGED <<opened, rbuf, cur, partial>>
  /\ UNCHANGED <<hdr, meta, store, openS, openR, attemptVars, senderVars, verified, kept>>

\* Mutant: the acknowledgement names the next chunk.
BuildNextAckFrame(seq) == [type |-> "ack", seq |-> seq + 1]

BuildAckFrame(seq) == [type |-> "ack", seq |-> seq]

\* The rest of handleChunk: writeMeta, whose error is ignored, then the ack.
ackChunk ==
  /\ rpc = "meta"
  /\ meta' = PartialMeta(cur + 1) \/ ("disk" \in Faults /\ meta' \in {meta, Torn})
  /\ rpc' = "ready"
  /\ IF openR
     THEN SendToS(BuildAckFrame(cur)) /\ ret' = ret
     ELSE Deliver("cancelled") /\ toS' = toS
  /\ UNCHANGED <<hdr, opened, rbuf, cur, partial, store, toR, openS, openR, attemptVars,
                 senderVars, ghostVars>>

\* handleDone up to the rename.
handleDone ==
  /\ receives("done") /\ kind = "disk"
  /\ \/ /\ ~opened \/ rbuf # Content(hdr) \/ "disk" \in Faults
        /\ Fail
        /\ disturbed' = (disturbed \/ (opened /\ rbuf = Content(hdr)))
        /\ UNCHANGED <<partial, store, verified, kept>>
     \/ /\ opened /\ rbuf = Content(hdr)
        /\ store' = [store EXCEPT ![uniquePath] = partial]
        /\ partial' = None
        /\ verified' = TRUE /\ kept' = TRUE
        /\ rpc' = "renamed"
        /\ UNCHANGED <<toS, ret, disturbed>>
  /\ UNCHANGED <<hdr, opened, rbuf, cur, meta, openS, openR, attemptVars, senderVars, gap>>

\* The rest of handleDone and of the callback: remove the meta, TransferOK.
reportOK ==
  /\ rpc = "renamed"
  /\ meta' = None \/ ("disk" \in Faults /\ meta' = meta)
  /\ IF openR THEN SendToS([type |-> "ok"]) ELSE toS' = toS
  /\ Deliver("ok")
  /\ rpc' = "ready"
  /\ UNCHANGED <<hdr, opened, rbuf, cur, partial, store, toR, openS, openR, attemptVars,
                 senderVars, ghostVars>>

\* ReceiveStateMem.Feed: nothing is resumed and nothing is written to disk.
memUnchanged == UNCHANGED <<cur, openS, openR, attemptVars, senderVars, diskVars, kept, gap,
                            disturbed>>

memHeader ==
  /\ receives("header") /\ kind = "mem"
  /\ hdr' = Head(toR).file /\ opened' = TRUE /\ rbuf' = <<>>
  /\ UNCHANGED <<rpc, toS, ret, verified>> /\ memUnchanged

memChunk ==
  /\ receives("chunk") /\ kind = "mem"
  /\ LET m == Head(toR) IN
     \/ /\ ~opened \/ Len(rbuf) + Len(m.data) > Size[hdr]
        /\ Fail /\ UNCHANGED rbuf
     \/ /\ opened /\ Len(rbuf) + Len(m.data) <= Size[hdr]
        /\ rbuf' = rbuf \o m.data
        /\ IF openR
           THEN SendToS(BuildAckFrame(m.seq)) /\ UNCHANGED ret
           ELSE Deliver("cancelled") /\ UNCHANGED toS
        /\ UNCHANGED rpc
  /\ UNCHANGED <<hdr, opened, verified>> /\ memUnchanged

memDone ==
  /\ receives("done") /\ kind = "mem"
  /\ IF opened /\ rbuf = Content(hdr)
     THEN /\ verified' = TRUE
          /\ IF openR THEN SendToS([type |-> "ok"]) ELSE toS' = toS
          /\ Deliver("ok") /\ UNCHANGED rpc
     ELSE Fail /\ UNCHANGED verified
  /\ UNCHANGED <<hdr, opened, rbuf>> /\ memUnchanged

handleCancelled ==
  /\ receives("cancelled")
  /\ Deliver("cancelled")
  /\ UNCHANGED <<rpc, hdr, opened, rbuf, cur, toS, openS, openR, attemptVars, senderVars,
                 diskVars, ghostVars>>

\* The receiver's end of the channel closes; nothing is watching for it.
receiverChannelClosed ==
  /\ rpc # "end" /\ openR /\ spc = "end" /\ toR = <<>>
  /\ openR' = FALSE
  /\ UNCHANGED <<toR, toS, openS, attemptVars, senderVars, recvVars, diskVars, ghostVars>>

\* The receiver stops, perhaps in the middle of writing the meta file.
ReceiverEnds(q) ==
  /\ rpc' = "end"
  /\ toS' \in PrefixesOf(q)
  /\ meta' \in IF rpc \in {"meta0", "meta"} THEN {meta, Torn} ELSE {meta}
  /\ UNCHANGED <<hdr, opened, rbuf, cur, ret, partial, toR, openS, attemptVars, senderVars,
                 verified, gap>>

\* Receive or ReceiveToBytes returns the result and closes its peer connection; the
\* latter hands the bytes over.
receiverReturns ==
  /\ rpc # "end" /\ ret # None
  /\ ReceiverEnds(toS) /\ openR' = FALSE
  /\ IF kind = "mem" /\ ret = "ok"
     THEN store' = [store EXCEPT ![uniquePath] = rbuf] /\ kept' = TRUE
     ELSE UNCHANGED <<store, kept>>
  /\ UNCHANGED disturbed

\* The receiver's context is cancelled: TagCancelled, then Receive returns.
receiverCancel ==
  /\ "cancel" \in Faults /\ rpc # "end"
  /\ ReceiverEnds(IF openR /\ spc # "end" THEN Append(toS, BuildCancelledFrame) ELSE toS)
  /\ openR' = FALSE /\ disturbed' = TRUE
  /\ UNCHANGED <<store, kept>>

\* The process dies: nobody closes the channel.
receiverCrash ==
  /\ "crash" \in Faults /\ rpc # "end"
  /\ ReceiverEnds(toS) /\ openR' = openR
  /\ disturbed' = TRUE
  /\ UNCHANGED <<store, kept>>

SenderNext ==
  \/ sendHeader \/ awaitResume \/ sendChunk \/ recvAck \/ remoteCancelled
  \/ sendDone \/ awaitOK
CallbackNext == senderOnMessage \/ senderOnClose
HandlerNext ==
  \/ resumePartial \/ freshStart \/ writeFirstMeta \/ handleChunk \/ ackChunk
  \/ handleDone \/ reportOK \/ memHeader \/ memChunk \/ memDone \/ handleCancelled
ReceiverNext == receiverReturns \/ receiverChannelClosed
FaultNext == senderCancel \/ receiverCancel \/ receiverCrash

Next ==
  \/ \E f \in Files, size \in ChunkSizes, k \in Kinds : Start(f, size, k)
  \/ SenderNext \/ CallbackNext \/ HandlerNext \/ ReceiverNext \/ FaultNext

Spec == Init /\ [][Next]_vars

\* Did the receiver stop without closing its peer connection?
receiverDied == rpc = "end" /\ openR

\* Every goroutine that can run does; nobody is obliged to fail or to retry, or to find
\* out that the other end has died: peer.go only logs the state of the connection.
FairSpec ==
  /\ Spec
  /\ WF_vars(SenderNext) /\ WF_vars(CallbackNext /\ ~receiverDied)
  /\ WF_vars(HandlerNext) /\ WF_vars(ReceiverNext)

(***************************************************************************)
(* What is checked.                                                        *)
(***************************************************************************)
Frames ==
       [type : {"header"}, file : Files, cs : ChunkSizes]
  \cup [type : {"chunk"}, seq : Nat, data : Seq(Files \X Nat)]
  \cup [type : {"ack", "resume"}, seq : Nat]
  \cup [type : {"done", "ok", "error", "cancelled"}]

\* The state is well typed: the sender and receiver of peer.go and transfer.go
\* keep their counters, queues and files in these sets.
TypeOK ==
  /\ file \in Files \cup {None} /\ cs \in ChunkSizes \cup {0}
  /\ kind \in {"disk", "mem"} /\ tries \in 0 .. MaxTries
  /\ spc \in {"start", "resume", "loop", "wait", "end"}
  /\ base \in Nat /\ next \in Nat /\ eof \in BOOLEAN /\ acks \in Seq(Nat)
  /\ resume \in Nat \cup {None}
  /\ okGot \in BOOLEAN /\ rc \in BOOLEAN /\ told \in BOOLEAN
  /\ toR \in Seq(Frames) /\ toS \in Seq(Frames)
  /\ openS \in BOOLEAN /\ openR \in BOOLEAN
  /\ rpc \in {"ready", "meta0", "meta", "renamed", "end"}
  /\ hdr \in Files \cup {None} /\ opened \in BOOLEAN
  /\ rbuf \in Seq(Files \X Nat) /\ cur \in Nat
  /\ ret \in {None, "ok", "error", "cancelled"}
  /\ partial \in Seq(Files \X Nat) \cup {None}
  /\ meta \in [file : Files, cs : ChunkSizes, bytes : Nat, chunks : Nat] \cup {None, Torn}
  /\ store \in [Names -> Seq(Files \X Nat) \cup {None}]
  /\ verified \in BOOLEAN /\ kept \in BOOLEAN /\ gap \in BOOLEAN /\ disturbed \in BOOLEAN

\* The promise, with the detailed state mapped to the abstract one: what ends
\* up under a final name (rename at transfer.go:605, or the bytes ReceiveToBytes
\* returns) is the offered file exactly, an earlier file is never replaced
\* (uniquePath), and Send reports success only for a verified file.
Delivery == INSTANCE FileDelivery WITH Places <- Names, offered <- file
Delivers == Delivery!Spec

\* Whatever crashes, cancellations and failed meta writes left behind, a partial
\* that checkPartial accepts holds the beginning of that very file, up to the
\* chunk ResumeFrom asks for.  Two things break it, recorded in gap: a ResumeFrom
\* the sender did not wait for, and a chunk written after one whose write failed.
ResumeSound ==
  gap \/ \A f \in Files, size \in ChunkSizes :
           checkPartial(f, size) =>
             partial = SubSeq(Content(f), 1, SmallerOf(meta.chunks * size, Size[f]))

\* Until the receiver fails, the acknowledgements waiting for the sender are those
\* of the oldest chunks in flight, in order: the out-of-order error of the send
\* loop (transfer.go:361) is unreachable, across resumes that came too late too.
AcksInOrder ==
  spc = "loop" /\ ret # "error" =>
    Len(acks) <= next - base /\ \A i \in 1 .. Len(acks) : acks[i] = base + i - 1

\* The send loop is always left when the receiver stops, whatever has failed: by its
\* acknowledgements or by its channel, which Receive closes when it returns (the
\* watchdog of peer.go:301-309).  Not so when it dies: Send has no timer, and nothing
\* in peer.go closes the channel of a remote that is gone.
LoopEnds == spc = "loop" ~> (spc # "loop" \/ receiverDied)

\* An attempt that nothing disturbs delivers its file, whatever state earlier
\* attempts, on this or another file of the same name, left on the disk.
Delivered == spc = "start" ~> (verified \/ disturbed)
=============================================================================
