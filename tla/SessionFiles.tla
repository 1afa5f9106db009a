---------------------------- MODULE SessionFiles ----------------------------
(* File transfers within a live session (internal/session): the sender's     *)
(* outbound queue and its loop, a fresh data channel per transfer to the     *)
(* first peer, copies of in-memory files to the others in the background,    *)
(* and at each receiver a goroutine per channel that waits for the file,     *)
(* saves it and reports it.  Peers leave, exit and are told to end meanwhile.*)
(* What happens on one channel, chunk by chunk, is in Transfer: here the     *)
(* stream is sent as a whole and the receiver verifies it or refuses it.     *)
EXTENDS Integers, Sequences, FiniteSets

CONSTANTS
  MaxPeers,     \* the receivers, numbered in the order of the sender's s.peers
  MaxRequests,  \* bound: files to be sent
  Kinds,        \* subset of {"file", "bytes"}: SendFile and SendFileStream, SendBytes
  Faults,       \* subset of FaultKinds
  MaxFaults,    \* bound: how many of these happen
  None

\* A receiver leaves or exits, the session is closed, a channel does not open in time,
\* the sender cannot read the file or it changes, a receiver cannot save it, or its
\* Events is full.
FaultKinds == {"leave", "exit", "close", "timeout", "read", "change", "disk", "full"}

ASSUME FilesAssumption ==
  /\ MaxPeers \in Nat \ {0} /\ MaxRequests \in Nat \ {0} /\ MaxFaults \in Nat
  /\ Kinds \subseteq {"file", "bytes"}
  /\ Faults \subseteq FaultKinds

Peers == 1 .. MaxPeers
Requests == 1 .. MaxRequests
\* Channel <<r, 0>> goes to the first peer, <<r, k>> is the copy labelled "-pk".
Chans == Requests \X (0 .. MaxPeers - 1)

ASSUME NoneAssumption == None \notin Peers /\ None \notin Requests /\ None \notin Kinds

VARIABLES
  peers,     \* the backing array of s.peers; removal compacts it in place
  len,       \* len(s.peers)
  kind,      \* kind[r]: how request r was made, or None
  queue,     \* s.outbound
  cur,       \* the request senderLoop is at, or None
  phase,     \* where execTransfer is
  extra,     \* len(extraPeers), a slice of the array above
  next,      \* the copy that broadcastToExtraPeers starts next
  answer,    \* answer[r]: what req.done delivered: "none", "ok", "error"
  to,        \* to[c]: the peer channel c was created to, or None
  chan,      \* chan[c]: "none", "opening", "open", "sent", "dead" (given up)
  fed,       \* fed[c]: what the receiver's Feed made of it: "no", "verified", "refused"
  oks,       \* channels whose TransferOK has reached the sender
  job,       \* job[c]: the receive goroutine: "none", "new", "locked", "saving", "saved",
             \* "failed", "unseen" (the event was dropped), "over"
  live,      \* the sender's context is not cancelled
  state,     \* state[p]: "in", "ended" (its context), "exited" (its process)
  notes,     \* frames under way: <<"leave", p>> to the sender, <<"close", p>> to p
  faults,    \* how many faults have happened (history)
  own        \* the peers that went of their own accord (history)

sendVars == <<kind, queue, cur, phase, extra, next, answer>>
chanVars == <<to, chan, fed, oks, job>>
roomVars == <<peers, len, live, state, notes, own>>
vars == <<sendVars, chanVars, roomVars, faults>>

Listed == {peers[i] : i \in 1 .. len}

Init ==
  /\ peers = [i \in Peers |-> i] /\ len = MaxPeers
  /\ kind = [r \in Requests |-> None] /\ queue = <<>> /\ cur = None /\ phase = "idle"
  /\ extra = 0 /\ next = 0 /\ answer = [r \in Requests |-> "none"]
  /\ to = [c \in Chans |-> None] /\ chan = [c \in Chans |-> "none"]
  /\ fed = [c \in Chans |-> "no"] /\ oks = {} /\ job = [c \in Chans |-> "none"]
  /\ live = TRUE /\ state = [p \in Peers |-> "in"] /\ notes = {}
  /\ faults = 0 /\ own = {}

Happens(f) == f \in Faults /\ faults < MaxFaults /\ faults' = faults + 1

(***************************************************************************)
(* The sender.                                                             *)
(***************************************************************************)
\* SendFile, SendFileStream and SendBytes put a request on the queue.
Enqueue(r, k) ==
  /\ live /\ kind[r] = None /\ \A q \in Requests : q < r => kind[q] # None
  /\ kind' = [kind EXCEPT ![r] = k]
  /\ queue' = Append(queue, r)
  /\ UNCHANGED <<cur, phase, extra, next, answer, chanVars, roomVars, faults>>

\* senderLoop: deliver the error, if any, close req.done, take the next request.
Reply(a) ==
  /\ answer' = [answer EXCEPT ![cur] = a]
  /\ cur' = None /\ phase' = "idle" /\ extra' = 0 /\ next' = 0
  /\ UNCHANGED <<kind, queue>>

\* execTransfer up to CreateDataChannel: the announcement fails when a control
\* channel is closed, and there may be nobody left to send to.
TakeRequest ==
  /\ phase = "idle" /\ queue # <<>> /\ live
  /\ queue' = Tail(queue)
  /\ LET r == Head(queue) IN
     IF len = 0 \/ \E p \in Listed : state[p] = "exited"
     THEN /\ answer' = [answer EXCEPT ![r] = "error"]
          /\ UNCHANGED <<cur, phase, chanVars>>
     ELSE /\ cur' = r /\ phase' = "opening"
          /\ to' = [to EXCEPT ![<<r, 0>>] = peers[1]]
          /\ chan' = [chan EXCEPT ![<<r, 0>>] = "opening"]
          /\ UNCHANGED <<answer, fed, oks, job>>
  /\ UNCHANGED <<kind, extra, next, roomVars, faults>>

First == <<cur, 0>>
FirstGone == state[to[First]] = "exited"

\* The channel opens: OnDataChannel at the receiver starts its goroutine.
Opens(c) ==
  /\ chan[c] = "opening" /\ state[to[c]] # "exited"
  /\ chan' = [chan EXCEPT ![c] = "open"]
  /\ job' = [job EXCEPT ![c] = "new"]
  /\ UNCHANGED <<to, fed, oks>>

OpenFirst ==
  /\ phase = "opening" /\ Opens(First)
  /\ phase' = "sending"
  /\ UNCHANGED <<kind, queue, cur, extra, next, answer, roomVars, faults>>

\* time.After(15 s): the network is slow, or the peer is gone.
TimerFires(c) == (state[to[c]] = "exited" /\ UNCHANGED faults) \/ Happens("timeout")

\* The channel is given up, and not closed.
GiveUp(c) ==
  /\ chan' = [chan EXCEPT ![c] = "dead"]
  /\ UNCHANGED <<to, fed, oks, job>>

OpenTimeout ==
  /\ phase = "opening" /\ TimerFires(First)
  /\ Reply("error")
  /\ GiveUp(First)
  /\ UNCHANGED roomVars

\* A channel that was given up opens at the receiver all the same: its goroutine waits
\* for a stream that does not come.
OpenLate(c) ==
  /\ chan[c] = "dead" /\ job[c] = "none" /\ state[to[c]] # "exited"
  /\ job' = [job EXCEPT ![c] = "new"]
  /\ UNCHANGED <<sendVars, to, chan, fed, oks, roomVars, faults>>

\* sender.Run, RunFromStream or RunFromBytes returns nil.
Stream ==
  /\ phase = "sending" /\ ~FirstGone
  /\ chan' = [chan EXCEPT ![First] = "sent"]
  /\ phase' = "sent"
  /\ UNCHANGED <<kind, queue, cur, extra, next, answer, to, fed, oks, job, roomVars, faults>>

\* sender.Run or RunFromStream cannot read what it is to send.
StreamFails ==
  /\ phase = "sending" /\ kind[cur] = "file" /\ Happens("read")
  /\ Reply("error")
  /\ GiveUp(First)
  /\ UNCHANGED roomVars

\* Mutant: the first peer is counted among the others.
ExtraPeersLong == len

\* extraPeers := s.peers[1:]
ExtraPeers == len - 1

\* Slicing panics when every peer has left meanwhile.
SliceExtraPeers ==
  /\ phase = "sent"
  /\ extra' = IF len = 0 THEN 0 ELSE ExtraPeers
  /\ next' = 1
  /\ phase' = IF len = 0 THEN "panic"
              ELSE IF extra' > 0 /\ kind[cur] = "bytes" THEN "copying" ELSE "okwait"
  /\ UNCHANGED <<kind, queue, cur, answer, chanVars, roomVars, faults>>

\* broadcastToExtraPeers: the range reads the slice's elements one by one, from the
\* array that a peer leaving at the same time compacts.
StartCopy ==
  /\ phase = "copying"
  /\ LET c == <<cur, next>> IN
     /\ to' = [to EXCEPT ![c] = peers[next + 1]]
     /\ chan' = [chan EXCEPT ![c] = "opening"]
  /\ next' = next + 1
  /\ phase' = IF next = extra THEN "okwait" ELSE phase
  /\ UNCHANGED <<kind, queue, cur, extra, answer, fed, oks, job, roomVars, faults>>

IsCopy(c) == c[2] > 0

OpenCopy(c) ==
  /\ IsCopy(c) /\ live /\ Opens(c)
  /\ UNCHANGED <<sendVars, roomVars, faults>>

StreamCopy(c) ==
  /\ IsCopy(c) /\ live /\ chan[c] = "open" /\ state[to[c]] # "exited"
  /\ chan' = [chan EXCEPT ![c] = "sent"]
  /\ UNCHANGED <<sendVars, to, fed, oks, job, roomVars, faults>>

\* The goroutine of a copy returns: ctx.Done or the timer.
CopyGivesUp(c) ==
  /\ IsCopy(c) /\ chan[c] \in {"opening", "open"}
  /\ \/ ~live /\ UNCHANGED faults
     \/ chan[c] = "opening" /\ TimerFires(c)
  /\ GiveUp(c)
  /\ UNCHANGED <<sendVars, roomVars>>

\* Mutant: what was sent counts as received.
HasOKWhenSent(c) == chan[c] = "sent"

HasOK(c) == c \in oks

TransferOK ==
  /\ phase = "okwait" /\ HasOK(First)
  /\ Reply("ok")
  /\ UNCHANGED <<chanVars, roomVars, faults>>


\* OnClose of the transfer channel, unless the OK has come.
Cancelled == FirstGone /\ First \notin oks

TransferCancelled ==
  /\ phase \in {"sending", "okwait"} /\ Cancelled
  /\ Reply("error")
  /\ UNCHANGED <<chanVars, roomVars, faults>>

\* s.ctx.Done in execTransfer's waits and in the transfer itself.
ContextDone ==
  /\ phase \in {"opening", "sending", "okwait"} /\ ~live
  /\ Reply("error")
  /\ chan' = [chan EXCEPT ![First] = IF @ = "sent" THEN @ ELSE "dead"]
  /\ UNCHANGED <<to, fed, oks, job, roomVars, faults>>

(***************************************************************************)
(* A receiver.                                                             *)
(***************************************************************************)
\* The last frame of the stream: Feed compares the hashes.  OnMessage works on even
\* when the receiver's session has ended.  An error frame is not looked at.
Feed(c) ==
  /\ chan[c] = "sent" /\ fed[c] = "no" /\ state[to[c]] # "exited"
  /\ \/ /\ fed' = [fed EXCEPT ![c] = "verified"]
        /\ oks' = oks \cup {c}
        /\ UNCHANGED faults
     \/ /\ kind[c[1]] = "file" /\ Happens("change")
        /\ fed' = [fed EXCEPT ![c] = "refused"]
        /\ UNCHANGED oks
  /\ UNCHANGED <<sendVars, to, chan, job, roomVars>>

JobStep(c, from, new) ==
  /\ job[c] \in from /\ state[to[c]] # "exited"
  /\ job' = [job EXCEPT ![c] = new]
  /\ UNCHANGED <<sendVars, to, chan, fed, oks, roomVars>>

\* Mutant: the lock is not given back when the file has been saved.
LockKept(c) ==
  /\ \A d \in Chans : to[d] = to[c] => job[d] \notin {"locked", "saving", "saved"}
  /\ JobStep(c, {"new"}, "locked") /\ UNCHANGED faults

\* s.recvMu: one goroutine of a receiver at a time.
Lock(c) ==
  /\ \A d \in Chans : to[d] = to[c] => job[d] \notin {"locked", "saving"}
  /\ JobStep(c, {"new"}, "locked") /\ UNCHANGED faults

\* The select of the goroutine: done, or the session's end, whichever it picks.
Finished(c) ==
  /\ JobStep(c, {"locked"}, IF fed[c] = "verified" THEN "saving" ELSE "over")
  /\ fed[c] # "no" /\ UNCHANGED faults

\* Mutant: the goroutine does not wait for the session's end.
SessionOverEarly(c) == JobStep(c, {"locked"}, "over") /\ UNCHANGED faults

SessionOver(c) ==
  /\ JobStep(c, {"locked"}, "over")
  /\ state[to[c]] = "ended" /\ UNCHANGED faults

\* saveReceivedFile, and the event that hands the file over; emit drops it when the
\* receiver's context is cancelled, or when Events is full.
Save(c) ==
  /\ JobStep(c, {"saving"}, IF state[to[c]] = "in" THEN "saved" ELSE "over")
  /\ UNCHANGED faults
SaveUnseen(c) == JobStep(c, {"saving"}, "unseen") /\ Happens("full")
SaveFails(c) == JobStep(c, {"saving"}, "failed") /\ Happens("disk")

(***************************************************************************)
(* Coming to an end.                                                       *)
(***************************************************************************)
\* Removal from s.peers, which names a peer once: append to s.peers[:0] moves the
\* later ones down and leaves what is behind the new end.
Remove(p) ==
  IF p \in Listed
  THEN \E k \in 1 .. len :
         /\ peers[k] = p
         /\ len' = len - 1
         /\ peers' = [i \in Peers |-> IF k <= i /\ i < len THEN peers[i + 1] ELSE peers[i]]
  ELSE UNCHANGED <<len, peers>>

LeavePeer(p) ==
  /\ state[p] = "in" /\ Happens("leave")
  /\ state' = [state EXCEPT ![p] = "ended"]
  /\ notes' = notes \cup {<<"leave", p>>}
  /\ own' = own \cup {p}
  /\ UNCHANGED <<sendVars, chanVars, peers, len, live>>

\* handleParticipantLeave at the sender.
HandleLeave(p) ==
  /\ <<"leave", p>> \in notes
  /\ notes' = notes \ {<<"leave", p>>}
  /\ Remove(p)
  /\ UNCHANGED <<sendVars, chanVars, live, state, faults, own>>

\* The receiver's process is over: after the session has ended, or just so.
ExitPeer(p) ==
  /\ \/ state[p] = "ended" /\ UNCHANGED <<faults, own>>
     \/ state[p] = "in" /\ Happens("exit") /\ own' = own \cup {p}
  /\ state' = [state EXCEPT ![p] = "exited"]
  /\ notes' = notes \ {<<"close", p>>}
  /\ UNCHANGED <<sendVars, chanVars, peers, len, live>>

\* controlDC.OnClose at the sender: the last one to go ends the session.
ControlClosed(p) ==
  /\ state[p] = "exited" /\ p \in Listed
  /\ Remove(p)
  /\ notes' = notes \ {<<"leave", p>>}
  /\ live' = (live /\ len' > 0)
  /\ UNCHANGED <<sendVars, chanVars, state, faults, own>>

\* Close: a frame to every peer, then the context is cancelled.
CloseSession ==
  /\ live /\ Happens("close")
  /\ live' = FALSE
  /\ notes' = notes \cup {<<"close", p>> : p \in {q \in Listed : state[q] = "in"}}
  /\ UNCHANGED <<sendVars, chanVars, peers, len, state, own>>

\* TagSessionClose at a receiver.
HandleClose(p) ==
  /\ <<"close", p>> \in notes
  /\ notes' = notes \ {<<"close", p>>}
  /\ state' = [state EXCEPT ![p] = IF @ = "in" THEN "ended" ELSE @]
  /\ UNCHANGED <<sendVars, chanVars, peers, len, live, faults, own>>

Sender ==
  \/ TakeRequest \/ OpenFirst \/ OpenTimeout \/ Stream \/ StreamFails \/ SliceExtraPeers \/ StartCopy
  \/ TransferOK \/ TransferCancelled \/ ContextDone
Copy(c) == OpenCopy(c) \/ StreamCopy(c) \/ CopyGivesUp(c)
Receiver(c) ==
  \/ Feed(c) \/ Lock(c) \/ Finished(c) \/ SessionOver(c)
  \/ Save(c) \/ SaveUnseen(c) \/ SaveFails(c)
Control(p) == HandleLeave(p) \/ ControlClosed(p) \/ HandleClose(p)

Next ==
  /\ phase # "panic"
  /\ \/ \E r \in Requests, k \in Kinds : Enqueue(r, k)
     \/ Sender
     \/ \E c \in Chans : Copy(c) \/ Receiver(c) \/ OpenLate(c)
     \/ \E p \in Peers : LeavePeer(p) \/ ExitPeer(p) \/ Control(p)
     \/ CloseSession

Spec == Init /\ [][Next]_vars

\* Goroutines and callbacks run; nobody has to send, leave, exit or close, and a channel
\* that was given up need not open.
FairSpec ==
  /\ Spec
  /\ WF_vars(Sender)
  /\ WF_vars(\E c \in Chans : Copy(c) \/ Receiver(c))

(***************************************************************************)
(* What is checked.                                                        *)
(***************************************************************************)
\* Types; and execTransfer has a request, a used channel a peer, an answer a stream.
TypeOK ==
  /\ peers \in [Peers -> Peers] /\ len \in 0 .. MaxPeers
  /\ kind \in [Requests -> Kinds \cup {None}] /\ queue \in Seq(Requests)
  /\ cur \in Requests \cup {None}
  /\ phase \in {"idle", "opening", "sending", "sent", "copying", "okwait", "panic"}
  /\ (phase \in {"idle", "panic"}) \/ cur # None
  /\ extra \in 0 .. MaxPeers - 1 /\ next \in 0 .. MaxPeers
  /\ answer \in [Requests -> {"none", "ok", "error"}]
  /\ to \in [Chans -> Peers \cup {None}]
  /\ chan \in [Chans -> {"none", "opening", "open", "sent", "dead"}]
  /\ \A c \in Chans : /\ chan[c] # "none" <=> to[c] # None
                      /\ fed[c] # "no" => chan[c] = "sent" /\ job[c] # "none"
  /\ fed \in [Chans -> {"no", "verified", "refused"}] /\ oks \subseteq Chans
  /\ job \in [Chans -> {"none", "new", "locked", "saving", "saved", "failed", "unseen", "over"}]
  /\ live \in BOOLEAN /\ state \in [Peers -> {"in", "ended", "exited"}]
  /\ notes \subseteq {"leave", "close"} \X Peers /\ own \subseteq Peers

\* req.done delivers success only for a file that the peer it was sent to has
\* verified: not for one the peer refused, nor when the peer went away before.
Verified == \A r \in Requests : answer[r] = "ok" => fed[<<r, 0>>] = "verified"

\* However peers go, time and again no request is waiting for its answer,
\* unless the session ends, a receiver refuses the file (its error frame is ignored,
\* the sender waits on), or the slice expression panics.
Waiting(r) == kind[r] # None /\ answer[r] = "none"
Stuck == ~live \/ phase = "panic" \/ \E c \in Chans : fed[c] = "refused"

\* docs/WASM.md: "the other side auto-downloads once verified".  The receiver reports
\* a file before its goroutine saves it and hands it over.  A file that the sender has
\* been told of is lost after that only if its receiver leaves, the session is ended,
\* the file cannot be saved, or the event is dropped because Events is full.
Lost(c) ==
  \/ job[c] \in {"failed", "unseen", "over"}
  \/ state[to[c]] = "exited" /\ job[c] # "saved"
SavedWhenOK ==
  \A r \in Requests :
    answer[r] = "ok" /\ Lost(<<r, 0>>) =>
      to[<<r, 0>>] \in own \/ ~live \/ job[<<r, 0>>] \in {"failed", "unseen"}

\* Verified files do not pile up at a receiver: time and again there is none that waits to
\* be saved and handed over, while its receiver is in the session and the sender has not
\* panicked.  What can hold recvMu until the session ends is the goroutine of a channel
\* that the sender has given up: the sender does not close it, and nothing else ends its
\* wait.
HeldUp(p) == \E d \in Chans : to[d] = p /\ chan[d] = "dead" /\ job[d] \in {"new", "locked"}
Delayed(c) ==
  /\ fed[c] = "verified" /\ job[c] \in {"new", "locked", "saving"}
  /\ state[to[c]] = "in" /\ ~HeldUp(to[c])
HandedOver == []<>((\A c \in Chans : ~Delayed(c)) \/ phase = "panic")
=============================================================================
