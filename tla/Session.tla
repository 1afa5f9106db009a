------------------------------ MODULE Session -------------------------------
(* A live multi-peer session (internal/session): the initiator is the hub of *)
(* a star, each joiner has one control channel to it.  Modelled here: who is *)
(* in the session, the participant counts, text messages and their relay,    *)
(* announced names, and every way to leave: Close, Leave, the idle timer, a  *)
(* process that exits.  File transfers are in SessionFiles.                  *)
(*                                                                           *)
(* A control channel is a FIFO queue in each direction.  An end that has not *)
(* yet registered its handlers (wirePeer) loses what arrives.  Callbacks of  *)
(* different channels run concurrently with each other and with AddPeer.     *)
EXTENDS Integers, Sequences, FiniteSets, FiniteSetsExt

CONSTANTS
  Initiator,   \* the participant that created the slot
  Joiners,     \* the participants that join it
  MaxEvents,   \* bound: texts and names sent, by everyone together, and participants
               \* whose Events have been full or whose Run is returning after its timer
  None

ASSUME InitiatorAssumption == Initiator \notin Joiners /\ None \notin Joiners \cup {Initiator}
ASSUME JoinersAssumption == IsFiniteSet(Joiners)

Everyone == Joiners \cup {Initiator}

VARIABLES
  pend,      \* pend[j]: the peer count in j's peer.joined, 0 before it joins
  first,     \* the joiner whose peer.joined came first, or None
  state,     \* state[x]: "out", "in", "idle" (timer fired, Run is returning),
             \* "ended" (context cancelled), "gone" (process)
  peers,     \* the initiator's s.peers; their order does not matter here
  hub,       \* hub[j]: is the initiator in j's s.peers?
  count,     \* count[x]: s.peerCount
  toI, toJ,  \* toI[j], toJ[j]: the control channel between j and the initiator
  wired,     \* joiners whose channel the initiator handles
  closed,    \* joiners taken out by OnClose, the others still to be told
  busy,      \* busy[j]: j announced its name, the roster is still to be updated
  roster,    \* the initiator's s.roster: who has announced a name
  knows,     \* knows[x]: whose name x has been shown
  shown,     \* shown[x]: the text messages x was shown, with their senders
  sent,      \* sent[x]: texts x has sent
  named,     \* who has announced a name (history)
  slow,      \* whose Events were full when something was emitted (history)
  missed,    \* joiners that lost or were refused a frame (history)
  closing    \* joiners that were to be told of a Close (history)

roomVars == <<state, peers, hub, count>>
linkVars == <<toI, toJ, missed>>
textVars == <<busy, roster, knows, shown, sent, named, slow>>
vars == <<pend, first, roomVars, linkVars, wired, closed, textVars, closing>>

Live(x) == state[x] \in {"in", "idle", "ended"}

\* The context of x is not cancelled: its handlers emit events.
Active(x) == state[x] \in {"in", "idle"}

Events(lapsed) ==
  MapThenSumSet(LAMBDA x : sent[x], Everyone) + Cardinality(named) + Cardinality(lapsed)
Lapsed == slow \cup {x \in Everyone : state[x] = "idle"}
MayLapse(x) == Events(Lapsed \cup {x}) <= MaxEvents
MaySpeak == Events(Lapsed) < MaxEvents

\* controlDC.Send by the initiator to the joiners in js, frame by frame.  A joiner
\* whose session has ended still has its handlers, but emit drops their events.
SendTo(js, frames) ==
  /\ toJ' = [j \in Joiners |-> IF j \in js /\ Active(j) THEN toJ[j] \o frames ELSE toJ[j]]
  /\ missed' = missed \cup {j \in js : state[j] = "out"}
SendAll(js, frames) == SendTo(js, frames) /\ toI' = toI

\* controlDC.Send by joiner j, if the initiator is still in its s.peers.
SendHub(j, frame, inbox) ==
  LET heard == hub[j] /\ Live(Initiator) /\ j \in wired IN
  /\ toI' = IF heard THEN [toI EXCEPT ![j] = Append(@, frame)] ELSE toI
  /\ missed' = IF j \in wired THEN missed ELSE missed \cup {j}
  /\ toJ' = [toJ EXCEPT ![j] = inbox]

\* Mutant: the count is not kept from falling below the participant itself.
AtLeastNothing(n) == n

AtLeastOne(n) == IF n > 1 THEN n ELSE 1

Init ==
  /\ pend = [j \in Joiners |-> 0] /\ first = None
  /\ state = [x \in Everyone |-> "out"]
  /\ peers = {} /\ hub = [j \in Joiners |-> FALSE]
  /\ count = [x \in Everyone |-> 1]
  /\ toI = [j \in Joiners |-> <<>>] /\ toJ = [j \in Joiners |-> <<>>]
  /\ wired = {} /\ closed = {} /\ busy = [j \in Joiners |-> FALSE]
  /\ roster = {} /\ knows = [x \in Everyone |-> {}]
  /\ shown = [x \in Everyone |-> <<>>] /\ sent = [x \in Everyone |-> 0]
  /\ named = {} /\ slow = {} /\ missed = {} /\ closing = {}

(***************************************************************************)
(* Joining.                                                                *)
(***************************************************************************)
\* The broker puts j into the slot and tells the initiator how many there are:
\* itself, the initiator, and those that joined, less the ones it knows have left.
SlotJoin(j) ==
  LET joined == {k \in Joiners : pend[k] > 0}
      left == {k \in joined : state[k] \in {"idle", "ended", "gone"}} IN
  /\ pend[j] = 0 /\ state[Initiator] \in {"out", "in"}
  /\ \E known \in 0 .. Cardinality(left) :
       pend' = [pend EXCEPT ![j] = Cardinality(joined) - known + 2]
  /\ first' = IF first = None THEN j ELSE first
  /\ UNCHANGED <<roomVars, linkVars, wired, closed, textVars, closing>>

\* The joiner's handshake is done: session.New, the count of slot.ready, Run.
NewJoiner(j) ==
  /\ state[j] = "out" /\ pend[j] > 0 /\ state[Initiator] # "gone"
  /\ state' = [state EXCEPT ![j] = "in"]
  /\ hub' = [hub EXCEPT ![j] = TRUE]
  /\ count' = [count EXCEPT ![j] = pend[j]]
  /\ UNCHANGED <<pend, first, peers, linkVars, wired, closed, textVars, closing>>

\* AddPeer (New and AddPeerInfo for the first): the count is the broker's, as it
\* was when the peer joined.
AddPeer(j) ==
  /\ pend[j] > 0 /\ j \notin wired /\ state[Initiator] # "gone"
  /\ wired = {} => j = first
  /\ state' = IF wired = {} THEN [state EXCEPT ![Initiator] = "in"] ELSE state
  /\ peers' = peers \cup {j}
  /\ wired' = wired \cup {j}
  /\ count' = [count EXCEPT ![Initiator] = pend[j]]
  /\ IF wired = {}
     THEN UNCHANGED linkVars
     ELSE SendAll(peers', <<[type |-> "count", n |-> pend[j]]>>)
  /\ UNCHANGED <<pend, first, hub, closed, textVars, closing>>

(***************************************************************************)
(* Sending.                                                                *)
(***************************************************************************)
\* SendMessage of a text.
SendText(x) ==
  /\ state[x] = "in" /\ MaySpeak
  /\ sent' = [sent EXCEPT ![x] = @ + 1]
  /\ LET m == [type |-> "msg", body |-> <<x, sent'[x]>>] IN
     IF x = Initiator THEN SendAll(peers, <<m>>) ELSE SendHub(x, m, toJ[x])
  /\ UNCHANGED <<pend, first, roomVars, wired, closed, busy, roster, knows, shown, named, slow,
                 closing>>

\* SendMessage of a name: the initiator keeps its own in the roster.
SendName(x) ==
  /\ state[x] = "in" /\ x \notin named /\ MaySpeak
  /\ named' = named \cup {x}
  /\ LET m == [type |-> "name", of |-> x] IN
     IF x = Initiator
     THEN roster' = roster \cup {x} /\ SendAll(peers, <<m>>)
     ELSE roster' = roster /\ SendHub(x, m, toJ[x])
  /\ UNCHANGED <<pend, first, roomVars, wired, closed, busy, knows, shown, sent, slow, closing>>

(***************************************************************************)
(* handleControlFrame at the initiator, for the channel of j.              *)
(***************************************************************************)
Receives(j, type) ==
  /\ Live(Initiator) /\ j \in wired /\ ~busy[j]
  /\ toI[j] # <<>> /\ Head(toI[j]).type = type

\* Mutant: the relay does not leave out the sender.
OthersWithSender(j) == peers

Others(j) == peers \ {j}

\* The frames after the initiator has taken one from j and sent some to js.
TakeAndSend(j, js, frames) ==
  /\ toI' = [toI EXCEPT ![j] = Tail(@)]
  /\ SendTo(js, frames)

\* emit: the event is queued, or dropped when the context is cancelled or Events, which
\* the consumer of x empties at its own pace, is full.
Drop(x) ==
  \/ ~ Active(x) /\ slow' = slow
  \/ Active(x) /\ MayLapse(x) /\ slow' = slow \cup {x}
Show(x, m) ==
  \/ Active(x) /\ shown' = [shown EXCEPT ![x] = Append(@, m)] /\ slow' = slow
  \/ shown' = shown /\ Drop(x)
Learn(x, who) ==
  \/ Active(x) /\ knows' = [knows EXCEPT ![x] = @ \cup who] /\ slow' = slow
  \/ knows' = knows /\ Drop(x)

\* handleIncomingMessage: show, then relay with the sender's id.
HubText(j) ==
  /\ Receives(j, "msg")
  /\ LET m == Head(toI[j]).body IN
     /\ Show(Initiator, m)
     /\ TakeAndSend(j, Others(j), <<[type |-> "relay", from |-> j, body |-> m]>>)
  /\ UNCHANGED <<pend, first, roomVars, wired, closed, busy, roster, knows, sent, named, closing>>

\* handleIncomingMessage of a name, up to the relay.
HubName(j) ==
  /\ Receives(j, "name")
  /\ Learn(Initiator, {j})
  /\ TakeAndSend(j, Others(j), <<[type |-> "name", of |-> j]>>)
  /\ busy' = [busy EXCEPT ![j] = TRUE]
  /\ UNCHANGED <<pend, first, roomVars, wired, closed, roster, shown, sent, named, closing>>

\* updateRosterAndReply: j gets the names of the others.
HubRoster(j) ==
  /\ busy[j] /\ Live(Initiator)
  /\ busy' = [busy EXCEPT ![j] = FALSE]
  /\ roster' = roster \cup {j}
  /\ IF roster \ {j} = {}
     THEN UNCHANGED linkVars
     ELSE SendAll({j}, <<[type |-> "roster", names |-> roster \ {j}]>>)
  /\ UNCHANGED <<pend, first, roomVars, wired, closed, knows, shown, sent, named, slow, closing>>

\* Mutant: the name of a peer that leaves stays in the roster.
ForgetNot(j) == roster

\* Both departure handlers drop the name as well.
Forget(j) == roster \ {j}

\* What the initiator tells those who stay when j is gone.
LeaveFrames(n) == <<[type |-> "count", n |-> n], [type |-> "left"]>>

\* handleParticipantLeave: drop j, count one less, tell the others.
HubLeave(j) ==
  /\ Receives(j, "leave")
  /\ LET n == AtLeastOne(count[Initiator] - 1) IN
     /\ peers' = peers \ {j}
     /\ count' = [count EXCEPT ![Initiator] = n]
     /\ TakeAndSend(j, Others(j), LeaveFrames(n))
  /\ roster' = Forget(j)
  /\ UNCHANGED <<pend, first, state, hub, wired, closed, busy, knows, shown, sent, named, slow,
                 closing>>

\* controlDC.OnClose at the initiator: j is taken out of s.peers, unless a leave has
\* done that already.  What had not arrived by then is lost.
HubOnClose(j) ==
  /\ Live(Initiator) /\ j \in wired /\ ~busy[j] /\ state[j] = "gone"
  /\ j \in peers
  /\ toI' = [toI EXCEPT ![j] = <<>>]
  /\ peers' = peers \ {j}
  /\ count' = [count EXCEPT ![Initiator] = AtLeastOne(@ - 1)]
  /\ closed' = closed \cup {j}
  /\ UNCHANGED <<pend, first, state, hub, toJ, missed, wired, textVars, closing>>

\* The rest of OnClose, after the lock is released: drop the name and tell the
\* others, or end the session when there are none (any more, or yet).
HubClosed(j) ==
  /\ Live(Initiator) /\ j \in closed
  /\ closed' = closed \ {j}
  /\ roster' = Forget(j)
  /\ IF peers = {}
     THEN state' = [state EXCEPT ![Initiator] = "ended"] /\ UNCHANGED linkVars
     ELSE SendAll(peers, LeaveFrames(count[Initiator])) /\ UNCHANGED state
  /\ UNCHANGED <<pend, first, peers, hub, count, wired, busy, knows, shown, sent, named, slow,
                 closing>>

(***************************************************************************)
(* handleControlFrame at joiner j.                                         *)
(***************************************************************************)
Takes(j, type) ==
  /\ Active(j) /\ toJ[j] # <<>> /\ Head(toJ[j]).type = type
  /\ toJ' = [toJ EXCEPT ![j] = Tail(@)]
  /\ UNCHANGED <<toI, missed, pend, first, wired, closed, peers, busy, roster, sent, named,
                 closing>>

\* handleIncomingMessage and handleRelayedMessage of a text.
JoinerText(j) ==
  /\ Takes(j, "msg") \/ Takes(j, "relay")
  /\ Show(j, Head(toJ[j]).body)
  /\ UNCHANGED <<state, hub, count, knows>>

JoinerName(j) ==
  /\ \/ Takes(j, "name") /\ Learn(j, {Head(toJ[j]).of})
     \/ Takes(j, "roster") /\ Learn(j, Head(toJ[j]).names)
  /\ UNCHANGED <<state, hub, count, shown>>

JoinerCount(j) ==
  /\ Takes(j, "count")
  /\ count' = [count EXCEPT ![j] = Head(toJ[j]).n]
  /\ UNCHANGED <<state, hub, knows, shown, slow>>

\* handleRelayedMessage of the system's leave note.
JoinerLeft(j) ==
  /\ Takes(j, "left")
  /\ count' = [count EXCEPT ![j] = AtLeastOne(@ - 1)]
  /\ UNCHANGED <<state, hub, knows, shown, slow>>

\* Mutant: the end of the session is shown but the context is not cancelled.
EndJoinerNot(j) == state

EndJoiner(j) == [state EXCEPT ![j] = "ended"]

JoinerClose(j) ==
  /\ Takes(j, "close")
  /\ state' = EndJoiner(j)
  /\ UNCHANGED <<hub, count, knows, shown, slow>>

\* handleParticipantLeave of the initiator: nobody is left, the session goes on.
JoinerHubLeaves(j) ==
  /\ Takes(j, "leave")
  /\ hub' = [hub EXCEPT ![j] = FALSE]
  /\ count' = [count EXCEPT ![j] = AtLeastOne(@ - 1)]
  /\ UNCHANGED <<state, knows, shown, slow>>

\* controlDC.OnClose at a joiner, unless the initiator is already out of s.peers.
JoinerOnClose(j) ==
  /\ Active(j) /\ state[Initiator] = "gone" /\ hub[j]
  /\ hub' = [hub EXCEPT ![j] = FALSE]
  /\ count' = [count EXCEPT ![j] = AtLeastOne(@ - 1)]
  /\ state' = EndJoiner(j)
  /\ toJ' = [toJ EXCEPT ![j] = <<>>]
  /\ UNCHANGED <<pend, first, peers, toI, missed, wired, closed, textVars, closing>>

(***************************************************************************)
(* Leaving.                                                                *)
(***************************************************************************)
\* One frame to every peer, and x is on its way out.
Part(x, frame, as) ==
  /\ state[x] = "in"
  /\ state' = [state EXCEPT ![x] = as]
  /\ IF x = Initiator THEN SendAll(peers, <<frame>>) ELSE SendHub(x, frame, <<>>)
  /\ closing' = IF frame.type = "close" THEN closing \cup peers ELSE closing
  /\ UNCHANGED <<pend, first, peers, hub, count, wired, closed, textVars>>

\* Close, or Leave: the context is cancelled.
Close == Part(Initiator, [type |-> "close"], "ended")
Leave(x) == Part(x, [type |-> "leave"], "ended")

\* The idle timer of Run: nothing has moved on x's channels for a long time.  Run has
\* returned, but its deferred calls come first: handlers go on and emit.
Idle(x) ==
  /\ MayLapse(x)
  /\ \A j \in Joiners : j = x \/ x = Initiator => toI[j] = <<>> /\ toJ[j] = <<>>
  /\ Part(x, [type |-> IF x = Initiator THEN "close" ELSE "leave"], "idle")

\* The last deferred call of Run: cancel.
RunReturned(x) ==
  /\ state[x] = "idle"
  /\ state' = [state EXCEPT ![x] = "ended"]
  /\ toJ' = IF x = Initiator THEN toJ ELSE [toJ EXCEPT ![x] = <<>>]
  /\ UNCHANGED <<pend, first, peers, hub, count, toI, missed, wired, closed, textVars, closing>>

\* The process exits or the tab is closed: what is on its way to it is lost, and its count
\* goes with its memory.  So ends an event that a handler emits when Run has closed Events
\* but not yet cancelled: emit sends on a closed channel.
Exit(x) ==
  /\ Live(x)
  /\ state' = [state EXCEPT ![x] = "gone"]
  /\ count' = [count EXCEPT ![x] = 1]
  /\ IF x = Initiator
     THEN busy' = [j \in Joiners |-> FALSE] /\ toI' = [j \in Joiners |-> <<>>] /\ toJ' = toJ
     ELSE toJ' = [toJ EXCEPT ![x] = <<>>] /\ UNCHANGED <<busy, toI>>
  /\ UNCHANGED <<pend, first, peers, hub, missed, wired, closed, roster, knows, shown, sent,
                 named, slow, closing>>

Hub(j) ==
  HubText(j) \/ HubName(j) \/ HubRoster(j) \/ HubLeave(j) \/ HubOnClose(j) \/ HubClosed(j)
Joiner(j) ==
  \/ JoinerText(j) \/ JoinerName(j) \/ JoinerCount(j) \/ JoinerLeft(j)
  \/ JoinerClose(j) \/ JoinerHubLeaves(j) \/ JoinerOnClose(j)

Next ==
  \/ \E j \in Joiners : SlotJoin(j) \/ NewJoiner(j) \/ AddPeer(j)
  \/ \E j \in Joiners : Hub(j) \/ Joiner(j)
  \/ \E x \in Everyone : SendText(x) \/ SendName(x) \/ Leave(x) \/ Exit(x)
  \/ \E x \in Everyone : Idle(x) \/ RunReturned(x)
  \/ Close

Spec == Init /\ [][Next]_vars

(***************************************************************************)
(* What is checked.                                                        *)
(***************************************************************************)
Frame ==
       [type : {"msg"}, body : Everyone \X Nat]
  \cup [type : {"relay"}, from : Joiners, body : Everyone \X Nat]
  \cup [type : {"name"}, of : Everyone]
  \cup [type : {"roster"}, names : SUBSET Everyone]
  \cup [type : {"count"}, n : Nat \ {0}]
  \cup [type : {"left", "leave", "close"}]

\* The session's fields and queues are well typed.
TypeOK ==
  /\ pend \in [Joiners -> Nat] /\ first \in Joiners \cup {None}
  /\ state \in [Everyone -> {"out", "in", "idle", "ended", "gone"}]
  /\ peers \subseteq Joiners /\ hub \in [Joiners -> BOOLEAN]
  /\ count \in [Everyone -> Nat \ {0}]
  /\ toI \in [Joiners -> Seq(Frame)] /\ toJ \in [Joiners -> Seq(Frame)]
  /\ wired \subseteq Joiners /\ closed \subseteq Joiners
  /\ busy \in [Joiners -> BOOLEAN] /\ roster \subseteq Everyone
  /\ knows \in [Everyone -> SUBSET Everyone]
  /\ shown \in [Everyone -> Seq(Everyone \X Nat)] /\ sent \in [Everyone -> Nat]
  /\ named \subseteq Everyone /\ slow \subseteq Everyone /\ missed \subseteq Joiners /\ closing \subseteq Joiners

\* Through the star, with peers joining and leaving under the relay, nobody is
\* shown a text of their own, and everyone is shown the texts of each other
\* participant at most once and in the order they were sent.
RelayedOnce ==
  \A x \in Everyone : \A i \in 1 .. Len(shown[x]) :
    /\ shown[x][i][1] # x
    /\ \A k \in 1 .. i - 1 :
         shown[x][k][1] = shown[x][i][1] => shown[x][k][2] < shown[x][i][2]

\* No frame is under way and no handler has anything to do.
Settled ==
  \A j \in Joiners :
    /\ Live(Initiator) => /\ toI[j] = <<>> /\ ~busy[j] /\ j \notin closed
                          /\ state[j] = "gone" => j \notin peers
    /\ Active(j) => toJ[j] = <<>> /\ (state[Initiator] = "gone" => ~hub[j])

\* j is in the session, at both ends, and has missed nothing that was sent.
Present(j) == state[Initiator] = "in" /\ state[j] = "in" /\ j \in peers /\ j \notin missed

\* The roster, from which late joiners learn who is there, names nobody who has left,
\* but while OnClose is running for him.  Once everything has been handled it names
\* every joiner who is present and has announced a name, and each of them and the
\* initiator know each other's name, unless their own Events have been full.
RosterCurrent ==
  /\ roster \subseteq peers \cup {Initiator} \cup closed
  /\ Settled => \A j \in named : Present(j) =>
       /\ j \in roster
       /\ j \in knows[Initiator] \/ Initiator \in slow
       /\ Initiator \in named => Initiator \in knows[j] \/ j \in slow

\* After a Close (or the initiator's idle timer), once everything has been handled,
\* no peer it knew is still in the session, even if the process exits right away.
ClosedForAll == Settled => \A j \in closing : state[j] = "in" => j \in missed
=============================================================================
