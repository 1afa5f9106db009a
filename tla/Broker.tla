------------------------------- MODULE Broker -------------------------------
(***************************************************************************)
(* The signaling broker of internal/broker/broker.go over the in-memory    *)
(* slot store of internal/store/store.go.                                  *)
(*                                                                         *)
(* Three kinds of goroutine run concurrently: one hub, which owns the      *)
(* connection map and the slots, and for every WebSocket connection a      *)
(* readPump and a writePump.  They share three hub channels (register,     *)
(* unregister, inbound) and one outbound channel per connection.  The hub  *)
(* selects any ready channel, so two messages of one connection that wait  *)
(* in different channels are handled in either order.                      *)
(*                                                                         *)
(* One hub handler is one action, since only the hub touches that state.   *)
(* A send on a closed Go channel panics even inside a select with default, *)
(* and ends the process: crashed records it and disables every action.     *)
(***************************************************************************)
EXTENDS Slot, Sequences

CONSTANTS
  Conns,            \* connections, each a fresh UUID that is never reused
  Hub,              \* the sender of the frames the broker itself writes
  Codes,            \* well-formed codes GenerateCode can return
  BadCode,          \* a code ValidateCode rejects
  Messages,         \* the client envelopes considered, a subset of Envelope
  Events,           \* the other inputs considered, a subset of AllEvents
  MaxRequests,      \* bound: slot.create and slot.join sent per connection
  MaxFailedJoins,   \* maxFailedJoins, 5 in the source
  RegisterCap, UnregisterCap, InboundCap,   \* 64, 64 and 256 in the source
  SendBufSize       \* sendBufSize, 16 in the source

\* A client envelope as far as the hub's handlers look into it.  "opaque" is a
\* pake, sdp or ice message, "bad" an unknown type, a malformed payload or a
\* protocol version mismatch: each is answered by an error and nothing else.
Envelope ==
       [type : {"slot.create"}, max : Int]
  \cup [type : {"slot.join"}, code : Codes \cup {BadCode}]
  \cup [type : {"targeted"}, target : Conns]
  \cup [type : {"opaque", "bye", "pong", "bad"}]

\* A frame that is not JSON, a WebSocket pong, a failed write, a slot's expiry.
AllEvents == {"badjson", "pong", "writefail", "ttl"}

ASSUME BrokerConstants ==
  /\ Hub \notin Conns
  /\ BadCode \notin Codes
  /\ Messages \subseteq Envelope
  /\ Events \subseteq AllEvents
  /\ MaxRequests \in Nat /\ MaxFailedJoins \in Nat
  /\ RegisterCap \in Nat /\ UnregisterCap \in Nat
  /\ InboundCap \in Nat /\ SendBufSize \in Nat

\* Slot id "" of a connection that belongs to no slot; ids count up from 1,
\* the n-th one standing for the n-th UUID.
NoSlot == 0

\* A frame of the broker itself, or a client's envelope it relays.
HubTypes == {"error", "slot.created", "slot.ready", "peer.joined", "peer.left", "bye"}

Frame == [type : HubTypes, from : {Hub}] \cup [type : {"relay"}, from : Conns]

IsSlot(sl) ==
  /\ sl \in [ code : Codes, state : States, initiator : Conns, joins : Nat,
              peers : [PeerNumbers(sl) -> Conns], maxPeers : Nat, everFull : BOOLEAN ]
  /\ PeerNumbers(sl) \subseteq 1..sl.joins

VARIABLES
  conns,        \* Broker.conns: the connections the hub knows
  register, unregister, inbound,   \* the hub's channels
  slotID,       \* conn.slotID
  failedJoins,  \* conn.failedJoins
  send,         \* conn.send, the outbound channel
  closed,       \* connections whose send channel has been closed
  reader,       \* state of readPump: "none", "reading", "exited"
  writer,       \* state of writePump: "none", "running", "done"
  deadline,     \* "expired" after recordFailedJoin, else "live"
  requests,     \* slot.create and slot.join envelopes read so far
  slots,        \* MemStore.slots: live slot ids to slots
  codes,        \* MemStore.codes: codes to slot ids
  issued,       \* slot ids generated so far
  expired,      \* live slots whose ExpiresAt has passed
  crashed       \* the process has panicked

pumps     == <<reader, writer, deadline, requests>>
storeVars == <<slots, codes, issued, expired>>
connVars  == <<slotID, failedJoins>>
vars == <<conns, register, unregister, inbound, connVars, send, closed,
          pumps, storeVars, crashed>>

Init ==
  /\ conns = {}
  /\ register = <<>> /\ unregister = <<>> /\ inbound = <<>>
  /\ slotID = [c \in Conns |-> NoSlot]
  /\ failedJoins = [c \in Conns |-> 0]
  /\ send = [c \in Conns |-> <<>>]
  /\ closed = {}
  /\ reader = [c \in Conns |-> "none"]
  /\ writer = [c \in Conns |-> "none"]
  /\ deadline = [c \in Conns |-> "live"]
  /\ requests = [c \in Conns |-> 0]
  /\ slots = [i \in {} |-> {}]
  /\ codes = [k \in {} |-> NoSlot]
  /\ issued = 0
  /\ expired = {}
  /\ crashed = FALSE

-----------------------------------------------------------------------------
(* Outbound frames.                                                        *)

\* enqueue that does not look at the room left in the buffer.
FillUnbounded(q, frame, n) == q \o [i \in 1..n |-> frame]

\* enqueue: n copies of a frame, dropped once the buffer is full.
Fill(q, frame, n) ==
  LET room == SendBufSize - Len(q)
  IN  q \o [i \in 1..(IF n < room THEN n ELSE room) |-> frame]

To(queues, c, type) ==
  [queues EXCEPT ![c] = Fill(@, [type |-> type, from |-> Hub], 1)]

\* One frame for every occurrence, in OtherMembers(c), of a connection of `to`
\* that the hub knows.
ToMembers(queues, sl, c, to, type) ==
  [d \in Conns |->
     Fill(queues[d], [type |-> type, from |-> Hub],
          IF d \in conns \cap to THEN OtherMembers(sl, c, d) ELSE 0)]

\* A handler's answer to the connection whose message it handles.
Reply(c, type) ==
  /\ crashed' = (c \in closed)
  /\ send' = IF c \in closed THEN send ELSE To(send, c, type)

-----------------------------------------------------------------------------
(* The in-memory store.                                                    *)

Put(f, k, v) == [x \in DOMAIN f \cup {k} |-> IF x = k THEN v ELSE f[x]]
Drop(f, k)   == [x \in DOMAIN f \ {k} |-> f[x]]

Create(id, sl) ==
  /\ sl.code \notin DOMAIN codes
  /\ slots' = Put(slots, id, sl)
  /\ codes' = Put(codes, sl.code, id)
  /\ issued' = id
  /\ UNCHANGED expired

Update(id, sl) ==
  /\ slots' = Put(slots, id, sl)
  /\ UNCHANGED <<codes, issued, expired>>

\* MemStore.Delete that leaves the code index alone.
DeleteSlotOnly(id) ==
  /\ slots' = Drop(slots, id)
  /\ expired' = expired \ {id}
  /\ UNCHANGED <<codes, issued>>

Delete(id) ==
  /\ codes' = IF id \in DOMAIN slots THEN Drop(codes, slots[id].code) ELSE codes
  /\ slots' = Drop(slots, id)
  /\ expired' = expired \ {id}
  /\ UNCHANGED issued

-----------------------------------------------------------------------------
(* Hub handlers: c is the connection and m the envelope taken from inbound. *)

handleSlotCreate(c, m) ==
  \/ \* createSlot found a free code within maxCodeAttempts
     /\ \E code \in Codes : Create(issued + 1, New(code, c, m.max))
     /\ slotID' = [slotID EXCEPT ![c] = issued + 1]
     /\ Reply(c, "slot.created")
     /\ UNCHANGED <<failedJoins, deadline>>
  \/ \* GenerateCode failed, or every attempt met a taken code
     /\ Reply(c, "error")
     /\ UNCHANGED <<connVars, deadline, storeVars>>

\* validateJoinRequest rejects the code and recordFailedJoin counts it.
recordFailedJoin(c) ==
  LET last  == failedJoins[c] + 1 >= MaxFailedJoins
      error == To(send, c, "error")
  IN  /\ failedJoins' = [failedJoins EXCEPT ![c] = @ + 1]
      /\ crashed' = (c \in closed)
      /\ send' = CASE c \in closed -> send
                   [] c \notin closed /\ last  -> To(error, c, "error")
                   [] c \notin closed /\ ~last -> error
      /\ deadline' = IF last THEN [deadline EXCEPT ![c] = "expired"] ELSE deadline
      /\ UNCHANGED <<slotID, storeVars>>

\* The frames of a successful join; sl is the slot before it, now the one after.
notifyJoinedPeers(c, sl, now) ==
  LET toJoiner    == To(send, c, "slot.ready")
      toInitiator == To(toJoiner, sl.initiator, "peer.joined")
      toOthers    == ToMembers(toInitiator, sl, c, Conns \ {sl.initiator}, "peer.joined")
  IN  IF Cardinality(PeerNumbers(now)) = 1
        THEN To(toOthers, sl.initiator, "slot.ready")
        ELSE toOthers

handleSlotJoin(c, m) ==
  \/ /\ m.code \notin DOMAIN codes
     /\ recordFailedJoin(c)
  \/ /\ m.code \in DOMAIN codes
     /\ UNCHANGED <<failedJoins, deadline>>
     /\ LET id  == codes[m.code]
            sl  == slots[id]
            now == Join(sl, c)
        IN  \/ /\ id \in expired
               /\ Delete(id)
               /\ Reply(c, "error")
               /\ UNCHANGED slotID
            \/ /\ id \notin expired
               /\ ~ CanJoin(sl)
               /\ Reply(c, "error")
               /\ UNCHANGED <<slotID, storeVars>>
            \/ /\ id \notin expired
               /\ CanJoin(sl)
               /\ slotID' = [slotID EXCEPT ![c] = id]
               /\ IF sl.initiator \in conns
                    THEN /\ Update(id, now)
                         /\ crashed' = (c \in closed)
                         /\ send' = IF c \in closed THEN send
                                    ELSE notifyJoinedPeers(c, sl, now)
                    ELSE /\ Delete(id)
                         /\ Reply(c, "error")

\* relay that trusts the target a client names.
RelayTargetsUnchecked(c, m, sl) ==
  IF m.type = "targeted" THEN {m.target} ELSE {sl.initiator}

\* The connection a relayed envelope is meant for, if there is one.
RelayTargets(c, m, sl) ==
  CASE m.type = "targeted" -> IF IsMember(sl, m.target) THEN {m.target} ELSE {}
    [] m.type = "opaque" /\ ~ IsInitiator(sl, c) -> {sl.initiator}
    [] m.type = "opaque" /\ IsInitiator(sl, c) ->
         IF PeerNumbers(sl) = {} THEN {} ELSE {FirstPeer(sl)}

relay(c, m) ==
  /\ UNCHANGED <<connVars, deadline, storeVars>>
  /\ IF slotID[c] \notin DOMAIN slots
       THEN Reply(c, "error")        \* no slot yet, or the slot is gone
       ELSE LET to == RelayTargets(c, m, slots[slotID[c]]) \cap conns
            IN  IF to = {} /\ m.type = "opaque"
                  THEN Reply(c, "error")
                  ELSE /\ send' = [d \in Conns |->
                                     IF d \in to
                                       THEN Fill(send[d], [type |-> "relay", from |-> c], 1)
                                       ELSE send[d]]
                       /\ UNCHANGED crashed

\* Leaving that only updates the slot, even when the initiator goes.
LeaveSlotOpen(c, sl, type) ==
  LET left == RemovePeer(sl, c)
  IN  /\ send' = ToMembers(send, left, c, Conns, type)
      /\ Update(slotID[c], left)

\* Leaving a slot, gracefully or not: sl is the slot c's slotID names.
LeaveSlot(c, sl, type) ==
  LET left == RemovePeer(sl, c)
  IN  /\ send' = ToMembers(send, left, c, Conns, type)
      /\ IF IsInitiator(sl, c) THEN Delete(slotID[c]) ELSE Update(slotID[c], left)

handleBye(c) ==
  /\ UNCHANGED <<connVars, deadline, crashed>>
  /\ IF slotID[c] \in DOMAIN slots
       THEN LeaveSlot(c, slots[slotID[c]], "bye")
       ELSE UNCHANGED <<send, storeVars>>

handleMessage(c, m) ==
  \/ m.type = "slot.create" /\ handleSlotCreate(c, m)
  \/ m.type = "slot.join"   /\ handleSlotJoin(c, m)
  \/ m.type \in {"targeted", "opaque"} /\ relay(c, m)
  \/ m.type = "bye" /\ handleBye(c)
  \/ /\ m.type = "pong"
     /\ UNCHANGED <<connVars, deadline, send, storeVars, crashed>>
  \/ /\ m.type = "bad"
     /\ Reply(c, "error")
     /\ UNCHANGED <<connVars, deadline, storeVars>>

\* handleDisconnect that closes the channel but keeps the connection in the map.
DisconnectKeepsConn(c) ==
  IF c \notin conns
    THEN UNCHANGED <<conns, closed, send, storeVars>>
    ELSE /\ closed' = closed \cup {c}
         /\ UNCHANGED conns
         /\ IF slotID[c] \in DOMAIN slots
              THEN LeaveSlot(c, slots[slotID[c]], "peer.left")
              ELSE UNCHANGED <<send, storeVars>>

\* handleDisconnect that never calls close.
DisconnectKeepsOpen(c) ==
  IF c \notin conns
    THEN UNCHANGED <<conns, closed, send, storeVars>>
    ELSE /\ conns' = conns \ {c}
         /\ UNCHANGED closed
         /\ IF slotID[c] \in DOMAIN slots
              THEN LeaveSlot(c, slots[slotID[c]], "peer.left")
              ELSE UNCHANGED <<send, storeVars>>

handleDisconnect(c) ==
  IF c \notin conns
    THEN UNCHANGED <<conns, closed, send, storeVars>>
    ELSE /\ conns' = conns \ {c}
         /\ closed' = closed \cup {c}
         /\ IF slotID[c] \in DOMAIN slots
              THEN LeaveSlot(c, slots[slotID[c]], "peer.left")
              ELSE UNCHANGED <<send, storeVars>>

-----------------------------------------------------------------------------
(* The hub's select: each case takes the oldest message of one channel.    *)

HubRegister ==
  /\ register # <<>>
  /\ conns' = conns \cup {Head(register)}
  /\ register' = Tail(register)
  /\ UNCHANGED <<unregister, inbound, connVars, send, closed, pumps, storeVars, crashed>>

HubUnregister ==
  /\ unregister # <<>>
  /\ handleDisconnect(Head(unregister))
  /\ unregister' = Tail(unregister)
  /\ UNCHANGED <<register, inbound, connVars, pumps, crashed>>

HubInbound ==
  /\ inbound # <<>>
  /\ handleMessage(Head(inbound)[1], Head(inbound)[2])
  /\ inbound' = Tail(inbound)
  /\ UNCHANGED <<conns, register, unregister, closed, reader, writer, requests>>

-----------------------------------------------------------------------------
(* Connections and their pumps.                                            *)

ServeHTTP(c) ==
  /\ reader[c] = "none"
  /\ Len(register) < RegisterCap
  /\ register' = Append(register, c)
  /\ reader' = [reader EXCEPT ![c] = "reading"]
  /\ writer' = [writer EXCEPT ![c] = "running"]
  /\ UNCHANGED <<conns, unregister, inbound, connVars, send, closed, deadline,
                 requests, storeVars, crashed>>

IsRequest(m) == m.type \in {"slot.create", "slot.join"}

\* readPump hands an envelope to the hub.  Frames already buffered by the
\* WebSocket reader are still delivered after the read deadline has expired.
ReadMessage(c, m) ==
  /\ reader[c] = "reading"
  /\ Len(inbound) < InboundCap
  /\ IsRequest(m) => requests[c] < MaxRequests
  /\ inbound' = Append(inbound, <<c, m>>)
  /\ requests' = IF IsRequest(m) THEN [requests EXCEPT ![c] = @ + 1] ELSE requests
  /\ UNCHANGED <<conns, register, unregister, connVars, send, closed, reader,
                 writer, deadline, storeVars, crashed>>

\* readPump answers a frame that is not JSON without asking the hub.
ReadBadJSON(c) ==
  /\ "badjson" \in Events
  /\ reader[c] = "reading"
  /\ Reply(c, "error")
  /\ UNCHANGED <<conns, register, unregister, inbound, connVars, closed, pumps, storeVars>>

PongHandler(c) ==
  /\ "pong" \in Events
  /\ reader[c] = "reading"
  /\ deadline' = [deadline EXCEPT ![c] = "live"]
  /\ UNCHANGED <<conns, register, unregister, inbound, connVars, send, closed,
                 reader, writer, requests, storeVars, crashed>>

\* ReadMessage fails: the client went away or the read deadline expired.
ReadPumpReturn(c) ==
  /\ reader[c] = "reading"
  /\ Len(unregister) < UnregisterCap
  /\ unregister' = Append(unregister, c)
  /\ reader' = [reader EXCEPT ![c] = "exited"]
  /\ UNCHANGED <<conns, register, inbound, connVars, send, closed, writer,
                 deadline, requests, storeVars, crashed>>

WritePumpDrain(c) ==
  /\ writer[c] = "running"
  /\ send[c] # <<>>
  /\ send' = [send EXCEPT ![c] = Tail(@)]
  /\ UNCHANGED <<conns, register, unregister, inbound, connVars, closed, pumps,
                 storeVars, crashed>>

\* writePump ends when the channel is closed and drained, or when a write or a
\* ping fails; either way it closes the socket.
WritePumpReturn(c) ==
  /\ writer[c] = "running"
  /\ (c \in closed /\ send[c] = <<>>) \/ "writefail" \in Events
  /\ writer' = [writer EXCEPT ![c] = "done"]
  /\ UNCHANGED <<conns, register, unregister, inbound, connVars, send, closed,
                 reader, deadline, requests, storeVars, crashed>>

\* ExpiresAt, fixed when the slot was made, passes.
Expire(id) ==
  /\ "ttl" \in Events
  /\ id \in DOMAIN slots \ expired
  /\ expired' = expired \cup {id}
  /\ UNCHANGED <<conns, register, unregister, inbound, connVars, send, closed,
                 pumps, slots, codes, issued, crashed>>

HubStep == HubRegister \/ HubUnregister \/ HubInbound

PumpStep(c) ==
  \/ ServeHTTP(c)
  \/ \E m \in Messages : ReadMessage(c, m)
  \/ ReadBadJSON(c) \/ PongHandler(c) \/ ReadPumpReturn(c)
  \/ WritePumpDrain(c) \/ WritePumpReturn(c)

Next ==
  /\ ~ crashed
  /\ HubStep \/ (\E c \in Conns : PumpStep(c)) \/ (\E id \in DOMAIN slots : Expire(id))

Spec == Init /\ [][Next]_vars

-----------------------------------------------------------------------------
(* Fairness.  A channel case of the hub that stays ready is eventually     *)
(* chosen, because Go's select picks among the ready cases at random; the  *)
(* goroutines of a connection are scheduled; a read whose deadline has     *)
(* expired, or whose socket writePump has closed, eventually fails.        *)
(* Clients promise nothing.                                                *)

SocketUnreadable(c) ==
  /\ deadline[c] = "expired" \/ writer[c] = "done"
  /\ ReadPumpReturn(c)

WritePumpFinish(c) ==
  /\ c \in closed /\ send[c] = <<>>
  /\ WritePumpReturn(c)

Fairness ==
  /\ WF_vars(~ crashed /\ HubRegister)
  /\ WF_vars(~ crashed /\ HubUnregister)
  /\ WF_vars(~ crashed /\ HubInbound)
  /\ \A c \in Conns :
       /\ WF_vars(~ crashed /\ SocketUnreadable(c))
       /\ WF_vars(~ crashed /\ WritePumpDrain(c))
       /\ WF_vars(~ crashed /\ WritePumpFinish(c))

FairSpec == Spec /\ Fairness

-----------------------------------------------------------------------------
(* Properties.                                                             *)

QueuesOK(queues) ==
  /\ queues \in [Conns -> Seq(Frame)]
  /\ \A c \in Conns : Len(queues[c]) <= SendBufSize

ChannelTypes ==
  /\ conns \subseteq Conns /\ closed \subseteq Conns
  /\ register \in Seq(Conns) /\ Len(register) <= RegisterCap
  /\ unregister \in Seq(Conns) /\ Len(unregister) <= UnregisterCap
  /\ inbound \in Seq(Conns \X Envelope) /\ Len(inbound) <= InboundCap

ConnTypes ==
  /\ slotID \in [Conns -> Nat]
  /\ failedJoins \in [Conns -> Nat]
  /\ reader \in [Conns -> {"none", "reading", "exited"}]
  /\ writer \in [Conns -> {"none", "running", "done"}]
  /\ deadline \in [Conns -> {"live", "expired"}]
  /\ requests \in [Conns -> Nat]

StoreTypes ==
  /\ issued \in Nat
  /\ DOMAIN slots \subseteq 1..issued
  /\ \A id \in DOMAIN slots : IsSlot(slots[id])
  /\ DOMAIN codes \subseteq Codes
  /\ expired \subseteq DOMAIN slots

\* Every variable keeps its type and no channel exceeds its capacity.
TypeOK ==
  ChannelTypes /\ ConnTypes /\ QueuesOK(send) /\ StoreTypes /\ crashed \in BOOLEAN

\* MemStore keeps its two maps in step: each code leads to the live slot that
\* carries it, and every live slot can be found by its own code, so no code is
\* ever re-pointed at another session or left dangling (Create, Delete).
CodeIndex ==
  /\ \A k \in DOMAIN codes : codes[k] \in DOMAIN slots /\ slots[codes[k]].code = k
  /\ \A id \in DOMAIN slots :
       slots[id].code \in DOMAIN codes /\ codes[slots[id].code] = id

\* A stored slot is what its history says (slot.go's lifecycle): within its
\* limit, full exactly when it ever reached the limit, waiting exactly when it
\* is open and empty, and never stored closed.
Shape(sl) ==
  /\ sl.maxPeers \in 2..MaxAllowedPeers
  /\ ConnectedCount(sl) <= sl.maxPeers
  /\ ConnectedCount(sl) = sl.maxPeers => sl.everFull
  /\ sl.state = IF sl.everFull THEN "full"
                ELSE IF PeerNumbers(sl) = {} THEN "waiting" ELSE "active"

\* Every slot of the store has that shape.
SlotShape == \A id \in DOMAIN slots : Shape(slots[id])

\* Once full, a slot stays full and only ever loses peers: EverFull keeps it
\* closed to new joins after somebody left (slot.go, Join and RemovePeer).
FullIsForever ==
  [][\A id \in DOMAIN slots :
       (slots[id].state = "full" /\ id \in DOMAIN slots')
         => /\ slots'[id].state = "full"
            /\ PeerNumbers(slots'[id]) \subseteq PeerNumbers(slots[id])]_vars

\* The hub routes only to open channels: no connection in its map has had its
\* send channel closed, and a channel is closed only after its readPump has
\* returned.  So neither routing nor readPump's own error frame can panic, only
\* a handler's answer to a connection already torn down (enqueue, conn.close).
RoutesToOpen ==
  /\ conns \cap closed = {}
  /\ \A c \in closed : reader[c] = "exited"

\* relay never crosses sessions: while every client sends a single create or
\* join, a relayed frame waiting at d was sent by a connection of d's own slot.
RelayIsolation ==
  \A d \in Conns : \A i \in DOMAIN send[d] :
    send[d][i].type = "relay"
      => /\ slotID[d] # NoSlot
         /\ slotID[send[d][i].from] = slotID[d]

\* No slot outlives a member the hub has torn down: whoever is still listed in
\* a live slot is in the hub's map or waits to be registered, unless the
\* process has panicked (handleDisconnect, handleBye, handleSlotJoin).
NoGhostMember ==
  crashed \/
    \A id \in DOMAIN slots : \A c \in Conns :
      IsMember(slots[id], c)
        => c \in conns \/ \E i \in DOMAIN register : register[i] = c

\* A connection the hub knows and whose readPump has returned is eventually
\* torn down and its socket closed by writePump, unless the process panics
\* (readPump's deferred unregister, conn.close).
TornDown ==
  \A c \in Conns :
    (c \in conns /\ \E i \in DOMAIN unregister : unregister[i] = c)
      ~> (crashed \/ (c \in closed /\ writer[c] = "done"))

\* conn.close says that closing the channel is enough because readPump has
\* exited: no handler ever sends on a closed channel.
NoPanic == ~ crashed
=============================================================================
