-------------------------------- MODULE Slot --------------------------------
(***************************************************************************)
(* The rendezvous slot of internal/slot/slot.go as pure operators on a     *)
(* record.  PeerIDs is a Go slice that only ever grows at its end (Join)   *)
(* and is filtered in place (RemovePeer), and may hold one connection more *)
(* than once.  It is modelled as a function from join numbers to           *)
(* connections: the order of the numbers is the order of the slice, a join *)
(* takes the next number and a removal restricts the domain.               *)
(***************************************************************************)
EXTENDS Integers, FiniteSets

CONSTANTS
  DefaultMaxPeers,   \* slot.DefaultMaxPeers, 2 in the source
  MaxAllowedPeers    \* slot.MaxAllowedPeers, 10 in the source

ASSUME SlotLimits ==
  /\ DefaultMaxPeers \in Nat \ {0, 1}
  /\ MaxAllowedPeers \in Nat
  /\ DefaultMaxPeers <= MaxAllowedPeers

States == {"waiting", "active", "full", "closed"}

\* The participant limit a client asks for, forced into the supported range.
ClampMaxPeers(n) ==
  LET atLeast2 == IF n < 2 THEN DefaultMaxPeers ELSE n
  IN  IF atLeast2 > MaxAllowedPeers THEN MaxAllowedPeers ELSE atLeast2

New(code, initiator, maxPeers) ==
  [ code      |-> code,
    state     |-> "waiting",
    initiator |-> initiator,
    joins     |-> 0,                      \* join numbers handed out so far
    peers     |-> [n \in {} |-> initiator],
    maxPeers  |-> ClampMaxPeers(maxPeers),
    everFull  |-> FALSE ]

PeerNumbers(sl) == DOMAIN sl.peers

ConnectedCount(sl) == 1 + Cardinality(PeerNumbers(sl))

CanJoin(sl) ==
  /\ sl.state \notin {"closed", "full"}
  /\ ~ sl.everFull
  /\ ConnectedCount(sl) < sl.maxPeers

\* Join that marks a slot full without recording it in EverFull.
JoinForgetting(sl, peer) ==
  LET number == sl.joins + 1
      peers  == [n \in PeerNumbers(sl) \cup {number} |->
                   IF n = number THEN peer ELSE sl.peers[n]]
      full   == 1 + Cardinality(DOMAIN peers) >= sl.maxPeers
  IN  [sl EXCEPT !.joins = number,
                 !.peers = peers,
                 !.state = IF full THEN "full" ELSE "active"]

\* Join with its comparison off by one: a slot at its limit is not yet full.
JoinLateFull(sl, peer) ==
  LET number == sl.joins + 1
      peers  == [n \in PeerNumbers(sl) \cup {number} |->
                   IF n = number THEN peer ELSE sl.peers[n]]
      full   == 1 + Cardinality(DOMAIN peers) > sl.maxPeers
  IN  [sl EXCEPT !.joins    = number,
                 !.peers    = peers,
                 !.state    = IF full THEN "full" ELSE "active",
                 !.everFull = full \/ @]

\* The slot after a successful Join; the caller tests CanJoin.
Join(sl, peer) ==
  LET number == sl.joins + 1
      peers  == [n \in PeerNumbers(sl) \cup {number} |->
                   IF n = number THEN peer ELSE sl.peers[n]]
      full   == 1 + Cardinality(DOMAIN peers) >= sl.maxPeers
  IN  [sl EXCEPT !.joins    = number,
                 !.peers    = peers,
                 !.state    = IF full THEN "full" ELSE "active",
                 !.everFull = full \/ @]

RemovePeer(sl, peer) ==
  LET kept == {n \in PeerNumbers(sl) : sl.peers[n] # peer}
  IN  [sl EXCEPT !.peers = [n \in kept |-> sl.peers[n]],
                 !.state = IF ~ sl.everFull /\ 1 + Cardinality(kept) < sl.maxPeers
                             THEN IF kept = {} THEN "waiting" ELSE "active"
                             ELSE @]

IsInitiator(sl, c) == c = sl.initiator

HasPeer(sl, c) == \E n \in PeerNumbers(sl) : sl.peers[n] = c

IsMember(sl, c) == IsInitiator(sl, c) \/ HasPeer(sl, c)

\* How often c occurs in PeerIDs.
PeerCopies(sl, c) == Cardinality({n \in PeerNumbers(sl) : sl.peers[n] = c})

\* How often d occurs in the list OtherMembers(c) returns.
OtherMembers(sl, c, d) ==
  IF d = c THEN 0
  ELSE PeerCopies(sl, d) + (IF IsInitiator(sl, d) THEN 1 ELSE 0)

\* sl.PeerIDs[0] of a slot that has peers.
FirstPeer(sl) ==
  sl.peers[CHOOSE n \in PeerNumbers(sl) : \A k \in PeerNumbers(sl) : n <= k]
=============================================================================
