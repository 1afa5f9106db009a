----------------------------- MODULE RedisStore -----------------------------
(***************************************************************************)
(* The Redis slot store of internal/store/store.go as the hubs of one or   *)
(* more broker processes use it.  A slot lives under two keys, code:<code> *)
(* and slot:<id>, each with a time to live of its own.  Every store        *)
(* operation is split at its Redis commands: keys expire and other hubs'   *)
(* commands run in between, a command may fail before or after Redis has   *)
(* carried it out, and a process may crash, while Redis goes on.           *)
(* A hub serves one request at a time; a connection makes one request, so  *)
(* the slot it creates is named after it.  Relaying only reads the store.  *)
(***************************************************************************)
EXTENDS Slot

CONSTANTS
  Brokers, Conns, Codes, None,
  Home,         \* Home[c]: the process that connection c is on
  TTL,          \* store.New: ttl (--slot-ttl), in ticks: longer than a request takes
  DefaultTTL,   \* slot.DefaultTTL, the life that slot.New writes into ExpiresAt
  MaxAttempts,  \* maxCodeAttempts
  MaxFaults     \* bound: failing commands and crashes

ASSUME RedisAssumption ==
  /\ Home \in [Conns -> Brokers]
  /\ TTL \in Nat \ {0, 1} /\ DefaultTTL \in Nat \ {0}
  /\ MaxAttempts \in Nat \ {0} /\ MaxFaults \in Nat
  /\ None \notin Conns \cup Codes

VARIABLES
  code,      \* code[k]: the slot that code:<k> names and the ticks it has left, 0 if there is no key
  stored,    \* stored[id]: the JSON of slot:<id> and the ticks it has left
  fresh,     \* fresh[id]: ticks until the slot's ExpiresAt
  conns,     \* connections in some hub's map
  slotID,    \* conn.slotID
  moves,     \* moves[c]: 0 before c's request, 1 after it, 2 once it has said bye or gone
  task,      \* task[b]: what hub b is doing
  told,      \* told[c]: the code in the slot.created sent to c (history)
  hit,       \* codes deleted on behalf of another connection than their holder (history)
  faults

redis == <<code, stored>>
hubVars == <<conns, slotID, moves, told>>
vars == <<redis, fresh, hubVars, task, hit, faults>>

NoKey == [id |-> None, left |-> 0]
NoSlot == New(None, None, 0)
Idle == [op |-> "idle", at |-> "idle", c |-> None, code |-> None, id |-> None, sl |-> NoSlot, n |-> 0,
         ticks |-> 0]

HasCode(k) == code[k].left > 0
HasSlot(id) == stored[id].left > 0

Init ==
  /\ code = [k \in Codes |-> NoKey]
  /\ stored = [id \in Conns |-> [sl |-> NoSlot, left |-> 0]]
  /\ fresh = [id \in Conns |-> 0]
  /\ conns = Conns /\ slotID = [c \in Conns |-> None] /\ moves = [c \in Conns |-> 0]
  /\ task = [b \in Brokers |-> Idle]
  /\ told = [c \in Conns |-> None]
  /\ hit = {} /\ faults = 0

(***************************************************************************)
(* Redis.                                                                  *)
(***************************************************************************)
\* Mutant: SET without an expiry keeps the key for ever.
LifeNone(id) == TTL + 1

\* Mutant: the rest of the slot's own life instead of the store's ttl.
LifeRest(id) == fresh[id]

\* The time to live that Create and Update give to slot:<id>.
Life(id) == TTL

\* Mutant: SET code in place of SETNX.
ClaimAnyway(k, id) == code' = [code EXCEPT ![k] = [id |-> id, left |-> TTL]]

\* SETNX code:<k> takes effect only when the key is not there.
Claim(k, id) ==
  code' = IF HasCode(k) THEN code ELSE [code EXCEPT ![k] = [id |-> id, left |-> TTL]]

SetSlot(id, sl) == stored' = [stored EXCEPT ![id] = [sl |-> sl, left |-> Life(id)]]
DelSlot(id) == stored' = [stored EXCEPT ![id] = [sl |-> NoSlot, left |-> 0]]
DelCode(k) == code' = [code EXCEPT ![k] = NoKey]

Less(n) == IF n \in 1 .. TTL THEN n - 1 ELSE n

\* Time passes: what has no time left is gone.  A request takes seconds (the client's
\* timeouts) and a tick stands for minutes: at most one falls between its commands.
Tick ==
  /\ \A b \in Brokers : task[b].ticks = 0
  /\ task' = [b \in Brokers |-> IF task[b] = Idle THEN Idle ELSE [task[b] EXCEPT !.ticks = 1]]
  /\ code' = [k \in Codes |-> IF code[k].left <= 1 THEN NoKey ELSE [code[k] EXCEPT !.left = Less(@)]]
  /\ stored' = [id \in Conns |-> IF stored[id].left = 1 THEN [sl |-> NoSlot, left |-> 0]
                                 ELSE [stored[id] EXCEPT !.left = Less(@)]]
  /\ fresh' = [id \in Conns |-> IF fresh[id] = 0 THEN 0 ELSE fresh[id] - 1]
  /\ UNCHANGED <<hubVars, hit, faults>>

\* A command that fails, seen from the client; Redis may have carried it out.
Fails == faults < MaxFaults /\ faults' = faults + 1
Works == UNCHANGED faults

(***************************************************************************)
(* The hub takes a request.                                                *)
(***************************************************************************)
Begin(b, t) == task[b] = Idle /\ task' = [task EXCEPT ![b] = t]

\* createSlot: a fresh code and slot.New.
CreateSlot(c, k) ==
  /\ c \in conns /\ moves[c] = 0
  /\ Begin(Home[c], [Idle EXCEPT !.op = "create", !.at = "setnx", !.c = c, !.code = k, !.id = c,
                                 !.sl = New(k, c, 0), !.n = 1])
  /\ fresh' = [fresh EXCEPT ![c] = DefaultTTL]
  /\ moves' = [moves EXCEPT ![c] = 1]
  /\ UNCHANGED <<redis, conns, slotID, told, hit, faults>>

\* handleSlotJoin.  docs/ARCHITECTURE.md: "Two peers in the same slot must land on
\* the same server instance": the joiner got the code from somebody on its own.
JoinSlot(c, k) ==
  /\ c \in conns /\ moves[c] = 0
  /\ \E d \in Conns : told[d] = k /\ Home[d] = Home[c]
  /\ Begin(Home[c], [Idle EXCEPT !.op = "join", !.at = "getcode", !.c = c, !.code = k])
  /\ moves' = [moves EXCEPT ![c] = 1]
  /\ UNCHANGED <<redis, fresh, conns, slotID, told, hit, faults>>

\* handleDisconnect and handleBye: the connection leaves its slot; a disconnect
\* takes it out of the map, after a bye it is still there.
LeaveSlot(c, gone) ==
  /\ c \in conns /\ (gone \/ moves[c] = 1)
  /\ conns' = IF gone THEN conns \ {c} ELSE conns
  /\ IF slotID[c] = None
     THEN gone /\ task[Home[c]] = Idle /\ UNCHANGED task
     ELSE Begin(Home[c], [Idle EXCEPT !.op = "leave", !.at = "getslot", !.c = c, !.id = slotID[c]])
  /\ moves' = [moves EXCEPT ![c] = 2]
  /\ UNCHANGED <<redis, fresh, slotID, told, hit, faults>>

(***************************************************************************)
(* The commands of a task.                                                 *)
(***************************************************************************)
Goto(b, at) == task' = [task EXCEPT ![b].at = at]
Return(b) == task' = [task EXCEPT ![b] = Idle]

\* Store.Create, first command; createSlot tries another code when it is taken.
SetNX(b) ==
  LET t == task[b] IN
  /\ t.at = "setnx"
  /\ \/ /\ Works /\ Claim(t.code, t.id)
        /\ IF code' # code THEN Goto(b, "set") /\ UNCHANGED fresh
           ELSE IF t.n = MaxAttempts THEN Return(b) /\ UNCHANGED fresh
           ELSE /\ \E k \in Codes :
                     task' = [task EXCEPT ![b].code = k, ![b].sl = New(k, t.c, 0), ![b].n = @ + 1]
                /\ fresh' = [fresh EXCEPT ![t.id] = DefaultTTL]
     \/ Fails /\ (Claim(t.code, t.id) \/ UNCHANGED code) /\ Return(b) /\ UNCHANGED fresh
  /\ UNCHANGED <<stored, hubVars, hit>>

\* Second command, and slot.created; or the code key is taken back.
Set(b) ==
  LET t == task[b] IN
  /\ t.at = "set"
  /\ \/ /\ Works /\ SetSlot(t.id, t.sl) /\ Return(b)
        /\ slotID' = [slotID EXCEPT ![t.c] = t.id]
        /\ told' = [told EXCEPT ![t.c] = t.code]
     \/ /\ Fails /\ (SetSlot(t.id, t.sl) \/ UNCHANGED stored) /\ Goto(b, "undo")
        /\ UNCHANGED <<slotID, told>>
  /\ UNCHANGED <<code, fresh, conns, moves, hit>>

Undo(b) ==
  /\ task[b].at = "undo"
  /\ (Works /\ DelCode(task[b].code)) \/ (Fails /\ (DelCode(task[b].code) \/ UNCHANGED code))
  /\ Return(b)
  /\ UNCHANGED <<stored, fresh, hubVars, hit>>

\* GetByCode: the index, then the slot it names.
GetCode(b) ==
  LET k == task[b].code IN
  /\ task[b].at = "getcode"
  /\ \/ Works /\ HasCode(k) /\ task' = [task EXCEPT ![b].at = "getslot", ![b].id = code[k].id]
     \/ Works /\ ~HasCode(k) /\ Return(b)
     \/ Fails /\ Return(b)
  /\ UNCHANGED <<redis, fresh, hubVars, hit>>

\* What a handler makes of the slot it has read: Delete, Update or nothing.
Decide(t, sl) ==
  IF t.op = "join"
  THEN IF fresh[t.id] = 0 THEN [t EXCEPT !.at = "get"]
       ELSE IF CanJoin(sl) THEN [t EXCEPT !.at = "update", !.sl = Join(sl, t.c)]
       ELSE Idle
  ELSE IF IsInitiator(sl, t.c) THEN [t EXCEPT !.at = "get"]
       ELSE [t EXCEPT !.at = "update", !.sl = RemovePeer(sl, t.c)]

GetSlot(b) ==
  LET t == task[b] IN
  /\ t.at = "getslot"
  /\ \/ Works /\ HasSlot(t.id) /\ task' = [task EXCEPT ![b] = Decide(t, stored[t.id].sl)]
     \/ Works /\ ~HasSlot(t.id) /\ Return(b)
     \/ Fails /\ Return(b)
  /\ UNCHANGED <<redis, fresh, hubVars, hit>>

\* Store.Update: SET recreates a key that has expired meanwhile.  After a join the
\* initiator is told, or the slot deleted when this hub does not know it.
Update(b) ==
  LET t == task[b]
      i == t.sl.initiator
      here == i \in conns /\ Home[i] = b
  IN
  /\ t.at = "update"
  /\ \/ /\ Works /\ SetSlot(t.id, t.sl)
        /\ IF t.op = "join"
           THEN /\ slotID' = [slotID EXCEPT ![t.c] = t.id]
                /\ IF here THEN Return(b) ELSE Goto(b, "get")
           ELSE Return(b) /\ UNCHANGED slotID
     \/ /\ Fails /\ (SetSlot(t.id, t.sl) \/ UNCHANGED stored)
        /\ Return(b) /\ UNCHANGED slotID
  /\ UNCHANGED <<code, fresh, conns, moves, told, hit>>

\* Store.Delete: read the slot for its code, then a pipeline of two commands, which
\* another process may come between.
DeleteGet(b) ==
  LET t == task[b] IN
  /\ t.at = "get"
  /\ \/ Works /\ HasSlot(t.id)
              /\ task' = [task EXCEPT ![b].at = "delslot", ![b].code = stored[t.id].sl.code]
     \/ Works /\ ~HasSlot(t.id) /\ Return(b)
     \/ Fails /\ Return(b)
  /\ UNCHANGED <<redis, fresh, hubVars, hit>>

DeleteSlotKey(b) ==
  /\ task[b].at = "delslot"
  /\ \/ Works /\ DelSlot(task[b].id) /\ Goto(b, "delcode")
     \/ Fails /\ (DelSlot(task[b].id) \/ UNCHANGED stored) /\ Return(b)
  /\ hit' = IF task[b].id # task[b].c THEN hit \cup {task[b].code} ELSE hit
  /\ UNCHANGED <<code, fresh, hubVars>>

\* The code key goes, whichever slot it names by now.
DeleteCodeKey(b) ==
  LET t == task[b] IN
  /\ task[b].at = "delcode"
  /\ (Works /\ DelCode(t.code)) \/ (Fails /\ (DelCode(t.code) \/ UNCHANGED code))
  /\ hit' = IF HasCode(t.code) /\ code[t.code].id # t.c THEN hit \cup {t.code} ELSE hit
  /\ Return(b)
  /\ UNCHANGED <<stored, fresh, hubVars>>

\* A process dies with its connections and comes back; Redis does not notice.
Crash(b) ==
  /\ Fails
  /\ conns' = {c \in conns : Home[c] # b}
  /\ slotID' = [c \in Conns |-> IF Home[c] = b THEN None ELSE slotID[c]]
  /\ Return(b)
  /\ UNCHANGED <<redis, fresh, moves, told, hit>>

Step(b) ==
  \/ SetNX(b) \/ Set(b) \/ Undo(b) \/ GetCode(b) \/ GetSlot(b) \/ Update(b)
  \/ DeleteGet(b) \/ DeleteSlotKey(b) \/ DeleteCodeKey(b)

Next ==
  \/ \E c \in Conns, k \in Codes : CreateSlot(c, k) \/ JoinSlot(c, k)
  \/ \E c \in Conns, gone \in BOOLEAN : LeaveSlot(c, gone)
  \/ \E b \in Brokers : Step(b) \/ Crash(b)
  \/ Tick

Spec == Init /\ [][Next]_vars

\* Hubs run and time passes; nobody has to ask for anything.
FairSpec == Spec /\ WF_vars(Tick) /\ \A b \in Brokers : WF_vars(Step(b))

(***************************************************************************)
(* What is checked.                                                        *)
(***************************************************************************)
Ats == {"idle", "setnx", "set", "undo", "getcode", "getslot", "update", "get", "delslot", "delcode"}

\* Types; no key has more time to live than the store's ttl.
TypeOK ==
  /\ code \in [Codes -> [id : Conns \cup {None}, left : 0 .. TTL]]
  /\ \A k \in Codes : HasCode(k) <=> code[k].id # None
  /\ \A id \in Conns : stored[id].left \in 0 .. TTL /\ (HasSlot(id) <=> stored[id].sl.code # None)
  /\ fresh \in [Conns -> 0 .. DefaultTTL]
  /\ conns \subseteq Conns /\ moves \in [Conns -> 0 .. 2]
  /\ slotID \in [Conns -> Conns \cup {None}]
  /\ told \in [Conns -> Codes \cup {None}] /\ hit \subseteq Codes /\ faults \in 0 .. MaxFaults
  /\ \A b \in Brokers : task[b].at \in Ats /\ task[b].n \in 0 .. MaxAttempts

\* As long as no command has failed, a code that is found names a slot that is there,
\* except while the two keys are being written or deleted: the slot key, which only
\* Update refreshes, never expires before its code key.
NoDangling ==
  \A k \in Codes :
    HasCode(k) /\ ~HasSlot(code[k].id)
      => faults > 0 \/ \E b \in Brokers : task[b].code = k /\ task[b].at \in {"set", "delcode"}

\* By how much --slot-ttl falls short of the life that slot.created tells every client.
Shortfall == IF TTL < DefaultTTL THEN DefaultTTL - TTL ELSE 0

\* An initiator that is there and whose slot is younger than its own life and than the
\* store's ttl is found under the code it was told, whatever collides, fails or crashes
\* (Create's comment: a colliding code "can never silently re-point" it); unless a Delete
\* made for somebody else took it: that of a session which has outlived its code key, or
\* of a joiner that the reissued code led to another process.
CodeKept ==
  \A c \in conns :
    told[c] \in Codes \ hit /\ moves[c] = 1 /\ fresh[c] > Shortfall
      => HasCode(told[c]) /\ code[told[c]].id = c /\ HasSlot(c)

\* Nothing of a slot whose initiator is gone stays in Redis, though the process
\* crashed before it could delete the keys, or the commands failed.
Reaped ==
  <>[](\A id \in Conns \ conns : ~HasSlot(id) /\ \A k \in Codes : code[k].id # id)
=============================================================================
