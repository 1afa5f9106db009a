-------------------------- MODULE ScheduleProofs --------------------------
(***************************************************************************)
(* Proofs about ScheduleStore, for any number of handlers, uploads, files, *)
(* chunks, limits and crashes, on one device or two, and for any client.   *)
(*                                                                         *)
(* The download limit is not inductive.  What carries it is a budget: what *)
(* has been served and what the meta on disk still grants never exceed the *)
(* limit together, and the holder of the lock has taken its number from    *)
(* such a meta (Counting).  That an upload becomes one file rests on       *)
(* data.enc as a token: it is made once, before its id is announced, and   *)
(* whoever moves it away has claimed the upload (Claims).  Both need to    *)
(* know what a process in the middle of an operation holds (JobShape,      *)
(* History).                                                               *)
(*                                                                         *)
(* The second half is about the files: what has been published stays       *)
(* readable until it may go, what Delete has reported gone is gone, and    *)
(* what the project's own clients upload is what can be downloaded.  It    *)
(* rests on the first half and on: who removes a file has a reason that    *)
(* lasts, and has listed its data.enc if it is there (Removals); who       *)
(* publishes one has put it there (Moves); the counter on disk grants all  *)
(* that the limit leaves, so that one of zero means used up (Ledger); and  *)
(* a client with one request at a time has its chunks in data.enc as far   *)
(* as they were acknowledged (Requests, Contents).                         *)
(***************************************************************************)
EXTENDS ScheduleStore, SequenceTheorems, TLAPS

Limit(f) == want[origin[f]].limit

\* What a process in the middle of an operation holds.
Shape(j) ==
  /\ j.op = "idle" => j.pc = "idle"
  /\ j.op = "init" => j.pc \in {"write", "create"} /\ j.upload \in Uploads
  /\ j.op = "chunk" => /\ j.pc \in {"append", "truncate", "write"}
                       /\ j.upload \in Uploads /\ j.n \in Nat
  /\ j.op = "finalize" => /\ j.pc \in {"rename", "copy", "remove", "truncate", "write",
                                       "list", "unlink"}
                          /\ j.upload \in Uploads /\ j.file \in Files
  /\ j.op = "download" => j.pc \in {"open", "truncate", "write"} /\ j.file \in Files
  /\ j.op \in {"delete", "cleanComplete"} => j.pc \in {"list", "unlink"} /\ j.file \in Files
  /\ j.op = "cleanPending" => j.pc \in {"list", "unlink"} /\ j.upload \in Uploads

JobShape == \A p \in Procs : Shape(job[p])

\* Ids and limits: an id is announced after its upload is complete, a file comes
\* from an announced upload, and no two processes create the same one.
History ==
  /\ published \subseteq used
  /\ \A u \in Uploads : u \in told => u \in known
  /\ \A f \in used : origin[f] \in Uploads /\ origin[f] \in told
  /\ \A u \in known : Cap > 0 => want[u].limit > 0 /\ want[u].limit <= Cap
  /\ \A p \in Procs : job[p].op = "init" => job[p].upload \in known /\ job[p].upload \notin told
  /\ \A p, q \in Procs :
       job[p].op = "init" /\ job[q].op = "init" /\ job[p].upload = job[q].upload => p = q
  /\ \A p \in Procs :
       job[p].op = "finalize" =>
         /\ job[p].file \in used /\ origin[job[p].file] = job[p].upload
         /\ job[p].pc \notin {"list", "unlink"} => job[p].file \notin published
  /\ \A p, q \in Procs :
       job[p].op = "finalize" /\ job[q].op = "finalize" /\ job[p].file = job[q].file => p = q

\* Downloads granted and downloads still to grant stay within the limit.
Counting ==
  /\ \A f \in Files : f \notin published => cMeta[f] # "ok" /\ served[f] = 0
  /\ \A f \in published :
       Limit(f) > 0 => /\ served[f] <= Limit(f)
                       /\ cMeta[f] = "ok" => left[f] >= 0 /\ served[f] + left[f] <= Limit(f)
  /\ \A p \in Procs :
       job[p].op = "download" =>
         /\ lock = p /\ job[p].file \in published
         /\ job[p].pc # "open" => job[p].n > 0
         /\ Limit(job[p].file) > 0 =>
              job[p].n > 0 /\ served[job[p].file] + job[p].n <= Limit(job[p].file)

\* A finalizer that has moved data.enc away.
Moved(p) == job[p].op = "finalize" /\ job[p].pc \in {"truncate", "write"}

\* Who has moved data.enc away is the only one to publish the upload.
Claims ==
  /\ SinglePublication
  /\ \A f \in published : origin[f] \notin pEnc
  /\ \A p \in Procs :
       Moved(p) => /\ job[p].upload \notin pEnc
                   /\ \A f \in published : origin[f] # job[p].upload
  /\ \A p, q \in Procs : Moved(p) /\ Moved(q) /\ job[p].upload = job[q].upload => p = q

IInv == TypeOK /\ JobShape /\ History /\ Counting /\ Claims


-----------------------------------------------------------------------------
(* How the steps of a process change its job and leave the others alone.   *)

\* The other processes stay where they are.
OthersStay(p) == \A q \in Procs : q # p => job'[q] = job[q]

\* A function keeps its type when one of its values is replaced.
LEMMA PutFact ==
  ASSUME NEW S, NEW T, NEW g \in [S -> T], NEW x \in S, NEW y \in T
  PROVE  [g EXCEPT ![x] = y] \in [S -> T]
OBVIOUS

\* The contents of a new data.enc.
LEMMA EmptyFact == <<>> \in Seq(Nat)
OBVIOUS

\* The values jobs and metas are made of.
LEMMA NamesFact ==
  /\ {"idle", "init", "chunk", "finalize", "download", "delete"} \subseteq Ops
  /\ {"cleanComplete", "cleanPending"} \subseteq Ops
  /\ {"idle", "write", "create", "append", "truncate", "rename"} \subseteq Labels
  /\ {"copy", "remove", "list", "unlink", "open"} \subseteq Labels
  /\ {"absent", "torn", "ok"} \subseteq MetaStates
BY DEF Ops, Labels, MetaStates

\* Handlers are processes, and so is the cleaner.
LEMMA ProcsFact == Workers \subseteq Procs /\ Cleaner \in Procs
BY DEF Procs

\* The idle job is a job.
LEMMA IdleFact == Idle \in Job /\ Idle.op = "idle" /\ Idle.pc = "idle"
BY DEF Idle, Job, Ops, Labels

\* Goto moves one process and changes nothing else of its job.
LEMMA GotoFact ==
  ASSUME job \in [Procs -> Job], NEW p \in Procs, NEW pc \in Labels, Goto(p, pc)
  PROVE  /\ job' \in [Procs -> Job] /\ OthersStay(p)
         /\ job'[p].op = job[p].op /\ job'[p].pc = pc
         /\ job'[p].upload = job[p].upload /\ job'[p].file = job[p].file
         /\ job'[p].n = job[p].n
BY DEF Goto, Job, OthersStay

\* Return makes one process idle.
LEMMA ReturnFact ==
  ASSUME job \in [Procs -> Job], NEW p \in Procs, Return(p)
  PROVE  /\ job' \in [Procs -> Job] /\ OthersStay(p)
         /\ job'[p].op = "idle" /\ job'[p].pc = "idle"
BY IdleFact DEF Return, OthersStay

\* A request begins: one process gets a job.
LEMMA BeginFact ==
  ASSUME job \in [Procs -> Job], NEW p \in Procs, NEW op \in Ops, NEW pc \in Labels,
         NEW u \in Uploads \cup {None}, NEW f \in Files \cup {None}, NEW n \in Int,
         Begin(p, op, pc, u, f, n)
  PROVE  /\ job' \in [Procs -> Job] /\ OthersStay(p)
         /\ job'[p].op = op /\ job'[p].pc = pc
         /\ job'[p].upload = u /\ job'[p].file = f /\ job'[p].n = n
<1>. DEFINE j == [op |-> op, pc |-> pc, upload |-> u, file |-> f, n |-> n, names |-> {}]
<1>1. j \in Job
  BY DEF Job
<1>2. job' = [job EXCEPT ![p] = j]
  BY DEF Begin
<1>3. job' \in [Procs -> Job] /\ OthersStay(p) /\ job'[p] = j
  <2>. HIDE DEF j
  <2>. QED  BY <1>1, <1>2 DEF OthersStay
<1>. QED  BY <1>3

\* The shape of the jobs is kept when the one that changed has it.
LEMMA ShapeFact ==
  ASSUME JobShape, NEW p \in Procs, OthersStay(p), Shape(job'[p])
  PROVE  JobShape'
BY DEF JobShape, OthersStay

\* The limit that handleUploadInit stores respects the server's cap.
LEMMA ClampFact ==
  ASSUME NEW n \in Int
  PROVE  /\ ClampDownloads(n) \in Nat
         /\ Cap > 0 => ClampDownloads(n) > 0 /\ ClampDownloads(n) <= Cap
BY ScheduleConstants DEF ClampDownloads


-----------------------------------------------------------------------------
(* Every step preserves the invariant: upload.                             *)

\* InitUpload draws a fresh id and a limit within the cap.
LEMMA InitUploadStep ==
  ASSUME IInv, NEW w \in Workers, NEW u \in Uploads, NEW chunks \in Totals,
         NEW limit \in Requested, InitUpload(w, u, chunks, limit)
  PROVE  IInv'
<1>. USE ScheduleConstants, ProcsFact DEF IInv
<1>1. /\ written' = written /\ pEnc' = pEnc /\ pData' = pData /\ cDir' = cDir
      /\ cMeta' = cMeta /\ left' = left /\ cEnc' = cEnc /\ cData' = cData
      /\ told' = told /\ acked' = acked /\ ended' = ended /\ origin' = origin
      /\ used' = used /\ published' = published /\ served' = served /\ doomed' = doomed
      /\ deleted' = deleted /\ expired' = expired /\ stale' = stale
      /\ crashes' = crashes /\ broken' = broken /\ lock' = lock /\ pass' = pass
  BY DEF InitUpload, pendingVars, completeVars, clientVars, fileVars, timeVars
<1>2. /\ job' \in [Procs -> Job] /\ OthersStay(w)
      /\ job'[w].op = "init" /\ job'[w].pc = "write" /\ job'[w].upload = u
      /\ u \notin known /\ known' = known \cup {u}
      /\ want' = [want EXCEPT ![u] = [chunks |-> chunks, limit |-> ClampDownloads(limit)]]
      /\ pDir' = pDir \cup {u} /\ pMeta' = [pMeta EXCEPT ![u] = "torn"]
  BY BeginFact, NamesFact DEF InitUpload, TypeOK
<1>3. TypeOK'
  BY <1>1, <1>2, ClampFact, ZenonT(40) DEF TypeOK, MetaStates
<1>4. JobShape'
  BY <1>1, <1>2, ShapeFact DEF Shape
<1>5. History'
  <2>1. limit \in Int /\ known \subseteq Uploads
    BY <1>2 DEF TypeOK
  <2>2. Cap > 0 => ClampDownloads(limit) > 0 /\ ClampDownloads(limit) <= Cap
    BY <2>1, ClampFact
  <2>3. want'[u].limit = ClampDownloads(limit) /\ \A v \in known : want'[v] = want[v]
    BY <1>2, <2>1 DEF TypeOK
  <2>4. \A v \in known' : Cap > 0 => want'[v].limit > 0 /\ want'[v].limit <= Cap
    BY <1>2, <2>2, <2>3 DEF History
  <2>. QED  BY <1>1, <1>2, <2>4 DEF History, OthersStay
<1>6. Counting'
  <2>1. \A f \in published : want'[origin[f]].limit = want[origin[f]].limit
    BY <1>1, <1>2 DEF History, TypeOK
  <2>2. \A p \in Procs : job'[p].op = "download" => p # w
    BY <1>2
  <2>. QED  BY <1>1, <1>2, <2>1, <2>2 DEF Counting, Limit, OthersStay
<1>7. Claims'
  BY <1>1, <1>2 DEF Claims, Moved, SinglePublication, OthersStay
<1>. QED  BY <1>3, <1>4, <1>5, <1>6, <1>7

\* CreateEnc makes data.enc before its id is announced.
LEMMA CreateEncStep ==
  ASSUME IInv, NEW w \in Workers, CreateEnc(w)
  PROVE  IInv'
<1>. USE ScheduleConstants, ProcsFact DEF IInv
<1>1. /\ pDir' = pDir /\ pMeta' = pMeta /\ written' = written /\ cDir' = cDir
      /\ cMeta' = cMeta /\ left' = left /\ cEnc' = cEnc /\ cData' = cData
      /\ want' = want /\ known' = known /\ acked' = acked /\ origin' = origin
      /\ used' = used /\ published' = published /\ served' = served /\ doomed' = doomed
      /\ deleted' = deleted /\ expired' = expired /\ stale' = stale
      /\ crashes' = crashes /\ broken' = broken /\ lock' = lock /\ pass' = pass
  BY DEF CreateEnc, pendingVars, completeVars, clientVars, fileVars, timeVars, Fail
<1>2. /\ job[w].op = "init" /\ job[w].upload \in Uploads
      /\ job' \in [Procs -> Job] /\ OthersStay(w)
      /\ job'[w].op = "idle" /\ job'[w].pc = "idle"
      /\ \/ /\ pEnc' = pEnc \cup {job[w].upload} /\ told' = told \cup {job[w].upload}
            /\ ended' = ended
         \/ pEnc' = pEnc /\ told' = told /\ ended' = ended \cup {job[w].upload}
  <2>1. /\ job[w].op = "init" /\ job[w].upload \in Uploads /\ job \in [Procs -> Job]
    BY DEF CreateEnc, At, JobShape, Shape, TypeOK
  <2>2. Return(w)
    BY DEF CreateEnc, Fail
  <2>. QED  BY <2>1, <2>2, ReturnFact DEF CreateEnc, Fail
<1>3. pData' \in [Uploads -> Seq(Nat)]
  <2>1. pData \in [Uploads -> Seq(Nat)]
    BY DEF TypeOK
  <2>2. [pData EXCEPT ![job[w].upload] = <<>>] \in [Uploads -> Seq(Nat)]
    BY <1>2, <2>1, EmptyFact, PutFact
  <2>. QED  BY <2>1, <2>2 DEF CreateEnc
<1>4. TypeOK'
  BY <1>1, <1>2, <1>3 DEF TypeOK
<1>5. JobShape'
  BY <1>1, <1>2, ShapeFact DEF Shape
<1>6. History'
  BY <1>1, <1>2 DEF History, OthersStay
<1>7. Counting'
  BY <1>1, <1>2 DEF Counting, Limit, OthersStay
<1>8. Claims'
  BY <1>1, <1>2 DEF Claims, Moved, SinglePublication, History, OthersStay
<1>. QED  BY <1>4, <1>5, <1>6, <1>7, <1>8

\* AppendChunk begins, or is refused.
LEMMA AppendChunkStep ==
  ASSUME IInv, NEW w \in Workers, NEW u \in Uploads,
         NEW i \in 0..MaxChunks, AppendChunk(w, u, i)
  PROVE  IInv'
<1>. USE ScheduleConstants, ProcsFact DEF IInv
<1>1. /\ pDir' = pDir /\ pMeta' = pMeta /\ written' = written /\ pEnc' = pEnc
      /\ pData' = pData /\ cDir' = cDir /\ cMeta' = cMeta /\ left' = left
      /\ cEnc' = cEnc /\ cData' = cData /\ want' = want /\ known' = known
      /\ told' = told /\ acked' = acked /\ origin' = origin /\ used' = used
      /\ published' = published /\ served' = served /\ doomed' = doomed
      /\ deleted' = deleted /\ expired' = expired /\ stale' = stale
      /\ crashes' = crashes /\ broken' = broken /\ lock' = lock /\ pass' = pass
  BY DEF AppendChunk, pendingVars, completeVars, clientVars, fileVars, timeVars, Fail
<1>2. /\ job' \in [Procs -> Job] /\ OthersStay(w)
      /\ \/ /\ job'[w].op = "chunk" /\ job'[w].pc = "append" /\ job'[w].upload = u
            /\ job'[w].n \in Nat /\ ended' = ended
         \/ job'[w].op = "idle" /\ job'[w].pc = "idle" /\ ended' = ended \cup {u}
  <2>1. job \in [Procs -> Job] /\ i \in Nat
    BY DEF TypeOK
  <2>2. CASE Fail(w, u)
    BY <2>1, <2>2, ReturnFact DEF Fail
  <2>3. CASE Begin(w, "chunk", "append", u, None, i) /\ UNCHANGED clientVars
    BY <2>1, <2>3, BeginFact, NamesFact DEF clientVars
  <2>. QED  BY <2>2, <2>3 DEF AppendChunk
<1>3. TypeOK'
  BY <1>1, <1>2 DEF TypeOK
<1>4. JobShape'
  BY <1>1, <1>2, ShapeFact DEF Shape
<1>5. History'
  BY <1>1, <1>2 DEF History, OthersStay
<1>6. Counting'
  BY <1>1, <1>2 DEF Counting, Limit, OthersStay
<1>7. Claims'
  BY <1>1, <1>2 DEF Claims, Moved, SinglePublication, OthersStay
<1>. QED  BY <1>3, <1>4, <1>5, <1>6, <1>7

\* WriteChunk appends to data.enc, or fails when there is none.
LEMMA WriteChunkStep ==
  ASSUME IInv, NEW w \in Workers, WriteChunk(w)
  PROVE  IInv'
<1>. USE ScheduleConstants, ProcsFact DEF IInv
<1>1. /\ pDir' = pDir /\ pMeta' = pMeta /\ written' = written /\ pEnc' = pEnc
      /\ cDir' = cDir /\ cMeta' = cMeta /\ left' = left /\ cEnc' = cEnc
      /\ cData' = cData /\ want' = want /\ known' = known /\ told' = told
      /\ acked' = acked /\ origin' = origin /\ used' = used /\ published' = published
      /\ served' = served /\ doomed' = doomed /\ deleted' = deleted
      /\ expired' = expired /\ stale' = stale /\ crashes' = crashes /\ broken' = broken /\ lock' = lock
      /\ pass' = pass
  BY DEF WriteChunk, pendingVars, completeVars, clientVars, fileVars, timeVars, Fail
<1>2. /\ job[w].op = "chunk" /\ job[w].upload \in Uploads /\ job[w].n \in Nat
      /\ job' \in [Procs -> Job] /\ OthersStay(w)
      /\ \/ /\ job'[w].op = "chunk" /\ job'[w].pc = "truncate" /\ job'[w].upload \in Uploads
            /\ job'[w].n \in Nat /\ ended' = ended
         \/ /\ job'[w].op = "idle" /\ job'[w].pc = "idle"
            /\ ended' = ended \cup {job[w].upload}
  <2>1. /\ job[w].op = "chunk" /\ job[w].upload \in Uploads /\ job[w].n \in Nat
        /\ job \in [Procs -> Job]
    BY DEF WriteChunk, At, JobShape, Shape, TypeOK
  <2>2. CASE Fail(w, job[w].upload)
    BY <2>1, <2>2, ReturnFact DEF Fail
  <2>3. CASE Goto(w, "truncate") /\ UNCHANGED clientVars
    BY <2>1, <2>3, GotoFact, NamesFact DEF clientVars
  <2>. QED  BY <2>2, <2>3 DEF WriteChunk
<1>3. pData' \in [Uploads -> Seq(Nat)]
  <2>1. pData \in [Uploads -> Seq(Nat)]
    BY DEF TypeOK
  <2>2. Append(pData[job[w].upload], job[w].n) \in Seq(Nat)
    BY <1>2, <2>1
  <2>3. [pData EXCEPT ![job[w].upload] = Append(pData[job[w].upload], job[w].n)]
          \in [Uploads -> Seq(Nat)]
    BY <1>2, <2>1, <2>2, PutFact
  <2>. QED  BY <2>1, <2>3 DEF WriteChunk
<1>4. TypeOK'
  BY <1>1, <1>2, <1>3 DEF TypeOK
<1>5. JobShape'
  BY <1>1, <1>2, ShapeFact DEF Shape
<1>6. History'
  BY <1>1, <1>2 DEF History, OthersStay
<1>7. Counting'
  BY <1>1, <1>2 DEF Counting, Limit, OthersStay
<1>8. Claims'
  BY <1>1, <1>2 DEF Claims, Moved, SinglePublication, OthersStay
<1>. QED  BY <1>4, <1>5, <1>6, <1>7, <1>8

\* TruncatePendingMeta opens meta.json, or fails with the directory gone.
LEMMA TruncatePendingMetaStep ==
  ASSUME IInv, NEW w \in Workers, TruncatePendingMeta(w)
  PROVE  IInv'
<1>. USE ScheduleConstants, ProcsFact DEF IInv
<1>1. /\ pDir' = pDir /\ written' = written /\ pEnc' = pEnc /\ pData' = pData
      /\ cDir' = cDir /\ cMeta' = cMeta /\ left' = left /\ cEnc' = cEnc
      /\ cData' = cData /\ want' = want /\ known' = known /\ told' = told
      /\ acked' = acked /\ origin' = origin /\ used' = used /\ published' = published
      /\ served' = served /\ doomed' = doomed /\ deleted' = deleted
      /\ expired' = expired /\ stale' = stale /\ crashes' = crashes /\ broken' = broken /\ lock' = lock
      /\ pass' = pass
  BY DEF TruncatePendingMeta, pendingVars, completeVars, clientVars, fileVars, timeVars, Fail
<1>2. /\ job[w].op = "chunk" /\ job[w].upload \in Uploads
      /\ job' \in [Procs -> Job] /\ OthersStay(w)
      /\ pMeta' \in [Uploads -> MetaStates]
      /\ \/ /\ job'[w].op = "chunk" /\ job'[w].pc = "write" /\ job'[w].upload \in Uploads
            /\ job'[w].n \in Nat /\ ended' = ended
         \/ /\ job'[w].op = "idle" /\ job'[w].pc = "idle"
            /\ ended' = ended \cup {job[w].upload}
  <2>1. /\ job[w].op = "chunk" /\ job[w].upload \in Uploads /\ job[w].n \in Nat
        /\ job \in [Procs -> Job] /\ pMeta \in [Uploads -> MetaStates]
    BY DEF TruncatePendingMeta, At, JobShape, Shape, TypeOK
  <2>2. CASE Fail(w, job[w].upload) /\ UNCHANGED pMeta
    BY <2>1, <2>2, ReturnFact DEF Fail
  <2>3. CASE /\ Goto(w, "write") /\ UNCHANGED clientVars
             /\ pMeta' = [pMeta EXCEPT ![job[w].upload] = "torn"]
    <3>1. pMeta' \in [Uploads -> MetaStates]
      BY <2>1, <2>3, PutFact, NamesFact
    <3>. QED  BY <2>1, <2>3, <3>1, GotoFact, NamesFact DEF clientVars
  <2>. QED  BY <2>2, <2>3 DEF TruncatePendingMeta
<1>3. TypeOK'
  BY <1>1, <1>2 DEF TypeOK
<1>4. JobShape'
  BY <1>1, <1>2, ShapeFact DEF Shape
<1>5. History'
  BY <1>1, <1>2 DEF History, OthersStay
<1>6. Counting'
  BY <1>1, <1>2 DEF Counting, Limit, OthersStay
<1>7. Claims'
  BY <1>1, <1>2 DEF Claims, Moved, SinglePublication, OthersStay
<1>. QED  BY <1>3, <1>4, <1>5, <1>6, <1>7

\* WritePendingMeta ends a chunk request or goes on with an init.
LEMMA WritePendingMetaStep ==
  ASSUME IInv, NEW w \in Workers, WritePendingMeta(w)
  PROVE  IInv'
<1>. USE ScheduleConstants, ProcsFact DEF IInv
<1>1. /\ pDir' = pDir /\ pEnc' = pEnc /\ pData' = pData /\ cDir' = cDir
      /\ cMeta' = cMeta /\ left' = left /\ cEnc' = cEnc /\ cData' = cData
      /\ want' = want /\ known' = known /\ told' = told /\ ended' = ended
      /\ origin' = origin /\ used' = used /\ published' = published /\ served' = served
      /\ doomed' = doomed /\ deleted' = deleted /\ expired' = expired /\ stale' = stale
      /\ crashes' = crashes /\ broken' = broken /\ lock' = lock /\ pass' = pass
  BY DEF WritePendingMeta, pendingVars, completeVars, clientVars, fileVars, timeVars
<1>2. /\ job[w].upload \in Uploads
      /\ job' \in [Procs -> Job] /\ OthersStay(w)
      /\ \/ job[w].op = "chunk" /\ job'[w].op = "idle" /\ job'[w].pc = "idle"
         \/ /\ job[w].op = "init" /\ job'[w].op = "init" /\ job'[w].pc = "create"
            /\ job'[w].upload = job[w].upload
  <2>1. job[w].op \in {"init", "chunk"} /\ job[w].upload \in Uploads /\ job \in [Procs -> Job]
    BY DEF WritePendingMeta, JobShape, Shape, TypeOK
  <2>2. CASE job[w].op = "chunk" /\ Return(w)
    BY <2>1, <2>2, ReturnFact
  <2>3. CASE job[w].op = "init" /\ Goto(w, "create")
    BY <2>1, <2>3, GotoFact, NamesFact
  <2>. QED  BY <2>1, <2>2, <2>3 DEF WritePendingMeta
<1>3. /\ pMeta' \in [Uploads -> MetaStates]
      /\ written' \in [Uploads -> Nat] /\ acked' \in [Uploads -> Nat]
  <2>. DEFINE u == job[w].upload
              count == IF job[w].op = "chunk" THEN job[w].n + 1 ELSE 0
  <2>1. /\ pMeta \in [Uploads -> MetaStates]
        /\ written \in [Uploads -> Nat] /\ acked \in [Uploads -> Nat]
    BY DEF TypeOK
  <2>2. u \in Uploads /\ count \in Nat
    BY <1>2 DEF JobShape, Shape
  <2>3. /\ \/ pMeta' = pMeta /\ written' = written
           \/ /\ pMeta' = [pMeta EXCEPT ![u] = "ok"]
              /\ written' = [written EXCEPT ![u] = count]
        /\ \/ acked' = acked
           \/ acked' = [acked EXCEPT ![u] = count]
    BY DEF WritePendingMeta
  <2>. HIDE DEF u, count
  <2>4. /\ [pMeta EXCEPT ![u] = "ok"] \in [Uploads -> MetaStates]
        /\ [written EXCEPT ![u] = count] \in [Uploads -> Nat]
        /\ [acked EXCEPT ![u] = count] \in [Uploads -> Nat]
    BY <2>1, <2>2, PutFact, NamesFact
  <2>. QED  BY <2>1, <2>3, <2>4
<1>4. TypeOK'
  BY <1>1, <1>2, <1>3 DEF TypeOK
<1>5. JobShape'
  BY <1>1, <1>2, ShapeFact DEF Shape
<1>6. History'
  BY <1>1, <1>2 DEF History, OthersStay
<1>7. Counting'
  BY <1>1, <1>2 DEF Counting, Limit, OthersStay
<1>8. Claims'
  BY <1>1, <1>2 DEF Claims, Moved, SinglePublication, OthersStay
<1>. QED  BY <1>4, <1>5, <1>6, <1>7, <1>8

\* FinalizeUpload gives an announced upload a fresh file id, or is refused.
LEMMA FinalizeUploadStep ==
  ASSUME IInv, NEW w \in Workers, NEW u \in Uploads, NEW f \in Files,
         FinalizeUpload(w, u, f)
  PROVE  IInv'
<1>. USE ScheduleConstants, ProcsFact DEF IInv
<1>1. /\ pDir' = pDir /\ pMeta' = pMeta /\ written' = written /\ pEnc' = pEnc
      /\ pData' = pData /\ cMeta' = cMeta /\ left' = left /\ cEnc' = cEnc
      /\ cData' = cData /\ want' = want /\ known' = known /\ told' = told
      /\ acked' = acked /\ published' = published /\ served' = served
      /\ doomed' = doomed /\ deleted' = deleted /\ expired' = expired /\ stale' = stale
      /\ crashes' = crashes /\ broken' = broken /\ lock' = lock /\ pass' = pass
  BY DEF FinalizeUpload, pendingVars, completeVars, clientVars, fileVars, timeVars, Fail
<1>2. /\ job' \in [Procs -> Job] /\ OthersStay(w)
      /\ u \in told /\ f \notin used
      /\ \/ /\ job'[w].op = "finalize" /\ job'[w].pc \in {"rename", "copy"}
            /\ job'[w].upload = u /\ job'[w].file = f /\ ended' = ended
            /\ used' = used \cup {f} /\ origin' = [origin EXCEPT ![f] = u] /\ cDir' = cDir \cup {f}
         \/ /\ job'[w].op = "idle" /\ job'[w].pc = "idle" /\ ended' = ended \cup {u}
            /\ used' = used /\ origin' = origin /\ cDir' = cDir
  <2>1. job \in [Procs -> Job] /\ u \in told /\ f \notin used
    BY DEF FinalizeUpload, TypeOK
  <2>2. CASE Fail(w, u) /\ UNCHANGED <<used, origin, cDir>>
    BY <2>1, <2>2, ReturnFact DEF Fail
  <2>3. CASE /\ Begin(w, "finalize", IF SameDevice THEN "rename" ELSE "copy", u, f, 0)
             /\ UNCHANGED clientVars
             /\ used' = used \cup {f} /\ origin' = [origin EXCEPT ![f] = u]
             /\ cDir' = cDir \cup {f}
    BY <2>1, <2>3, BeginFact, NamesFact DEF clientVars
  <2>. QED  BY <2>2, <2>3 DEF FinalizeUpload
<1>3. TypeOK'
  <2>1. origin \in [Files -> Uploads \cup {None}]
    BY DEF TypeOK
  <2>2. [origin EXCEPT ![f] = u] \in [Files -> Uploads \cup {None}]
    BY <2>1
  <2>3. origin' \in [Files -> Uploads \cup {None}]
    BY <1>2, <2>1, <2>2
  <2>4. used' \subseteq Files /\ cDir' \subseteq Files /\ ended' \subseteq Uploads
    BY <1>2 DEF TypeOK
  <2>. QED  BY <1>1, <1>2, <2>3, <2>4 DEF TypeOK
<1>4. JobShape'
  BY <1>1, <1>2, ShapeFact DEF Shape
<1>5. History'
  <2>1. origin \in [Files -> Uploads \cup {None}] /\ used \subseteq Files
    BY DEF TypeOK
  <2>2. \A g \in used : origin'[g] = origin[g]
    BY <1>2, <2>1
  <2>3. used' = used \cup {f} => origin'[f] = u
    BY <1>2, <2>1
  <2>. QED  BY <1>1, <1>2, <2>2, <2>3 DEF History, OthersStay
<1>6. Counting'
  <2>1. \A g \in published : origin'[g] = origin[g]
    BY <1>2 DEF History, TypeOK
  <2>. QED  BY <1>1, <1>2, <2>1 DEF Counting, Limit, OthersStay
<1>7. Claims'
  <2>1. \A g \in published : origin'[g] = origin[g]
    BY <1>2, SMTT(30) DEF History, TypeOK
  <2>2. \A p \in Procs : Moved(p)' => p # w /\ job'[p] = job[p]
    BY <1>2 DEF Moved, OthersStay
  <2>. QED  BY <1>1, <1>2, <2>1, <2>2 DEF Claims, Moved, SinglePublication
<1>. QED  BY <1>3, <1>4, <1>5, <1>6, <1>7

\* MoveFile takes data.enc away from every other finalizer, or fails.
LEMMA MoveFileStep ==
  ASSUME IInv, NEW w \in Workers, MoveFile(w)
  PROVE  IInv'
<1>. USE ScheduleConstants, ProcsFact DEF IInv
<1>1. /\ pDir' = pDir /\ pMeta' = pMeta /\ written' = written /\ pData' = pData
      /\ cDir' = cDir /\ cMeta' = cMeta /\ left' = left /\ want' = want
      /\ known' = known /\ told' = told /\ acked' = acked /\ origin' = origin
      /\ used' = used /\ published' = published /\ served' = served /\ doomed' = doomed
      /\ deleted' = deleted /\ expired' = expired /\ stale' = stale
      /\ crashes' = crashes /\ broken' = broken /\ lock' = lock /\ pass' = pass
  BY DEF MoveFile, pendingVars, completeVars, clientVars, fileVars, timeVars, Fail
<1>2. /\ job[w].op = "finalize" /\ job[w].pc \in {"rename", "copy", "remove"}
      /\ job[w].upload \in Uploads /\ job[w].file \in Files
      /\ job' \in [Procs -> Job] /\ OthersStay(w)
      /\ pEnc' \subseteq pEnc
      /\ cEnc' \subseteq cEnc \cup {job[w].file}
      /\ \/ /\ job'[w].op = "finalize" /\ job'[w].upload = job[w].upload
            /\ job'[w].file = job[w].file /\ ended' = ended
            /\ \/ job'[w].pc = "remove"
               \/ /\ job'[w].pc = "truncate" /\ job[w].upload \in pEnc
                  /\ job[w].upload \notin pEnc'
         \/ /\ job'[w].op = "idle" /\ job'[w].pc = "idle"
            /\ ended' = ended \cup {job[w].upload}
  <2>1. /\ job[w].op = "finalize" /\ job[w].pc \in {"rename", "copy", "remove"}
        /\ job[w].upload \in Uploads /\ job[w].file \in Files
        /\ job \in [Procs -> Job]
    BY DEF MoveFile, JobShape, Shape, TypeOK
  <2>2. CASE Fail(w, job[w].upload) /\ UNCHANGED <<pEnc, cEnc, cData>>
    BY <2>1, <2>2, ReturnFact DEF Fail
  <2>3. CASE job[w].upload \in pEnc
    <3>1. /\ pEnc' = IF job[w].pc = "copy" THEN pEnc ELSE pEnc \ {job[w].upload}
          /\ cEnc' \subseteq cEnc \cup {job[w].file} /\ ended' = ended
      BY <2>3 DEF MoveFile, clientVars
    <3>2. CASE job[w].pc = "copy"
      <4>1. Goto(w, "remove")
        BY <2>3, <3>2 DEF MoveFile
      <4>. QED  BY <2>1, <3>1, <3>2, <4>1, GotoFact, NamesFact
    <3>3. CASE job[w].pc # "copy"
      <4>1. Goto(w, "truncate")
        BY <2>3, <3>3 DEF MoveFile
      <4>. QED  BY <2>1, <2>3, <3>1, <3>3, <4>1, GotoFact, NamesFact
    <3>. QED  BY <3>2, <3>3
  <2>. QED  BY <2>2, <2>3 DEF MoveFile
<1>3. cData' \in [Files -> Seq(Nat)]
  <2>1. pData \in [Uploads -> Seq(Nat)] /\ cData \in [Files -> Seq(Nat)]
    BY DEF TypeOK
  <2>2. [cData EXCEPT ![job[w].file] = pData[job[w].upload]] \in [Files -> Seq(Nat)]
    BY <1>2, <2>1, PutFact
  <2>. QED  BY <2>1, <2>2 DEF MoveFile
<1>4. TypeOK'
  BY <1>1, <1>2, <1>3, ZenonT(40) DEF TypeOK
<1>5. JobShape'
  BY <1>1, <1>2, ShapeFact DEF Shape
<1>6. History'
  BY <1>1, <1>2 DEF History, OthersStay
<1>7. Counting'
  BY <1>1, <1>2 DEF Counting, Limit, OthersStay
<1>8. Claims'
  BY <1>1, <1>2 DEF Claims, Moved, SinglePublication, OthersStay
<1>. QED  BY <1>4, <1>5, <1>6, <1>7, <1>8

\* TruncateFileMeta opens the meta of a file not yet published.
LEMMA TruncateFileMetaStep ==
  ASSUME IInv, NEW w \in Workers, TruncateFileMeta(w)
  PROVE  IInv'
<1>. USE ScheduleConstants, ProcsFact DEF IInv
<1>1. /\ pDir' = pDir /\ pMeta' = pMeta /\ written' = written /\ pEnc' = pEnc
      /\ pData' = pData /\ cDir' = cDir /\ left' = left /\ cEnc' = cEnc
      /\ cData' = cData /\ want' = want /\ known' = known /\ told' = told
      /\ acked' = acked /\ ended' = ended /\ origin' = origin /\ used' = used
      /\ published' = published /\ served' = served /\ doomed' = doomed
      /\ deleted' = deleted /\ expired' = expired /\ stale' = stale
      /\ crashes' = crashes /\ broken' = broken /\ lock' = lock /\ pass' = pass
  BY DEF TruncateFileMeta, pendingVars, completeVars, clientVars, fileVars, timeVars
<1>2. /\ job[w].op = "finalize" /\ job[w].pc = "truncate"
      /\ job[w].upload \in Uploads /\ job[w].file \in Files
      /\ job' \in [Procs -> Job] /\ OthersStay(w)
      /\ job'[w].op = job[w].op /\ job'[w].upload = job[w].upload /\ job'[w].file = job[w].file
      /\ job'[w].pc = "write" /\ cMeta' = [cMeta EXCEPT ![job[w].file] = "torn"]
  <2>1. /\ job[w].op = "finalize" /\ job[w].pc = "truncate"
        /\ job[w].upload \in Uploads /\ job[w].file \in Files
        /\ job \in [Procs -> Job] /\ Goto(w, "write")
    BY DEF TruncateFileMeta, At, JobShape, Shape, TypeOK
  <2>. QED  BY <2>1, GotoFact, NamesFact DEF TruncateFileMeta
<1>3. TypeOK'
  BY <1>1, <1>2 DEF TypeOK, MetaStates
<1>4. JobShape'
  BY <1>1, <1>2, ShapeFact DEF Shape
<1>5. History'
  BY <1>1, <1>2 DEF History, OthersStay
<1>6. Counting'
  <2>1. /\ cMeta'[job[w].file] = "torn"
        /\ \A g \in Files : g # job[w].file => cMeta'[g] = cMeta[g]
    BY <1>2 DEF TypeOK
  <2>2. published \subseteq Files
    BY DEF TypeOK
  <2>. QED  BY <1>1, <1>2, <2>1, <2>2 DEF Counting, Limit, OthersStay
<1>7. Claims'
  BY <1>1, <1>2 DEF Claims, Moved, SinglePublication, OthersStay
<1>. QED  BY <1>3, <1>4, <1>5, <1>6, <1>7

\* WriteFileMeta publishes the file with its whole limit to grant.
LEMMA WriteFileMetaStep ==
  ASSUME IInv, NEW w \in Workers, WriteFileMeta(w)
  PROVE  IInv'
<1>. USE ScheduleConstants, ProcsFact DEF IInv
<1>1. /\ pDir' = pDir /\ pMeta' = pMeta /\ written' = written /\ pEnc' = pEnc
      /\ pData' = pData /\ cDir' = cDir /\ cEnc' = cEnc /\ cData' = cData
      /\ want' = want /\ known' = known /\ told' = told /\ acked' = acked
      /\ ended' = ended /\ origin' = origin /\ used' = used /\ served' = served
      /\ doomed' = doomed /\ deleted' = deleted /\ expired' = expired /\ stale' = stale
      /\ crashes' = crashes /\ broken' = broken /\ lock' = lock /\ pass' = pass
  BY DEF WriteFileMeta, pendingVars, completeVars, clientVars, fileVars, timeVars
<1>2. /\ job[w].op = "finalize" /\ job[w].pc = "write"
      /\ job[w].upload \in Uploads /\ job[w].file \in Files
      /\ job' \in [Procs -> Job] /\ OthersStay(w)
      /\ job'[w].op = job[w].op /\ job'[w].upload = job[w].upload /\ job'[w].file = job[w].file
      /\ job'[w].pc = "list" /\ published' = published \cup {job[w].file}
      /\ job[w].file \in used /\ job[w].file \notin published
      /\ origin[job[w].file] = job[w].upload
  <2>1. /\ job[w].op = "finalize" /\ job[w].pc = "write"
        /\ job[w].upload \in Uploads /\ job[w].file \in Files
        /\ job \in [Procs -> Job] /\ Goto(w, "list")
    BY DEF WriteFileMeta, At, JobShape, Shape, TypeOK
  <2>2. /\ job[w].file \in used /\ job[w].file \notin published
        /\ origin[job[w].file] = job[w].upload
    BY <2>1 DEF History
  <2>. QED  BY <2>1, <2>2, GotoFact, NamesFact DEF WriteFileMeta
<1>3. /\ cMeta' = [cMeta EXCEPT ![job[w].file] = "ok"]
      /\ left' = [left EXCEPT ![job[w].file] = IF want[job[w].upload].limit = 0
                                               THEN -1 ELSE want[job[w].upload].limit]
  BY DEF WriteFileMeta
<1>4. TypeOK'
  <2>1. /\ cMeta \in [Files -> MetaStates] /\ left \in [Files -> Int]
        /\ want[job[w].upload].limit \in Nat
    BY <1>2 DEF TypeOK
  <2>2. (IF want[job[w].upload].limit = 0 THEN -1 ELSE want[job[w].upload].limit) \in Int
    BY <2>1
  <2>3. cMeta' \in [Files -> MetaStates] /\ left' \in [Files -> Int]
    BY <1>2, <1>3, <2>1, <2>2, PutFact, NamesFact
  <2>. QED  BY <1>1, <1>2, <2>3, ZenonT(40) DEF TypeOK
<1>5. JobShape'
  BY <1>1, <1>2, ShapeFact DEF Shape
<1>6. History'
  BY <1>1, <1>2 DEF History, OthersStay
<1>7. Counting'
  <2>. DEFINE f == job[w].file
  <2>1. /\ cMeta \in [Files -> MetaStates] /\ left \in [Files -> Int]
        /\ want[job[w].upload].limit \in Nat /\ published \subseteq Files /\ f \in Files
    BY <1>2 DEF TypeOK
  <2>2. /\ cMeta'[f] = "ok" /\ served[f] = 0
        /\ want[origin[f]].limit \in Nat
        /\ want[origin[f]].limit > 0 => left'[f] = want[origin[f]].limit
    BY <1>2, <1>3, <2>1 DEF Counting
  <2>3. \A g \in Files : g # f => cMeta'[g] = cMeta[g] /\ left'[g] = left[g]
    BY <1>2, <1>3, <2>1
  <2>4. \A g \in published' :
          want[origin[g]].limit > 0 =>
            /\ served[g] <= want[origin[g]].limit
            /\ cMeta'[g] = "ok" =>
                 left'[g] >= 0 /\ served[g] + left'[g] <= want[origin[g]].limit
    <3>. SUFFICES ASSUME NEW g \in published', want[origin[g]].limit > 0
                  PROVE  /\ served[g] <= want[origin[g]].limit
                         /\ cMeta'[g] = "ok" =>
                              left'[g] >= 0 /\ served[g] + left'[g] <= want[origin[g]].limit
      OBVIOUS
    <3>1. CASE g = f
      <4>. HIDE DEF f
      <4>. QED  BY <2>2, <3>1
    <3>2. CASE g # f
      <4>1. g \in published
        BY <1>2, <3>2
      <4>2. g \in Files
        BY <2>1, <4>1
      <4>3. cMeta'[g] = cMeta[g] /\ left'[g] = left[g]
        BY <2>3, <3>2, <4>2
      <4>. QED  BY <4>1, <4>3 DEF Counting, Limit
    <3>. QED  BY <3>1, <3>2
  <2>5. \A g \in Files : g \notin published' => cMeta'[g] # "ok" /\ served[g] = 0
    <3>1. \A g \in Files : g \notin published' => g # f /\ g \notin published
      BY <1>2
    <3>2. \A g \in Files : g \notin published => cMeta[g] # "ok" /\ served[g] = 0
      BY DEF Counting
    <3>. HIDE DEF f
    <3>. QED  BY <2>3, <3>1, <3>2
  <2>6. \A p \in Procs : job'[p].op = "download" => p # w /\ job'[p] = job[p]
    BY <1>2 DEF OthersStay
  <2>. QED  BY <1>1, <1>2, <2>4, <2>5, <2>6 DEF Counting, Limit
<1>8. Claims'
  <2>1. Moved(w)
    BY <1>2 DEF Moved
  <2>2. /\ job[w].upload \notin pEnc
        /\ \A g \in published : origin[g] # job[w].upload
        /\ \A p \in Procs : p # w /\ Moved(p) => job[p].upload # job[w].upload
    BY <2>1 DEF Claims
  <2>3. \A p \in Procs : Moved(p)' => p # w /\ Moved(p) /\ job'[p] = job[p]
    BY <1>2 DEF Moved, OthersStay
  <2>. QED  BY <1>1, <1>2, <2>2, <2>3 DEF Claims, SinglePublication
<1>. QED  BY <1>4, <1>5, <1>6, <1>7, <1>8

-----------------------------------------------------------------------------
(* The steps of RemoveAll only take entries away, and none grants or       *)
(* publishes anything.                                                     *)

\* RemoveAllList reads the directory.
LEMMA RemoveAllListStep ==
  ASSUME IInv, NEW p \in Procs, RemoveAllList(p)
  PROVE  IInv'
<1>. USE ScheduleConstants, ProcsFact DEF IInv
<1>1. /\ pDir' = pDir /\ pMeta' = pMeta /\ written' = written /\ pEnc' = pEnc
      /\ pData' = pData /\ cDir' = cDir /\ cMeta' = cMeta /\ left' = left
      /\ cEnc' = cEnc /\ cData' = cData /\ want' = want /\ known' = known
      /\ told' = told /\ acked' = acked /\ ended' = ended /\ origin' = origin
      /\ used' = used /\ published' = published /\ served' = served /\ doomed' = doomed
      /\ deleted' = deleted /\ expired' = expired /\ stale' = stale
      /\ crashes' = crashes /\ broken' = broken /\ lock' = lock /\ pass' = pass
  BY DEF RemoveAllList, pendingVars, completeVars, clientVars, fileVars, timeVars
<1>2. /\ job[p].pc = "list" /\ job'[p].pc = "unlink"
      /\ job' \in [Procs -> Job] /\ OthersStay(p)
      /\ job'[p].op = job[p].op /\ job'[p].upload = job[p].upload /\ job'[p].file = job[p].file
      /\ job[p].op \in {"finalize", "delete", "cleanComplete", "cleanPending"}
  <2>1. job \in [Procs -> Job] /\ job[p].pc = "list" /\ Entries(p) \subseteq {"meta", "enc"}
    BY DEF TypeOK, RemoveAllList, Entries
  <2>2. job' = [job EXCEPT ![p].names = Entries(p), ![p].pc = "unlink"]
    BY DEF RemoveAllList
  <2>3. job[p].op \in {"finalize", "delete", "cleanComplete", "cleanPending"}
    <3>1. job[p].op \in Ops
      BY <2>1 DEF Job
    <3>. QED  BY <2>1, <3>1 DEF JobShape, Shape, Ops
  <2>. QED  BY <2>1, <2>2, <2>3, NamesFact DEF Job, OthersStay
<1>3. TypeOK'
  BY <1>1, <1>2 DEF TypeOK
<1>4. JobShape'
  BY <1>2, ShapeFact DEF Shape, JobShape
<1>5. History'
  BY <1>1, <1>2 DEF History, OthersStay
<1>6. Counting'
  BY <1>1, <1>2 DEF Counting, Limit, OthersStay
<1>7. Claims'
  BY <1>1, <1>2 DEF Claims, Moved, SinglePublication, OthersStay
<1>. QED  BY <1>3, <1>4, <1>5, <1>6, <1>7

\* RemoveAllUnlink removes a meta or a data file.
LEMMA RemoveAllUnlinkStep ==
  ASSUME IInv, NEW p \in Procs, NEW e \in {"meta", "enc"}, RemoveAllUnlink(p, e)
  PROVE  IInv'
<1>. USE ScheduleConstants, ProcsFact DEF IInv
<1>1. /\ pDir' = pDir /\ written' = written /\ pData' = pData /\ cDir' = cDir
      /\ left' = left /\ cData' = cData /\ want' = want /\ known' = known
      /\ told' = told /\ acked' = acked /\ ended' = ended /\ origin' = origin
      /\ used' = used /\ published' = published /\ served' = served /\ doomed' = doomed
      /\ deleted' = deleted /\ expired' = expired /\ stale' = stale
      /\ crashes' = crashes /\ broken' = broken /\ lock' = lock /\ pass' = pass
  BY DEF RemoveAllUnlink, pendingVars, completeVars, clientVars, fileVars, timeVars
<1>2. /\ job[p].pc = "unlink" /\ job'[p].pc = "unlink"
      /\ job' \in [Procs -> Job] /\ OthersStay(p)
      /\ job'[p].op = job[p].op /\ job'[p].upload = job[p].upload /\ job'[p].file = job[p].file
      /\ job[p].op \in {"finalize", "delete", "cleanComplete", "cleanPending"}
      /\ pEnc' \subseteq pEnc /\ cEnc' \subseteq cEnc
  <2>1. job \in [Procs -> Job] /\ job[p].pc = "unlink"
    BY DEF TypeOK, RemoveAllUnlink
  <2>2. job' = [job EXCEPT ![p].names = @ \ {e}]
    BY DEF RemoveAllUnlink
  <2>3. job[p].op \in {"finalize", "delete", "cleanComplete", "cleanPending"}
    <3>1. job[p].op \in Ops
      BY <2>1 DEF Job
    <3>. QED  BY <2>1, <3>1 DEF JobShape, Shape, Ops
  <2>4. pEnc' \subseteq pEnc /\ cEnc' \subseteq cEnc
    BY DEF RemoveAllUnlink
  <2>. QED  BY <2>1, <2>2, <2>3, <2>4 DEF Job, OthersStay
<1>3. /\ pMeta' \in [Uploads -> MetaStates] /\ cMeta' \in [Files -> MetaStates]
      /\ \A f \in Files : cMeta'[f] = "ok" => cMeta[f] = "ok"
  <2>1. pMeta \in [Uploads -> MetaStates] /\ cMeta \in [Files -> MetaStates]
    BY DEF TypeOK
  <2>2. CASE Pending(p)
    <3>1. job[p].upload \in Uploads /\ cMeta' = cMeta
      BY <1>2, <2>2 DEF RemoveAllUnlink, Pending, JobShape, Shape
    <3>2. [pMeta EXCEPT ![job[p].upload] = "absent"] \in [Uploads -> MetaStates]
      BY <2>1, <3>1, PutFact, NamesFact
    <3>. QED  BY <2>1, <2>2, <3>1, <3>2 DEF RemoveAllUnlink
  <2>3. CASE ~ Pending(p)
    <3>1. job[p].file \in Files /\ pMeta' = pMeta
      BY <1>2, <2>3 DEF RemoveAllUnlink, Pending, JobShape, Shape
    <3>2. [cMeta EXCEPT ![job[p].file] = "absent"] \in [Files -> MetaStates]
      BY <2>1, <3>1, PutFact, NamesFact
    <3>3. \/ cMeta' = cMeta
          \/ cMeta' = [cMeta EXCEPT ![job[p].file] = "absent"]
      BY <2>3 DEF RemoveAllUnlink
    <3>. QED  BY <2>1, <3>1, <3>2, <3>3
  <2>. QED  BY <2>2, <2>3
<1>4. TypeOK'
  BY <1>1, <1>2, <1>3 DEF TypeOK
<1>5. JobShape'
  BY <1>2, ShapeFact DEF Shape, JobShape
<1>6. History'
  BY <1>1, <1>2 DEF History, OthersStay
<1>7. Counting'
  <2>1. published \subseteq Files
    BY DEF TypeOK
  <2>. QED  BY <1>1, <1>2, <1>3, <2>1 DEF Counting, Limit, OthersStay
<1>8. Claims'
  BY <1>1, <1>2 DEF Claims, Moved, SinglePublication, OthersStay
<1>. QED  BY <1>4, <1>5, <1>6, <1>7, <1>8

\* RemoveAllDir ends a removal and announces the file of a finalizer.
LEMMA RemoveAllDirStep ==
  ASSUME IInv, NEW p \in Procs, RemoveAllDir(p)
  PROVE  IInv'
<1>. USE ScheduleConstants, ProcsFact DEF IInv
<1>1. /\ pMeta' = pMeta /\ written' = written /\ pEnc' = pEnc /\ pData' = pData
      /\ cMeta' = cMeta /\ left' = left /\ cEnc' = cEnc /\ cData' = cData
      /\ want' = want /\ known' = known /\ acked' = acked /\ origin' = origin
      /\ used' = used /\ published' = published /\ served' = served /\ doomed' = doomed
      /\ expired' = expired /\ stale' = stale /\ crashes' = crashes /\ broken' = broken /\ lock' = lock
      /\ pass' = pass
  BY DEF RemoveAllDir, pendingVars, completeVars, clientVars, fileVars, timeVars
<1>2. /\ job' \in [Procs -> Job] /\ OthersStay(p)
      /\ job'[p].op = "idle" /\ job'[p].pc = "idle"
      /\ pDir' \subseteq pDir /\ cDir' \subseteq cDir
      /\ \/ deleted' = deleted
         \/ job[p].file \in Files /\ deleted' = deleted \cup {job[p].file}
      /\ \/ ended' = ended /\ told' = told
         \/ /\ job[p].upload \in Uploads /\ ended' = ended \cup {job[p].upload}
            /\ job[p].file \in Files /\ told' = told \cup {job[p].file}
  <2>1. job \in [Procs -> Job] /\ Return(p)
    BY DEF TypeOK, RemoveAllDir
  <2>2. pDir' \subseteq pDir /\ cDir' \subseteq cDir
    BY DEF RemoveAllDir
  <2>3. \/ deleted' = deleted
        \/ job[p].file \in Files /\ deleted' = deleted \cup {job[p].file}
    BY DEF RemoveAllDir, JobShape, Shape
  <2>4. \/ ended' = ended /\ told' = told
        \/ /\ job[p].upload \in Uploads /\ ended' = ended \cup {job[p].upload}
           /\ job[p].file \in Files /\ told' = told \cup {job[p].file}
    BY DEF RemoveAllDir, JobShape, Shape
  <2>. QED  BY <2>1, <2>2, <2>3, <2>4, ReturnFact
<1>3. TypeOK'
  BY <1>1, <1>2 DEF TypeOK
<1>4. JobShape'
  BY <1>1, <1>2, ShapeFact DEF Shape
<1>5. History'
  <2>1. \A u \in Uploads : u \in told' <=> u \in told
    BY <1>2
  <2>2. \A q \in Procs : job[q].op = "init" => job[q].upload \in Uploads
    BY DEF JobShape, Shape
  <2>3. told \subseteq told'
    BY <1>2
  <2>. QED  BY <1>1, <1>2, <2>1, <2>2, <2>3 DEF History, OthersStay
<1>6. Counting'
  BY <1>1, <1>2 DEF Counting, Limit, OthersStay
<1>7. Claims'
  BY <1>1, <1>2 DEF Claims, Moved, SinglePublication, OthersStay
<1>. QED  BY <1>3, <1>4, <1>5, <1>6, <1>7

-----------------------------------------------------------------------------
(* Download and deletion.                                                  *)

\* OpenDownload takes the lock and a number from the meta.
LEMMA OpenDownloadStep ==
  ASSUME IInv, NEW w \in Workers, NEW f \in Files, OpenDownload(w, f)
  PROVE  IInv'
<1>. USE ScheduleConstants, ProcsFact DEF IInv
<1>1. /\ pDir' = pDir /\ pMeta' = pMeta /\ written' = written /\ pEnc' = pEnc
      /\ pData' = pData /\ cDir' = cDir /\ cMeta' = cMeta /\ left' = left
      /\ cEnc' = cEnc /\ cData' = cData /\ want' = want /\ known' = known
      /\ told' = told /\ acked' = acked /\ ended' = ended /\ origin' = origin
      /\ used' = used /\ published' = published /\ served' = served /\ doomed' = doomed
      /\ deleted' = deleted /\ expired' = expired /\ stale' = stale
      /\ crashes' = crashes /\ broken' = broken /\ pass' = pass
  BY DEF OpenDownload, pendingVars, completeVars, clientVars, fileVars, timeVars
<1>2. /\ job' \in [Procs -> Job] /\ OthersStay(w)
      /\ job'[w].op = "download" /\ job'[w].pc = "open" /\ job'[w].file = f
      /\ job'[w].n = left[f] /\ cMeta[f] = "ok" /\ lock = None /\ lock' = w
  <2>1. job \in [Procs -> Job] /\ left[f] \in Int
    BY DEF TypeOK
  <2>2. Begin(w, "download", "open", None, f, left[f])
    BY DEF OpenDownload
  <2>. QED  BY <2>1, <2>2, BeginFact, NamesFact DEF OpenDownload
<1>3. TypeOK'
  BY <1>1, <1>2 DEF TypeOK
<1>4. JobShape'
  BY <1>1, <1>2, ShapeFact DEF Shape
<1>5. History'
  BY <1>1, <1>2 DEF History, OthersStay
<1>6. Counting'
  <2>1. \A p \in Procs : job[p].op # "download"
    BY <1>2 DEF Counting
  <2>2. f \in published
    BY <1>2 DEF Counting
  <2>3. Limit(f) > 0 => left[f] >= 0 /\ left[f] # 0 /\ served[f] + left[f] <= Limit(f)
    BY <1>2, <2>2 DEF Counting, OpenDownload
  <2>4. \A p \in Procs : job'[p].op = "download" => p = w
    BY <1>2, <2>1 DEF OthersStay
  <2>. QED  BY <1>1, <1>2, <2>2, <2>3, <2>4 DEF Counting, Limit, TypeOK
<1>7. Claims'
  BY <1>1, <1>2 DEF Claims, Moved, SinglePublication, OthersStay
<1>. QED  BY <1>3, <1>4, <1>5, <1>6, <1>7

\* OpenEnc goes on with a limited file, grants an unlimited one, or fails.
LEMMA OpenEncStep ==
  ASSUME IInv, NEW w \in Workers, OpenEnc(w)
  PROVE  IInv'
<1>. USE ScheduleConstants, ProcsFact DEF IInv
<1>1. /\ pDir' = pDir /\ pMeta' = pMeta /\ written' = written /\ pEnc' = pEnc
      /\ pData' = pData /\ cDir' = cDir /\ cMeta' = cMeta /\ left' = left
      /\ cEnc' = cEnc /\ cData' = cData /\ want' = want /\ known' = known
      /\ told' = told /\ acked' = acked /\ ended' = ended /\ origin' = origin
      /\ used' = used /\ published' = published /\ doomed' = doomed
      /\ deleted' = deleted /\ expired' = expired /\ stale' = stale
      /\ crashes' = crashes /\ broken' = broken /\ pass' = pass
  BY DEF OpenEnc, pendingVars, completeVars, clientVars, fileVars, timeVars
<1>2. /\ job[w].op = "download" /\ job[w].file \in Files
      /\ job' \in [Procs -> Job] /\ OthersStay(w)
      /\ \/ /\ job'[w].op = "download" /\ job'[w].pc = "truncate" /\ job'[w].file = job[w].file
            /\ job'[w].n = job[w].n /\ job[w].n > 0 /\ served' = served /\ lock' = lock
         \/ /\ job'[w].op = "idle" /\ job'[w].pc = "idle" /\ lock' = None
            /\ \/ served' = served
               \/ /\ job[w].n < 0
                  /\ served' = [served EXCEPT ![job[w].file] = served[job[w].file] + 1]
  <2>1. /\ job[w].op = "download" /\ job[w].file \in Files
        /\ job \in [Procs -> Job]
    BY DEF OpenEnc, At, JobShape, Shape, TypeOK
  <2>2. CASE Return(w) /\ lock' = None /\ UNCHANGED served
    BY <2>1, <2>2, ReturnFact
  <2>3. CASE Goto(w, "truncate") /\ job[w].n > 0 /\ UNCHANGED <<served, lock>>
    BY <2>1, <2>3, GotoFact, NamesFact
  <2>4. CASE Granted(w, job[w].file) /\ job[w].n < 0
    BY <2>1, <2>4, ReturnFact DEF Granted
  <2>. QED  BY <2>2, <2>3, <2>4 DEF OpenEnc
<1>3. lock' \in Workers \cup {None} /\ served' \in [Files -> Nat]
  <2>1. lock \in Workers \cup {None} /\ served \in [Files -> Nat]
    BY DEF TypeOK
  <2>2. [served EXCEPT ![job[w].file] = served[job[w].file] + 1] \in [Files -> Nat]
    BY <1>2, <2>1, PutFact
  <2>. QED  BY <1>2, <2>1, <2>2
<1>4. TypeOK'
  BY <1>1, <1>2, <1>3 DEF TypeOK
<1>5. JobShape'
  BY <1>1, <1>2, ShapeFact DEF Shape
<1>6. History'
  BY <1>1, <1>2 DEF History, OthersStay
<1>7. Counting'
  <2>1. \A p \in Procs : job[p].op = "download" => p = w
    BY <1>2 DEF Counting
  <2>2. /\ job[w].file \in published /\ published \subseteq Files
        /\ \A f \in published : Limit(f) \in Int /\ served[f] \in Nat
    BY <1>2 DEF Counting, History, Limit, TypeOK
  <2>3. CASE job'[w].op = "download"
    BY <1>1, <1>2, <2>1, <2>3 DEF Counting, Limit, OthersStay
  <2>4. CASE job'[w].op = "idle"
    <3>1. \A p \in Procs : job'[p].op # "download"
      BY <1>2, <2>1, <2>4 DEF OthersStay
    <3>2. \A f \in Files : served'[f] = served[f] \/ (f \in published /\ ~ (Limit(f) > 0))
      <4>1. job[w].n < 0 => ~ (Limit(job[w].file) > 0)
        BY <1>2, <2>2 DEF Counting, TypeOK, Job
      <4>. QED  BY <1>2, <2>2, <2>4, <4>1 DEF TypeOK
    <3>. QED  BY <1>1, <2>2, <3>1, <3>2 DEF Counting, Limit
  <2>. QED  BY <1>2, <2>3, <2>4
<1>8. Claims'
  BY <1>1, <1>2 DEF Claims, Moved, SinglePublication, OthersStay
<1>. QED  BY <1>4, <1>5, <1>6, <1>7, <1>8

\* TruncateCounter opens the meta under the lock, or fails with the directory gone.
LEMMA TruncateCounterStep ==
  ASSUME IInv, NEW w \in Workers, TruncateCounter(w)
  PROVE  IInv'
<1>. USE ScheduleConstants, ProcsFact DEF IInv
<1>1. /\ pDir' = pDir /\ pMeta' = pMeta /\ written' = written /\ pEnc' = pEnc
      /\ pData' = pData /\ cDir' = cDir /\ left' = left /\ cEnc' = cEnc
      /\ cData' = cData /\ want' = want /\ known' = known /\ told' = told
      /\ acked' = acked /\ ended' = ended /\ origin' = origin /\ used' = used
      /\ published' = published /\ served' = served /\ doomed' = doomed
      /\ deleted' = deleted /\ expired' = expired /\ stale' = stale
      /\ crashes' = crashes /\ broken' = broken /\ pass' = pass
  BY DEF TruncateCounter, pendingVars, completeVars, clientVars, fileVars, timeVars
<1>2. /\ job[w].op = "download" /\ job[w].pc = "truncate" /\ job[w].file \in Files
      /\ job' \in [Procs -> Job] /\ OthersStay(w)
      /\ \/ /\ job'[w].op = "download" /\ job'[w].pc = "write" /\ job'[w].file = job[w].file
            /\ job'[w].n = job[w].n /\ lock' = lock
            /\ cMeta' = [cMeta EXCEPT ![job[w].file] = "torn"]
         \/ /\ job'[w].op = "idle" /\ job'[w].pc = "idle"
            /\ lock' = None /\ cMeta' = cMeta
  <2>1. /\ job[w].op = "download" /\ job[w].pc = "truncate" /\ job[w].file \in Files
        /\ job \in [Procs -> Job]
    BY DEF TruncateCounter, At, JobShape, Shape, TypeOK
  <2>2. CASE Return(w) /\ lock' = None /\ UNCHANGED cMeta
    BY <2>1, <2>2, ReturnFact
  <2>3. CASE /\ Goto(w, "write") /\ UNCHANGED lock
             /\ cMeta' = [cMeta EXCEPT ![job[w].file] = "torn"]
    BY <2>1, <2>3, GotoFact, NamesFact
  <2>. QED  BY <2>2, <2>3 DEF TruncateCounter
<1>3. /\ lock' \in Workers \cup {None} /\ cMeta' \in [Files -> MetaStates]
      /\ \A f \in Files : cMeta'[f] = "ok" => cMeta[f] = "ok"
  <2>1. cMeta \in [Files -> MetaStates] /\ lock \in Workers \cup {None}
    BY DEF TypeOK
  <2>2. [cMeta EXCEPT ![job[w].file] = "torn"] \in [Files -> MetaStates]
    BY <1>2, <2>1, PutFact, NamesFact
  <2>. QED  BY <1>2, <2>1, <2>2
<1>4. TypeOK'
  BY <1>1, <1>2, <1>3 DEF TypeOK
<1>5. JobShape'
  BY <1>1, <1>2, ShapeFact DEF Shape
<1>6. History'
  BY <1>1, <1>2 DEF History, OthersStay
<1>7. Counting'
  <2>1. \A p \in Procs : job[p].op = "download" => p = w
    BY <1>2 DEF Counting
  <2>2. published \subseteq Files
    BY DEF TypeOK
  <2>3. CASE job'[w].op = "download"
    BY <1>1, <1>2, <1>3, <2>1, <2>2, <2>3 DEF Counting, Limit, OthersStay
  <2>4. CASE job'[w].op = "idle"
    <3>1. \A p \in Procs : job'[p].op # "download"
      BY <1>2, <2>1, <2>4 DEF OthersStay
    <3>. QED  BY <1>1, <1>3, <2>2, <3>1 DEF Counting, Limit
  <2>. QED  BY <1>2, <2>3, <2>4
<1>8. Claims'
  BY <1>1, <1>2 DEF Claims, Moved, SinglePublication, OthersStay
<1>. QED  BY <1>4, <1>5, <1>6, <1>7, <1>8

\* WriteCounter spends one download of the number taken under the lock.
LEMMA WriteCounterStep ==
  ASSUME IInv, NEW w \in Workers, WriteCounter(w)
  PROVE  IInv'
<1>. USE ScheduleConstants, ProcsFact DEF IInv
<1>1. /\ pDir' = pDir /\ pMeta' = pMeta /\ written' = written /\ pEnc' = pEnc
      /\ pData' = pData /\ cDir' = cDir /\ cEnc' = cEnc /\ cData' = cData
      /\ want' = want /\ known' = known /\ told' = told /\ acked' = acked
      /\ ended' = ended /\ origin' = origin /\ used' = used /\ published' = published
      /\ doomed' = doomed /\ deleted' = deleted /\ expired' = expired /\ stale' = stale
      /\ crashes' = crashes /\ broken' = broken /\ pass' = pass
  BY DEF WriteCounter, pendingVars, completeVars, clientVars, fileVars, timeVars, Granted
<1>2. /\ job[w].op = "download" /\ job[w].pc = "write" /\ job[w].file \in Files
      /\ job' \in [Procs -> Job] /\ OthersStay(w)
      /\ job'[w].op = "idle" /\ job'[w].pc = "idle"
      /\ lock' = None /\ job[w].n \in Int
  <2>1. /\ job[w].op = "download" /\ job[w].pc = "write" /\ job[w].file \in Files
        /\ job \in [Procs -> Job] /\ job[w].n \in Int
    BY DEF WriteCounter, At, JobShape, Shape, TypeOK, Job
  <2>. QED  BY <2>1, ReturnFact DEF WriteCounter, Granted
<1>3. /\ served' = [served EXCEPT ![job[w].file] = served[job[w].file] + 1]
      /\ \/ cMeta' = cMeta /\ left' = left /\ cMeta[job[w].file] = "absent"
         \/ /\ cMeta' = [cMeta EXCEPT ![job[w].file] = "ok"]
            /\ left' = [left EXCEPT ![job[w].file] = job[w].n - 1]
  BY DEF WriteCounter, Granted
<1>4. TypeOK'
  <2>1. /\ cMeta \in [Files -> MetaStates] /\ left \in [Files -> Int]
        /\ served \in [Files -> Nat]
    BY DEF TypeOK
  <2>2. /\ [cMeta EXCEPT ![job[w].file] = "ok"] \in [Files -> MetaStates]
        /\ [left EXCEPT ![job[w].file] = job[w].n - 1] \in [Files -> Int]
        /\ [served EXCEPT ![job[w].file] = served[job[w].file] + 1] \in [Files -> Nat]
    BY <1>2, <2>1, PutFact, NamesFact
  <2>3. /\ cMeta' \in [Files -> MetaStates] /\ left' \in [Files -> Int]
        /\ served' \in [Files -> Nat]
    BY <1>3, <2>1, <2>2
  <2>. QED  BY <1>1, <1>2, <2>3 DEF TypeOK
<1>5. JobShape'
  BY <1>1, <1>2, ShapeFact DEF Shape
<1>6. History'
  BY <1>1, <1>2 DEF History, OthersStay
<1>7. Counting'
  <2>. DEFINE f == job[w].file
  <2>1. \A p \in Procs : job[p].op = "download" => p = w
    BY <1>2 DEF Counting
  <2>2. \A p \in Procs : job'[p].op # "download"
    BY <1>2, <2>1 DEF OthersStay
  <2>3. /\ f \in published /\ job[w].n > 0
        /\ Limit(f) > 0 => served[f] + job[w].n <= Limit(f)
    BY <1>2 DEF Counting
  <2>4. /\ cMeta \in [Files -> MetaStates] /\ left \in [Files -> Int] /\ f \in Files
        /\ served \in [Files -> Nat] /\ published \subseteq Files /\ Limit(f) \in Int
    BY <1>2, <2>3 DEF TypeOK, History, Limit
  <2>5. /\ served'[f] = served[f] + 1
        /\ cMeta'[f] = "ok" => left'[f] = job[w].n - 1
    BY <1>2, <1>3, <2>4
  <2>6. \A g \in Files : g # f =>
          cMeta'[g] = cMeta[g] /\ left'[g] = left[g] /\ served'[g] = served[g]
    BY <1>3, <2>4
  <2>7. Limit(f) > 0 => /\ served'[f] <= Limit(f)
                        /\ cMeta'[f] = "ok" => left'[f] >= 0 /\ served'[f] + left'[f] <= Limit(f)
    <3>1. served[f] \in Nat /\ job[w].n \in Int
      BY <1>2, <2>4
    <3>. HIDE DEF f
    <3>. QED  BY <2>3, <2>4, <2>5, <3>1
  <2>. HIDE DEF f
  <2>8. \A g \in published :
          Limit(g) > 0 => /\ served'[g] <= Limit(g)
                          /\ cMeta'[g] = "ok" => left'[g] >= 0 /\ served'[g] + left'[g] <= Limit(g)
    <3>. SUFFICES ASSUME NEW g \in published, g # f, Limit(g) > 0
                  PROVE  /\ served'[g] <= Limit(g)
                         /\ cMeta'[g] = "ok" => left'[g] >= 0 /\ served'[g] + left'[g] <= Limit(g)
      BY <2>7
    <3>1. cMeta'[g] = cMeta[g] /\ left'[g] = left[g] /\ served'[g] = served[g]
      BY <2>4, <2>6
    <3>. QED  BY <3>1 DEF Counting
  <2>9. \A g \in Files : g \notin published => cMeta'[g] # "ok" /\ served'[g] = 0
    BY <2>3, <2>6 DEF Counting
  <2>. QED  BY <1>1, <2>2, <2>8, <2>9 DEF Counting, Limit
<1>8. Claims'
  BY <1>1, <1>2 DEF Claims, Moved, SinglePublication, OthersStay
<1>. QED  BY <1>4, <1>5, <1>6, <1>7, <1>8

\* Delete begins a removal.
LEMMA DeleteStep ==
  ASSUME IInv, NEW w \in Workers, NEW f \in Files, Delete(w, f)
  PROVE  IInv'
<1>. USE ScheduleConstants, ProcsFact DEF IInv
<1>1. /\ pDir' = pDir /\ pMeta' = pMeta /\ written' = written /\ pEnc' = pEnc
      /\ pData' = pData /\ cDir' = cDir /\ cMeta' = cMeta /\ left' = left
      /\ cEnc' = cEnc /\ cData' = cData /\ want' = want /\ known' = known
      /\ told' = told /\ acked' = acked /\ ended' = ended /\ origin' = origin
      /\ used' = used /\ published' = published /\ served' = served
      /\ deleted' = deleted /\ expired' = expired /\ stale' = stale
      /\ crashes' = crashes /\ broken' = broken /\ lock' = lock /\ pass' = pass
  BY DEF Delete, pendingVars, completeVars, clientVars, fileVars, timeVars
<1>2. /\ job' \in [Procs -> Job] /\ OthersStay(w)
      /\ job'[w].op = "delete" /\ job'[w].pc = "list" /\ job'[w].file = f
      /\ doomed' = doomed \cup {f}
  <2>1. job \in [Procs -> Job] /\ Begin(w, "delete", "list", None, f, 0)
    BY DEF TypeOK, Delete
  <2>. QED  BY <2>1, BeginFact, NamesFact DEF Delete
<1>3. TypeOK'
  BY <1>1, <1>2 DEF TypeOK
<1>4. JobShape'
  BY <1>1, <1>2, ShapeFact DEF Shape
<1>5. History'
  BY <1>1, <1>2 DEF History, OthersStay
<1>6. Counting'
  BY <1>1, <1>2 DEF Counting, Limit, OthersStay
<1>7. Claims'
  BY <1>1, <1>2 DEF Claims, Moved, SinglePublication, OthersStay
<1>. QED  BY <1>3, <1>4, <1>5, <1>6, <1>7

-----------------------------------------------------------------------------
(* Cleanup, time and crashes.                                              *)

\* What a cleanup pass holds.
Passes == [at : {"off", "complete", "pending"}, todo : SUBSET (Files \cup Uploads),
           expired : SUBSET Uploads, stale : SUBSET Uploads]

\* A step of the pass that changes no job and no file keeps the invariant.
LEMMA PassStep ==
  ASSUME IInv, pass' \in Passes,
         UNCHANGED <<pendingVars, completeVars, clientVars, fileVars, timeVars, lock, job>>
  PROVE  IInv'
<1>. USE DEF IInv
<1>1. /\ pDir' = pDir /\ pMeta' = pMeta /\ written' = written /\ pEnc' = pEnc
      /\ pData' = pData /\ cDir' = cDir /\ cMeta' = cMeta /\ left' = left
      /\ cEnc' = cEnc /\ cData' = cData /\ want' = want /\ known' = known
      /\ told' = told /\ acked' = acked /\ ended' = ended /\ origin' = origin
      /\ used' = used /\ published' = published /\ served' = served /\ doomed' = doomed
      /\ deleted' = deleted /\ expired' = expired /\ stale' = stale
      /\ crashes' = crashes /\ broken' = broken /\ lock' = lock /\ job' = job
  BY DEF pendingVars, completeVars, clientVars, fileVars, timeVars
<1>2. TypeOK'
  BY <1>1 DEF TypeOK, Passes
<1>3. JobShape'
  BY <1>1 DEF JobShape
<1>4. History'
  BY <1>1 DEF History
<1>5. Counting'
  BY <1>1 DEF Counting, Limit
<1>6. Claims'
  BY <1>1 DEF Claims, Moved, SinglePublication
<1>. QED  BY <1>2, <1>3, <1>4, <1>5, <1>6

\* The cleaner's own steps keep the type of its pass.
LEMMA PassType ==
  ASSUME TypeOK
  PROVE  /\ CleanExpired => pass' \in Passes
         /\ ListPending => pass' \in Passes
         /\ CleanEnd => pass' \in Passes
         /\ \A f \in Files : CleanComplete(f) => pass' \in Passes
         /\ \A u \in Uploads : CleanPending(u) => pass' \in Passes
<1>. pass \in Passes
  BY DEF TypeOK, Passes
<1>1. CleanExpired => pass' \in Passes
  BY DEF CleanExpired, Passes, TypeOK
<1>2. ListPending => pass' \in Passes
  BY DEF ListPending, Passes, TypeOK
<1>3. CleanEnd => pass' \in Passes
  BY DEF CleanEnd, NoPass, Passes
<1>4. \A f \in Files : CleanComplete(f) => pass' \in Passes
  BY DEF CleanComplete, Passes
<1>5. \A u \in Uploads : CleanPending(u) => pass' \in Passes
  BY DEF CleanPending, Passes
<1>. QED  BY <1>1, <1>2, <1>3, <1>4, <1>5

\* CleanComplete passes over a file or begins its removal.
LEMMA CleanCompleteStep ==
  ASSUME IInv, NEW f \in Files, CleanComplete(f)
  PROVE  IInv'
<1>. USE ScheduleConstants, ProcsFact DEF IInv
<1>1. /\ pDir' = pDir /\ pMeta' = pMeta /\ written' = written /\ pEnc' = pEnc
      /\ pData' = pData /\ cDir' = cDir /\ cMeta' = cMeta /\ left' = left
      /\ cEnc' = cEnc /\ cData' = cData /\ want' = want /\ known' = known
      /\ told' = told /\ acked' = acked /\ ended' = ended /\ origin' = origin
      /\ used' = used /\ published' = published /\ served' = served /\ doomed' = doomed
      /\ deleted' = deleted /\ expired' = expired /\ stale' = stale
      /\ crashes' = crashes /\ broken' = broken /\ lock' = lock
  BY DEF CleanComplete, pendingVars, completeVars, clientVars, fileVars, timeVars
<1>2. /\ job' \in [Procs -> Job] /\ OthersStay(Cleaner) /\ pass' \in Passes
      /\ \/ job' = job
         \/ /\ job'[Cleaner].op = "cleanComplete" /\ job'[Cleaner].pc = "list"
            /\ job'[Cleaner].file = f
  <2>1. job \in [Procs -> Job] /\ pass' \in Passes
    BY PassType DEF TypeOK
  <2>2. CASE Begin(Cleaner, "cleanComplete", "list", None, f, 0)
    BY <2>1, <2>2, BeginFact, NamesFact
  <2>3. CASE UNCHANGED job
    BY <2>1, <2>3 DEF OthersStay
  <2>. QED  BY <2>2, <2>3 DEF CleanComplete
<1>3. TypeOK'
  BY <1>1, <1>2 DEF TypeOK, Passes
<1>4. JobShape'
  BY <1>2, ShapeFact DEF Shape, JobShape
<1>5. History'
  BY <1>1, <1>2 DEF History, OthersStay
<1>6. Counting'
  BY <1>1, <1>2 DEF Counting, Limit, OthersStay
<1>7. Claims'
  BY <1>1, <1>2 DEF Claims, Moved, SinglePublication, OthersStay
<1>. QED  BY <1>3, <1>4, <1>5, <1>6, <1>7

\* CleanPending passes over an upload or begins its removal.
LEMMA CleanPendingStep ==
  ASSUME IInv, NEW u \in Uploads, CleanPending(u)
  PROVE  IInv'
<1>. USE ScheduleConstants, ProcsFact DEF IInv
<1>1. /\ pDir' = pDir /\ pMeta' = pMeta /\ written' = written /\ pEnc' = pEnc
      /\ pData' = pData /\ cDir' = cDir /\ cMeta' = cMeta /\ left' = left
      /\ cEnc' = cEnc /\ cData' = cData /\ want' = want /\ known' = known
      /\ told' = told /\ acked' = acked /\ ended' = ended /\ origin' = origin
      /\ used' = used /\ published' = published /\ served' = served /\ doomed' = doomed
      /\ deleted' = deleted /\ expired' = expired /\ stale' = stale
      /\ crashes' = crashes /\ broken' = broken /\ lock' = lock
  BY DEF CleanPending, pendingVars, completeVars, clientVars, fileVars, timeVars
<1>2. /\ job' \in [Procs -> Job] /\ OthersStay(Cleaner) /\ pass' \in Passes
      /\ \/ job' = job
         \/ /\ job'[Cleaner].op = "cleanPending" /\ job'[Cleaner].pc = "list"
            /\ job'[Cleaner].upload = u
  <2>1. job \in [Procs -> Job] /\ pass' \in Passes
    BY PassType DEF TypeOK
  <2>2. CASE Begin(Cleaner, "cleanPending", "list", u, None, 0)
    BY <2>1, <2>2, BeginFact, NamesFact
  <2>3. CASE UNCHANGED job
    BY <2>1, <2>3 DEF OthersStay
  <2>. QED  BY <2>2, <2>3 DEF CleanPending
<1>3. TypeOK'
  BY <1>1, <1>2 DEF TypeOK, Passes
<1>4. JobShape'
  BY <1>2, ShapeFact DEF Shape, JobShape
<1>5. History'
  BY <1>1, <1>2 DEF History, OthersStay
<1>6. Counting'
  BY <1>1, <1>2 DEF Counting, Limit, OthersStay
<1>7. Claims'
  BY <1>1, <1>2 DEF Claims, Moved, SinglePublication, OthersStay
<1>. QED  BY <1>3, <1>4, <1>5, <1>6, <1>7

\* Expiry changes nothing on disk.
LEMMA ExpireStep ==
  ASSUME IInv, NEW u \in Uploads, Expire(u)
  PROVE  IInv'
<1>. USE DEF IInv
<1>1. /\ pDir' = pDir /\ pMeta' = pMeta /\ written' = written /\ pEnc' = pEnc
      /\ pData' = pData /\ cDir' = cDir /\ cMeta' = cMeta /\ left' = left
      /\ cEnc' = cEnc /\ cData' = cData /\ want' = want /\ known' = known
      /\ told' = told /\ acked' = acked /\ ended' = ended /\ origin' = origin
      /\ used' = used /\ published' = published /\ served' = served /\ doomed' = doomed
      /\ deleted' = deleted /\ stale' = stale /\ crashes' = crashes /\ broken' = broken /\ lock' = lock
      /\ job' = job /\ pass' = pass
      /\ expired' = expired \cup {u}
  BY DEF Expire, pendingVars, completeVars, clientVars, fileVars, timeVars
<1>2. TypeOK'
  BY <1>1 DEF TypeOK
<1>3. JobShape'
  BY <1>1 DEF JobShape
<1>4. History'
  BY <1>1 DEF History
<1>5. Counting'
  BY <1>1 DEF Counting, Limit
<1>6. Claims'
  BY <1>1 DEF Claims, Moved, SinglePublication
<1>. QED  BY <1>2, <1>3, <1>4, <1>5, <1>6

\* Neither does ageing.
LEMMA GrowStaleStep ==
  ASSUME IInv, NEW u \in Uploads, GrowStale(u)
  PROVE  IInv'
<1>. USE DEF IInv
<1>1. /\ pDir' = pDir /\ pMeta' = pMeta /\ written' = written /\ pEnc' = pEnc
      /\ pData' = pData /\ cDir' = cDir /\ cMeta' = cMeta /\ left' = left
      /\ cEnc' = cEnc /\ cData' = cData /\ want' = want /\ known' = known
      /\ told' = told /\ acked' = acked /\ ended' = ended /\ origin' = origin
      /\ used' = used /\ published' = published /\ served' = served /\ doomed' = doomed
      /\ deleted' = deleted /\ expired' = expired /\ crashes' = crashes /\ broken' = broken /\ lock' = lock
      /\ job' = job /\ pass' = pass
      /\ stale' = stale \cup {u}
  BY DEF GrowStale, pendingVars, completeVars, clientVars, fileVars, timeVars
<1>2. TypeOK'
  BY <1>1 DEF TypeOK
<1>3. JobShape'
  BY <1>1 DEF JobShape
<1>4. History'
  BY <1>1 DEF History
<1>5. Counting'
  BY <1>1 DEF Counting, Limit
<1>6. Claims'
  BY <1>1 DEF Claims, Moved, SinglePublication
<1>. QED  BY <1>2, <1>3, <1>4, <1>5, <1>6

\* A crash makes every process idle and frees the lock; the files stay.
LEMMA CrashStep ==
  ASSUME IInv, Crash
  PROVE  IInv'
<1>. USE ScheduleConstants DEF IInv
<1>1. /\ pDir' = pDir /\ pMeta' = pMeta /\ written' = written /\ pEnc' = pEnc
      /\ pData' = pData /\ cDir' = cDir /\ cMeta' = cMeta /\ left' = left
      /\ cEnc' = cEnc /\ cData' = cData /\ want' = want /\ known' = known
      /\ told' = told /\ acked' = acked /\ origin' = origin /\ used' = used
      /\ published' = published /\ served' = served /\ doomed' = doomed
      /\ deleted' = deleted /\ expired' = expired /\ stale' = stale
  BY DEF Crash, pendingVars, completeVars, clientVars, fileVars, timeVars
<1>2. /\ job' \in [Procs -> Job] /\ lock' = None
      /\ \A p \in Procs : job'[p].op = "idle" /\ job'[p].pc = "idle"
  BY IdleFact DEF Crash
<1>3. /\ pass' \in Passes /\ crashes' \in Nat /\ ended' \subseteq Uploads
      /\ broken' \subseteq Uploads \cup Files
  BY DEF Crash, NoPass, Passes, TypeOK
<1>4. TypeOK'
  BY <1>1, <1>2, <1>3 DEF TypeOK, Passes
<1>5. JobShape'
  BY <1>2 DEF JobShape, Shape
<1>6. History'
  BY <1>1, <1>2 DEF History
<1>7. Counting'
  BY <1>1, <1>2 DEF Counting, Limit
<1>8. Claims'
  BY <1>1, <1>2 DEF Claims, Moved, SinglePublication
<1>. QED  BY <1>4, <1>5, <1>6, <1>7, <1>8

\* A failing call ends a request and, of all files, leaves a truncated meta as it is.
LEMMA CallFailsStep ==
  ASSUME IInv, NEW w \in Workers, CallFails(w)
  PROVE  IInv'
<1>. USE ScheduleConstants, ProcsFact DEF IInv
<1>1. /\ pDir' = pDir /\ pMeta' = pMeta /\ written' = written /\ pEnc' = pEnc
      /\ pData' = pData /\ cDir' = cDir /\ cMeta' = cMeta /\ left' = left
      /\ cEnc' = cEnc /\ cData' = cData /\ want' = want /\ known' = known
      /\ told' = told /\ acked' = acked /\ origin' = origin /\ used' = used
      /\ published' = published /\ served' = served /\ doomed' = doomed
      /\ deleted' = deleted /\ expired' = expired /\ stale' = stale
      /\ crashes' = crashes /\ pass' = pass
  BY DEF CallFails, Fail, pendingVars, completeVars, clientVars, fileVars
<1>2. /\ job' \in [Procs -> Job] /\ OthersStay(w)
      /\ job'[w].op = "idle" /\ job'[w].pc = "idle"
      /\ \/ job[w].op = "download" /\ lock' = None
         \/ job[w].op # "download" /\ lock' = lock
  <2>1. job \in [Procs -> Job] /\ Return(w)
    BY DEF CallFails, Fail, TypeOK
  <2>. QED  BY <2>1, ReturnFact DEF CallFails
<1>3. broken' \subseteq Uploads \cup Files /\ ended' \subseteq Uploads
  <2>1. /\ job[w].op \in {"init", "chunk"} => job[w].upload \in Uploads
        /\ job[w].op \in {"finalize", "download"} => job[w].file \in Files
        /\ job[w].op = "finalize" => job[w].upload \in Uploads
        /\ broken \subseteq Uploads \cup Files /\ ended \subseteq Uploads
    BY DEF JobShape, Shape, TypeOK
  <2>. QED  BY <2>1 DEF CallFails, Fail, clientVars
<1>4. TypeOK'
  BY <1>1, <1>2, <1>3 DEF TypeOK
<1>5. JobShape'
  BY <1>1, <1>2, ShapeFact DEF Shape
<1>6. History'
  BY <1>1, <1>2 DEF History, OthersStay
<1>7. Counting'
  <2>1. \A p \in Procs : job'[p].op = "download" => lock' = lock
    BY <1>2 DEF Counting, OthersStay
  <2>. QED  BY <1>1, <1>2, <2>1 DEF Counting, Limit, OthersStay
<1>8. Claims'
  BY <1>1, <1>2 DEF Claims, Moved, SinglePublication, OthersStay
<1>. QED  BY <1>4, <1>5, <1>6, <1>7, <1>8

-----------------------------------------------------------------------------
(* The theorems.                                                           *)

\* The initial state satisfies the invariant.
LEMMA InitInv == Init => IInv
<1>. SUFFICES ASSUME Init PROVE IInv
  OBVIOUS
<1>. USE ScheduleConstants
<1>1. /\ job \in [Procs -> Job] /\ \A p \in Procs : job[p].op = "idle" /\ job[p].pc = "idle"
  BY IdleFact DEF Init
<1>2. /\ pData \in [Uploads -> Seq(Nat)] /\ cData \in [Files -> Seq(Nat)]
      /\ want \in [Uploads -> [chunks : Nat, limit : Nat]]
  BY EmptyFact DEF Init
<1>3. pass \in Passes
  BY DEF Init, NoPass, Passes
<1>4. TypeOK
  BY <1>1, <1>2, <1>3 DEF Init, TypeOK, Passes, MetaStates
<1>5. JobShape
  BY <1>1 DEF JobShape, Shape
<1>6. History
  BY <1>1 DEF Init, History
<1>7. Counting
  BY <1>1 DEF Init, Counting
<1>8. Claims
  BY <1>1 DEF Init, Claims, Moved, SinglePublication
<1>. QED  BY <1>4, <1>5, <1>6, <1>7, <1>8 DEF IInv

\* Every step preserves the invariant.
LEMMA StepInv == IInv /\ [Next]_vars => IInv'
<1>. SUFFICES ASSUME IInv, [Next]_vars PROVE IInv'
  OBVIOUS
<1>1. ASSUME NEW w \in Workers, UploadStep(w) PROVE IInv'
  BY <1>1, InitUploadStep, CreateEncStep, AppendChunkStep, WriteChunkStep,
     TruncatePendingMetaStep, WritePendingMetaStep, FinalizeUploadStep, MoveFileStep,
     TruncateFileMetaStep, WriteFileMetaStep DEF UploadStep
<1>2. ASSUME NEW w \in Workers, DownloadStep(w) PROVE IInv'
  BY <1>2, OpenDownloadStep, OpenEncStep, TruncateCounterStep, WriteCounterStep, DeleteStep
     DEF DownloadStep
<1>3. ASSUME NEW p \in Procs, RemoveStep(p) PROVE IInv'
  BY <1>3, RemoveAllListStep, RemoveAllUnlinkStep, RemoveAllDirStep DEF RemoveStep
<1>4. CASE CleanStep
  <2>1. TypeOK
    BY DEF IInv
  <2>2. CASE CleanExpired
    BY <2>1, <2>2, PassType, PassStep DEF CleanExpired
  <2>3. CASE ListPending
    BY <2>1, <2>3, PassType, PassStep DEF ListPending
  <2>4. CASE CleanEnd
    BY <2>1, <2>4, PassType, PassStep DEF CleanEnd
  <2>. QED  BY <1>4, <2>2, <2>3, <2>4, CleanCompleteStep, CleanPendingStep DEF CleanStep
<1>5. CASE \E u \in Uploads : Expire(u) \/ GrowStale(u)
  BY <1>5, ExpireStep, GrowStaleStep
<1>6. CASE Crash
  BY <1>6, CrashStep
<1>8. ASSUME NEW w \in Workers, CallFails(w) PROVE IInv'
  BY <1>8, CallFailsStep
<1>7. CASE UNCHANGED vars
  <2>1. TypeOK /\ JobShape /\ History /\ Counting /\ Claims
    BY DEF IInv
  <2>2. pass' \in Passes
    BY <1>7, <2>1 DEF vars, TypeOK, Passes
  <2>. QED  BY <1>7, <2>2, PassStep DEF vars
<1>. QED  BY <1>1, <1>2, <1>3, <1>4, <1>5, <1>6, <1>7, <1>8 DEF Next

\* The inductive invariant holds in every reachable state.
LEMMA Invariance == Spec => []IInv
BY InitInv, StepInv, PTL DEF Spec

\* Every variable keeps its type in every run, and no negative download limit
\* is ever stored (handleUploadInit, InitUpload).
THEOREM StoreTypeCorrect == Spec => []TypeOK
<1>1. IInv => TypeOK
  BY DEF IInv
<1>. QED  BY <1>1, Invariance, PTL

\* No interleaving of downloads, deletions, cleanup and crashes grants a file
\* more downloads than its limit or the server's cap (OpenDownload).
THEOREM LimitHolds == Spec => []DownloadLimit
<1>1. IInv => DownloadLimit
  <2>. SUFFICES ASSUME IInv, NEW f \in published
                PROVE  /\ want[origin[f]].limit > 0 => served[f] <= want[origin[f]].limit
                       /\ Cap > 0 => served[f] <= Cap
    BY DEF DownloadLimit
  <2>1. want[origin[f]].limit > 0 => served[f] <= want[origin[f]].limit
    BY DEF IInv, Counting, Limit
  <2>2. Cap > 0 => want[origin[f]].limit > 0 /\ want[origin[f]].limit <= Cap
    BY DEF IInv, History
  <2>3. served[f] \in Nat /\ want[origin[f]].limit \in Nat /\ Cap \in Nat
    BY ScheduleConstants DEF IInv, TypeOK, History
  <2>. QED  BY <2>1, <2>2, <2>3
<1>. QED  BY <1>1, Invariance, PTL

\* However many finalize requests of one upload run at once, and wherever a
\* crash falls, at most one of them publishes a file (FinalizeUpload, moveFile).
THEOREM OnePublication == Spec => []SinglePublication
<1>1. IInv => SinglePublication
  BY DEF IInv, Claims
<1>. QED  BY <1>1, Invariance, PTL

-----------------------------------------------------------------------------
(* The files.                                                              *)

\* File f has expired or has been downloaded as often as allowed.
Due(f) ==
  \/ origin[f] \in expired
  \/ Limit(f) > 0 /\ served[f] >= Limit(f)

\* Who removes a published file: a Delete, or a cleanup pass that found it due.  When
\* data.enc is not on its list any more, it is not on disk either.
Removals ==
  /\ \A p \in Procs :
       job[p].op \in {"delete", "cleanComplete"} =>
         /\ job[p].file \in published
         /\ job[p].op = "delete" => job[p].file \in doomed
         /\ job[p].op = "cleanComplete" => Due(job[p].file)
         /\ job[p].pc = "unlink" /\ "enc" \notin job[p].names => job[p].file \notin cEnc
  /\ \A f \in deleted : f \in published /\ f \notin cEnc
  /\ pass.expired \subseteq expired

\* Who is about to publish a file has made its directory and moved data.enc into it.
Moves ==
  \A p \in Procs :
    job[p].op = "finalize" /\ job[p].pc \notin {"list", "unlink"} =>
      /\ job[p].file \in cDir
      /\ job[p].pc \in {"remove", "truncate", "write"} => job[p].file \in cEnc

\* Together with Counting: granted and still to grant make up the limit, and a file
\* without one is marked so.
Ledger ==
  /\ \A f \in published :
       cMeta[f] = "ok" => IF Limit(f) = 0 THEN left[f] = -1 ELSE served[f] + left[f] >= Limit(f)
  /\ \A p \in Procs :
       job[p].op = "download" =>
         IF Limit(job[p].file) = 0 THEN job[p].n = -1
         ELSE served[job[p].file] + job[p].n >= Limit(job[p].file)

\* Kept, with the download that is rewriting the meta.
OnDisk ==
  \A f \in published :
    \/ Due(f)
    \/ f \in doomed
    \/ /\ f \in cDir /\ f \in cEnc /\ cMeta[f] # "absent"
       /\ cMeta[f] = "torn" =>
            \/ f \in broken
            \/ \E p \in Procs : job[p].op = "download" /\ job[p].pc = "write" /\ job[p].file = f

FilesInv == Removals /\ Moves /\ Ledger /\ OnDisk

\* The chunks 0 .. n - 1 in order.
Count(n) == [i \in 1 .. n |-> i - 1]

\* A client of the project has one request under way for an upload, which exists.
Requests ==
  /\ \A w \in Workers : job[w].op \notin {"cleanComplete", "cleanPending"}
  /\ \A w \in Workers : job[w].op \in {"idle", "download", "delete"} => job[w].upload = None
  /\ \A w \in Workers : job[w].upload # None => job[w].upload \in known
  /\ \A w \in Workers : job[w].op \in {"chunk", "finalize"} => job[w].upload \in told
  /\ \A v, w \in Workers : job[v].upload # None /\ job[v].upload = job[w].upload => v = w

\* What is in data.enc when no request is under way, in the middle of one, when it is
\* moved, and when it can be downloaded.
Contents ==
  /\ \A u \in Uploads : u \notin told => acked[u] = 0
  /\ \A u \in Uploads :
       u \in told /\ u \notin ended /\ (\A w \in Workers : job[w].upload # u) =>
         pData[u] = Count(acked[u])
  /\ \A w \in Workers :
       job[w].op = "chunk" =>
         /\ job[w].n = acked[job[w].upload]
         /\ job[w].pc = "append" => pData[job[w].upload] = Count(job[w].n)
         /\ job[w].pc # "append" => pData[job[w].upload] = Count(job[w].n + 1)
  /\ \A w \in Workers :
       job[w].op = "finalize" =>
         /\ job[w].pc \in {"rename", "copy", "remove"} =>
              pData[job[w].upload] = Count(want[job[w].upload].chunks)
         /\ job[w].pc \in {"remove", "truncate", "write"} =>
              cData[job[w].file] = Count(want[job[w].upload].chunks)
  /\ \A f \in published : cData[f] = Count(want[origin[f]].chunks)

ChunksInv == OwnClient => Requests /\ Contents

-----------------------------------------------------------------------------
(* Jobs and chunks.                                                        *)

\* Goto changes one label.
LEMMA GotoJob ==
  ASSUME job \in [Procs -> Job], NEW p \in Procs, NEW pc \in Labels, Goto(p, pc)
  PROVE  /\ OthersStay(p)
         /\ job'[p].op = job[p].op /\ job'[p].pc = pc /\ job'[p].names = job[p].names
         /\ job'[p].upload = job[p].upload /\ job'[p].file = job[p].file
         /\ job'[p].n = job[p].n
BY DEF Goto, Job, OthersStay

\* Return leaves a process without upload and file.
LEMMA ReturnJob ==
  ASSUME job \in [Procs -> Job], NEW p \in Procs, Return(p)
  PROVE  /\ OthersStay(p)
         /\ job'[p].op = "idle" /\ job'[p].pc = "idle" /\ job'[p].upload = None
BY DEF Return, OthersStay, Idle

\* An idle handler has neither.
LEMMA IdleJob ==
  ASSUME NEW p, job[p] = Idle
  PROVE  job[p].op = "idle" /\ job[p].pc = "idle" /\ job[p].upload = None
BY DEF Idle

\* No chunks, and one more.
LEMMA CountFact ==
  /\ Count(0) = << >>
  /\ \A n \in Nat : Count(n) \in Seq(Nat) /\ Len(Count(n)) = n
  /\ \A n \in Nat : Append(Count(n), n) = Count(n + 1)
<1>1. \A n \in Nat : Count(n) \in Seq(Nat) /\ Len(Count(n)) = n
  BY DEF Count
<1>2. Count(0) = << >>
  <2>1. Count(0) \in Seq(Nat) /\ Len(Count(0)) = 0
    BY <1>1
  <2>. HIDE DEF Count
  <2>. QED  BY <2>1, EmptySeq
<1>3. ASSUME NEW n \in Nat
      PROVE  Append(Count(n), n) = Count(n + 1)
  <2>. DEFINE s == Append(Count(n), n)
              t == Count(n + 1)
  <2>1. Count(n) \in Seq(Nat) /\ Len(Count(n)) = n /\ t \in Seq(Nat) /\ Len(t) = n + 1
    BY <1>1
  <2>2. /\ s \in Seq(Nat) /\ Len(s) = n + 1
        /\ \A i \in 1 .. n : s[i] = Count(n)[i]
        /\ s[n + 1] = n
    <3>. HIDE DEF Count
    <3>. QED  BY <2>1, AppendProperties
  <2>3. \A i \in 1 .. n : Count(n)[i] = i - 1
    BY DEF Count
  <2>4. \A i \in 1 .. n + 1 : t[i] = i - 1
    BY DEF Count
  <2>5. \A i \in 1 .. n + 1 : s[i] = t[i]
    <3>. HIDE DEF s, t, Count
    <3>. QED  BY <2>2, <2>3, <2>4
  <2>. HIDE DEF s, t, Count
  <2>6. s = t
    BY <2>1, <2>2, <2>5, SeqEqual
  <2>. QED  BY <2>6 DEF s, t
<1>. QED  BY <1>1, <1>2, <1>3

-----------------------------------------------------------------------------
(* Every step preserves FilesInv.                                          *)

\* A new upload touches no file.
LEMMA InitUploadFiles ==
  ASSUME IInv, FilesInv, NEW w \in Workers, NEW u \in Uploads, NEW chunks \in Totals,
         NEW limit \in Requested, InitUpload(w, u, chunks, limit)
  PROVE  FilesInv'
<1>. USE ScheduleConstants, ProcsFact DEF FilesInv
<1>1. UNCHANGED <<written, pEnc, pData, cDir, cMeta, left, cEnc, cData, origin, told, used,
               lock, pass, expired, stale, acked, ended, published, served, doomed,
               deleted, crashes, broken>>
  BY DEF InitUpload, pendingVars, completeVars, clientVars, fileVars, timeVars
<1>2. /\ OthersStay(w) /\ job'[w].op = "init" /\ job[w].op = "idle"
      /\ \A f \in used : want'[origin[f]] = want[origin[f]]
  <2>1. job \in [Procs -> Job]
    BY DEF IInv, TypeOK
  <2>2. \A f \in used : origin[f] # u
    BY DEF InitUpload, IInv, History
  <2>3. want' = [want EXCEPT ![u] = [chunks |-> chunks, limit |-> ClampDownloads(limit)]]
    BY DEF InitUpload
  <2>4. \A f \in used : origin[f] \in Uploads /\ want \in [Uploads -> [chunks : Nat, limit : Nat]]
    BY DEF IInv, History, TypeOK
  <2>. QED  BY <2>1, <2>2, <2>3, <2>4, BeginFact, IdleJob, NamesFact DEF InitUpload
<1>3. published \subseteq used /\ \A p \in Procs : job[p].op = "download" => job[p].file \in published
  BY DEF IInv, History, Counting
<1>4. Removals'
  BY <1>1, <1>2, <1>3 DEF Removals, Due, Limit, OthersStay
<1>5. Moves'
  BY <1>1, <1>2, <1>3 DEF Moves, OthersStay
<1>6. Ledger'
  BY <1>1, <1>2, <1>3 DEF Ledger, Limit, OthersStay
<1>7. OnDisk'
  BY <1>1, <1>2, <1>3 DEF OnDisk, Due, Limit, OthersStay
<1>. QED  BY <1>4, <1>5, <1>6, <1>7

\* Neither does its data.enc.
LEMMA CreateEncFiles ==
  ASSUME IInv, FilesInv, NEW w \in Workers, CreateEnc(w)
  PROVE  FilesInv'
<1>. USE ScheduleConstants, ProcsFact DEF FilesInv
<1>1. UNCHANGED <<pDir, pMeta, written, cDir, cMeta, left, cEnc, cData, want, origin, known,
               used, lock, pass, expired, stale, acked, published, served, doomed,
               deleted, crashes, broken>>
  BY DEF CreateEnc, Fail, pendingVars, completeVars, clientVars, fileVars, timeVars
<1>2. OthersStay(w) /\ job[w].op = "init" /\ job'[w].op = "idle"
  <2>1. job \in [Procs -> Job]
    BY DEF IInv, TypeOK
  <2>2. Return(w)
    BY DEF CreateEnc, Fail
  <2>. QED  BY <2>1, <2>2, ReturnJob DEF CreateEnc, At
<1>3. Removals'
  BY <1>1, <1>2 DEF Removals, Due, Limit, OthersStay
<1>4. Moves'
  BY <1>1, <1>2 DEF Moves, OthersStay
<1>5. Ledger'
  BY <1>1, <1>2 DEF Ledger, Limit, OthersStay
<1>6. OnDisk'
  BY <1>1, <1>2 DEF OnDisk, Due, Limit, OthersStay
<1>. QED  BY <1>3, <1>4, <1>5, <1>6

\* Nor does a chunk.
LEMMA AppendChunkFiles ==
  ASSUME IInv, FilesInv, NEW w \in Workers, NEW u \in Uploads,
         NEW i \in 0 .. MaxChunks, AppendChunk(w, u, i)
  PROVE  FilesInv'
<1>. USE ScheduleConstants, ProcsFact DEF FilesInv
<1>1. UNCHANGED <<pDir, pMeta, written, pEnc, pData, cDir, cMeta, left, cEnc, cData, want,
               origin, known, told, used, lock, pass, expired, stale, acked, published,
               served, doomed, deleted, crashes, broken>>
  BY DEF AppendChunk, Fail, pendingVars, completeVars, clientVars, fileVars, timeVars
<1>2. OthersStay(w) /\ job[w].op \in {"idle", "chunk"} /\ job'[w].op \in {"idle", "chunk"}
  <2>1. job \in [Procs -> Job] /\ i \in Int /\ job[w].op = "idle"
    BY IdleJob DEF IInv, TypeOK, AppendChunk
  <2>2. CASE Fail(w, u)
    BY <2>1, <2>2, ReturnJob DEF Fail
  <2>3. CASE Begin(w, "chunk", "append", u, None, i)
    BY <2>1, <2>3, BeginFact, NamesFact
  <2>. QED  BY <2>2, <2>3 DEF AppendChunk
<1>3. Removals'
  BY <1>1, <1>2 DEF Removals, Due, Limit, OthersStay
<1>4. Moves'
  BY <1>1, <1>2 DEF Moves, OthersStay
<1>5. Ledger'
  BY <1>1, <1>2 DEF Ledger, Limit, OthersStay
<1>6. OnDisk'
  BY <1>1, <1>2 DEF OnDisk, Due, Limit, OthersStay
<1>. QED  BY <1>3, <1>4, <1>5, <1>6

\* Its bytes go to pending/.
LEMMA WriteChunkFiles ==
  ASSUME IInv, FilesInv, NEW w \in Workers, WriteChunk(w)
  PROVE  FilesInv'
<1>. USE ScheduleConstants, ProcsFact DEF FilesInv
<1>1. UNCHANGED <<pDir, pMeta, written, pEnc, cDir, cMeta, left, cEnc, cData, want, origin,
               known, told, used, lock, pass, expired, stale, acked, published, served,
               doomed, deleted, crashes, broken>>
  BY DEF WriteChunk, Fail, pendingVars, completeVars, clientVars, fileVars, timeVars
<1>2. OthersStay(w) /\ job[w].op \in {"idle", "chunk"} /\ job'[w].op \in {"idle", "chunk"}
  <2>1. job \in [Procs -> Job] /\ job[w].op = "chunk"
    BY DEF IInv, TypeOK, WriteChunk, At
  <2>2. CASE Fail(w, job[w].upload)
    BY <2>1, <2>2, ReturnJob DEF Fail
  <2>3. CASE Goto(w, "truncate")
    BY <2>1, <2>3, GotoJob, NamesFact
  <2>. QED  BY <2>2, <2>3 DEF WriteChunk
<1>3. Removals'
  BY <1>1, <1>2 DEF Removals, Due, Limit, OthersStay
<1>4. Moves'
  BY <1>1, <1>2 DEF Moves, OthersStay
<1>5. Ledger'
  BY <1>1, <1>2 DEF Ledger, Limit, OthersStay
<1>6. OnDisk'
  BY <1>1, <1>2 DEF OnDisk, Due, Limit, OthersStay
<1>. QED  BY <1>3, <1>4, <1>5, <1>6

\* So does its meta.
LEMMA TruncatePendingMetaFiles ==
  ASSUME IInv, FilesInv, NEW w \in Workers, TruncatePendingMeta(w)
  PROVE  FilesInv'
<1>. USE ScheduleConstants, ProcsFact DEF FilesInv
<1>1. UNCHANGED <<pDir, written, pEnc, pData, cDir, cMeta, left, cEnc, cData, want, origin,
               known, told, used, lock, pass, expired, stale, acked, published, served,
               doomed, deleted, crashes, broken>>
  BY DEF TruncatePendingMeta, Fail, pendingVars, completeVars, clientVars, fileVars, timeVars
<1>2. OthersStay(w) /\ job[w].op \in {"idle", "chunk"} /\ job'[w].op \in {"idle", "chunk"}
  <2>1. job \in [Procs -> Job] /\ job[w].op = "chunk"
    BY DEF IInv, TypeOK, TruncatePendingMeta, At
  <2>2. CASE Fail(w, job[w].upload)
    BY <2>1, <2>2, ReturnJob DEF Fail
  <2>3. CASE Goto(w, "write")
    BY <2>1, <2>3, GotoJob, NamesFact
  <2>. QED  BY <2>2, <2>3 DEF TruncatePendingMeta
<1>3. Removals'
  BY <1>1, <1>2 DEF Removals, Due, Limit, OthersStay
<1>4. Moves'
  BY <1>1, <1>2 DEF Moves, OthersStay
<1>5. Ledger'
  BY <1>1, <1>2 DEF Ledger, Limit, OthersStay
<1>6. OnDisk'
  BY <1>1, <1>2 DEF OnDisk, Due, Limit, OthersStay
<1>. QED  BY <1>3, <1>4, <1>5, <1>6

\* The meta is written.
LEMMA WritePendingMetaFiles ==
  ASSUME IInv, FilesInv, NEW w \in Workers, WritePendingMeta(w)
  PROVE  FilesInv'
<1>. USE ScheduleConstants, ProcsFact DEF FilesInv
<1>1. UNCHANGED <<pDir, pEnc, pData, cDir, cMeta, left, cEnc, cData, want, origin, known,
               told, used, lock, pass, expired, stale, ended, published, served, doomed,
               deleted, crashes, broken>>
  BY DEF WritePendingMeta, pendingVars, completeVars, clientVars, fileVars, timeVars
<1>2. OthersStay(w) /\ job[w].op \in {"init", "chunk"} /\ job'[w].op \in {"idle", "init"}
  <2>1. job \in [Procs -> Job] /\ job[w].op \in {"init", "chunk"}
    BY DEF IInv, TypeOK, WritePendingMeta
  <2>2. CASE job[w].op = "chunk" /\ Return(w)
    BY <2>1, <2>2, ReturnJob
  <2>3. CASE job[w].op = "init" /\ Goto(w, "create")
    BY <2>1, <2>3, GotoJob, NamesFact
  <2>. QED  BY <2>1, <2>2, <2>3 DEF WritePendingMeta
<1>3. Removals'
  BY <1>1, <1>2 DEF Removals, Due, Limit, OthersStay
<1>4. Moves'
  BY <1>1, <1>2 DEF Moves, OthersStay
<1>5. Ledger'
  BY <1>1, <1>2 DEF Ledger, Limit, OthersStay
<1>6. OnDisk'
  BY <1>1, <1>2 DEF OnDisk, Due, Limit, OthersStay
<1>. QED  BY <1>3, <1>4, <1>5, <1>6

\* A file id is new, and its directory is made.
LEMMA FinalizeUploadFiles ==
  ASSUME IInv, FilesInv, NEW w \in Workers, NEW u \in Uploads, NEW f \in Files, FinalizeUpload(w, u, f)
  PROVE  FilesInv'
<1>. USE ScheduleConstants, ProcsFact DEF FilesInv
<1>1. UNCHANGED <<pDir, pMeta, written, pEnc, pData, cMeta, left, cEnc, cData, want, known,
               told, lock, pass, expired, stale, acked, published, served, doomed,
               deleted, crashes, broken>>
  BY DEF FinalizeUpload, Fail, pendingVars, completeVars, clientVars, fileVars, timeVars
<1>2. /\ OthersStay(w) /\ job[w].op = "idle" /\ cDir \subseteq cDir' /\ f \notin used
      /\ \A g \in used : origin'[g] = origin[g]
      /\ \/ job'[w].op = "idle"
         \/ /\ job'[w].op = "finalize" /\ job'[w].file = f /\ f \in cDir'
            /\ job'[w].pc \in {"rename", "copy"}
  <2>1. job \in [Procs -> Job] /\ job[w].op = "idle" /\ f \notin used /\ origin \in [Files -> Uploads \cup {None}] /\ used \subseteq Files
    BY IdleJob DEF IInv, TypeOK, FinalizeUpload
  <2>2. CASE Fail(w, u) /\ UNCHANGED <<used, origin, cDir>>
    BY <2>1, <2>2, ReturnJob DEF Fail
  <2>3. CASE /\ Begin(w, "finalize", IF SameDevice THEN "rename" ELSE "copy", u, f, 0)
             /\ origin' = [origin EXCEPT ![f] = u] /\ cDir' = cDir \cup {f}
    <3>1. (IF SameDevice THEN "rename" ELSE "copy") \in Labels \cap {"rename", "copy"}
      BY NamesFact
    <3>. QED  BY <2>1, <2>3, <3>1, BeginFact, NamesFact
  <2>. QED  BY <2>2, <2>3 DEF FinalizeUpload
<1>3. published \subseteq used /\ \A p \in Procs : job[p].op = "download" => job[p].file \in published
  BY DEF IInv, History, Counting
<1>4. Removals'
  BY <1>1, <1>2, <1>3 DEF Removals, Due, Limit, OthersStay
<1>5. Moves'
  BY <1>1, <1>2, <1>3 DEF Moves, OthersStay
<1>6. Ledger'
  BY <1>1, <1>2, <1>3 DEF Ledger, Limit, OthersStay
<1>7. OnDisk'
  BY <1>1, <1>2, <1>3 DEF OnDisk, Due, Limit, OthersStay
<1>. QED  BY <1>4, <1>5, <1>6, <1>7

\* A file that is being moved has not been published.
LEMMA MoveFileFiles ==
  ASSUME IInv, FilesInv, NEW w \in Workers, MoveFile(w)
  PROVE  FilesInv'
<1>. USE ScheduleConstants, ProcsFact DEF FilesInv
<1>1. UNCHANGED <<pDir, pMeta, written, pData, cDir, cMeta, left, want, origin, known, told,
               used, lock, pass, expired, stale, acked, published, served, doomed,
               deleted, crashes, broken>>
  BY DEF MoveFile, Fail, pendingVars, completeVars, clientVars, fileVars, timeVars
<1>2. /\ OthersStay(w) /\ job[w].op = "finalize" /\ job[w].pc \in {"rename", "copy", "remove"}
      /\ job[w].file \in used /\ job[w].file \notin published
      /\ cEnc \subseteq cEnc' /\ cEnc' \subseteq cEnc \cup {job[w].file}
      /\ \/ job'[w].op = "idle"
         \/ /\ job'[w].op = "finalize" /\ job'[w].file = job[w].file
            /\ job'[w].pc \in {"remove", "truncate"}
            /\ job[w].pc = "remove" \/ job[w].file \in cEnc'
  <2>1. /\ job \in [Procs -> Job] /\ job[w].op = "finalize" /\ job[w].pc \in {"rename", "copy", "remove"}
        /\ job[w].file \in used /\ job[w].file \notin published
    BY DEF IInv, TypeOK, History, MoveFile
  <2>2. CASE Fail(w, job[w].upload) /\ UNCHANGED cEnc
    BY <2>1, <2>2, ReturnJob DEF Fail
  <2>3. CASE /\ Goto(w, IF job[w].pc = "copy" THEN "remove" ELSE "truncate")
             /\ cEnc' = IF job[w].pc = "remove" THEN cEnc ELSE cEnc \cup {job[w].file}
    <3>1. (IF job[w].pc = "copy" THEN "remove" ELSE "truncate") \in Labels \cap {"remove", "truncate"}
      BY NamesFact
    <3>. QED  BY <2>1, <2>3, <3>1, GotoJob
  <2>. QED  BY <2>2, <2>3 DEF MoveFile
<1>3. Removals'
  BY <1>1, <1>2 DEF Removals, Due, Limit, OthersStay
<1>4. Moves'
  BY <1>1, <1>2 DEF Moves, OthersStay
<1>5. Ledger'
  BY <1>1, <1>2 DEF Ledger, Limit, OthersStay
<1>6. OnDisk'
  BY <1>1, <1>2 DEF OnDisk, Due, Limit, OthersStay
<1>. QED  BY <1>3, <1>4, <1>5, <1>6

\* Nor has one whose meta is about to be written.
LEMMA TruncateFileMetaFiles ==
  ASSUME IInv, FilesInv, NEW w \in Workers, TruncateFileMeta(w)
  PROVE  FilesInv'
<1>. USE ScheduleConstants, ProcsFact DEF FilesInv
<1>1. UNCHANGED <<pDir, pMeta, written, pEnc, pData, cDir, left, cEnc, cData, want, origin,
               known, told, used, lock, pass, expired, stale, acked, ended, published,
               served, doomed, deleted, crashes, broken>>
  BY DEF TruncateFileMeta, pendingVars, completeVars, clientVars, fileVars, timeVars
<1>2. /\ OthersStay(w) /\ job[w].op = "finalize" /\ job[w].pc = "truncate"
      /\ job'[w].op = "finalize" /\ job'[w].file = job[w].file /\ job'[w].pc = "write"
      /\ \A g \in published : cMeta'[g] = cMeta[g]
  <2>1. /\ job \in [Procs -> Job] /\ job[w].op = "finalize" /\ job[w].pc = "truncate" /\ Goto(w, "write")
        /\ job[w].file \notin published /\ published \subseteq Files
        /\ cMeta \in [Files -> MetaStates]
    BY DEF IInv, TypeOK, History, TruncateFileMeta, At
  <2>. QED  BY <2>1, GotoJob, NamesFact DEF TruncateFileMeta
<1>3. Removals'
  BY <1>1, <1>2 DEF Removals, Due, Limit, OthersStay
<1>4. Moves'
  BY <1>1, <1>2 DEF Moves, OthersStay
<1>5. Ledger'
  BY <1>1, <1>2 DEF Ledger, Limit, OthersStay
<1>6. OnDisk'
  BY <1>1, <1>2 DEF OnDisk, Due, Limit, OthersStay
<1>. QED  BY <1>3, <1>4, <1>5, <1>6

\* A file is published with its directory, its data and its whole limit.
LEMMA WriteFileMetaFiles ==
  ASSUME IInv, FilesInv, NEW w \in Workers, WriteFileMeta(w)
  PROVE  FilesInv'
<1>. USE ScheduleConstants, ProcsFact DEF FilesInv
<1>1. UNCHANGED <<pDir, pMeta, written, pEnc, pData, cDir, cEnc, cData, want, origin, known,
               told, used, lock, pass, expired, stale, acked, ended, served, doomed,
               deleted, crashes, broken>>
  BY DEF WriteFileMeta, pendingVars, completeVars, clientVars, fileVars, timeVars
<1>2. /\ OthersStay(w) /\ job[w].op = "finalize" /\ job[w].pc = "write"
      /\ job'[w].op = "finalize" /\ job'[w].file = job[w].file /\ job'[w].pc = "list"
      /\ published' = published \cup {job[w].file} /\ job[w].file \notin published
  <2>1. /\ job \in [Procs -> Job] /\ job[w].op = "finalize" /\ job[w].pc = "write" /\ Goto(w, "list")
        /\ job[w].file \notin published
    BY DEF IInv, TypeOK, History, WriteFileMeta, At
  <2>. QED  BY <2>1, GotoJob, NamesFact DEF WriteFileMeta
<1>3. /\ job[w].file \in Files /\ published \subseteq Files /\ served[job[w].file] = 0
      /\ want[origin[job[w].file]].limit \in Nat /\ origin[job[w].file] = job[w].upload
      /\ cMeta \in [Files -> MetaStates] /\ left \in [Files -> Int]
  BY <1>2 DEF IInv, TypeOK, JobShape, Shape, History, Counting
<1>4. /\ cMeta'[job[w].file] = "ok"
      /\ left'[job[w].file] = IF Limit(job[w].file) = 0 THEN -1 ELSE Limit(job[w].file)
      /\ \A g \in published : cMeta'[g] = cMeta[g] /\ left'[g] = left[g]
  BY <1>2, <1>3 DEF WriteFileMeta, Limit
<1>5. \A p \in Procs : job'[p].op = "download" => p # w /\ job[p].op = "download" /\ job[p].file \in published
  BY <1>2 DEF OthersStay, IInv, Counting
<1>6. Removals'
  BY <1>1, <1>2 DEF Removals, Due, Limit, OthersStay
<1>7. Moves'
  BY <1>1, <1>2 DEF Moves, OthersStay
<1>8. Ledger'
  BY <1>1, <1>2, <1>3, <1>4, <1>5 DEF Ledger, Limit, OthersStay
<1>9. OnDisk'
  BY <1>1, <1>2, <1>3, <1>4 DEF OnDisk, Due, Limit, OthersStay, Moves
<1>. QED  BY <1>6, <1>7, <1>8, <1>9

\* A removal sees data.enc if it is there.
LEMMA RemoveAllListFiles ==
  ASSUME IInv, FilesInv, NEW p \in Procs, RemoveAllList(p)
  PROVE  FilesInv'
<1>. USE ScheduleConstants, ProcsFact DEF FilesInv
<1>1. UNCHANGED <<pDir, pMeta, written, pEnc, pData, cDir, cMeta, left, cEnc, cData, want,
               origin, known, told, used, lock, pass, expired, stale, acked, ended,
               published, served, doomed, deleted, crashes, broken>>
  BY DEF RemoveAllList, pendingVars, completeVars, clientVars, fileVars, timeVars
<1>2. /\ OthersStay(p) /\ job[p].pc = "list" /\ job'[p].pc = "unlink"
      /\ job'[p].op = job[p].op /\ job'[p].file = job[p].file
      /\ job[p].op \in {"finalize", "delete", "cleanComplete", "cleanPending"}
      /\ job[p].op \in {"delete", "cleanComplete"} /\ job[p].file \in cEnc => "enc" \in job'[p].names
  <2>1. job \in [Procs -> Job] /\ job[p].pc = "list"
    BY DEF IInv, TypeOK, RemoveAllList
  <2>2. job' = [job EXCEPT ![p].names = Entries(p), ![p].pc = "unlink"]
    BY DEF RemoveAllList
  <2>3. job[p].op \in {"finalize", "delete", "cleanComplete", "cleanPending"}
    <3>1. job[p].op \in Ops
      BY <2>1 DEF Job
    <3>. QED  BY <2>1, <3>1 DEF IInv, JobShape, Shape, Ops
  <2>4. /\ OthersStay(p) /\ job'[p].pc = "unlink" /\ job'[p].op = job[p].op
        /\ job'[p].file = job[p].file /\ job'[p].names = Entries(p)
    BY <2>1, <2>2 DEF Job, OthersStay
  <2>5. job[p].op \in {"delete", "cleanComplete"} /\ job[p].file \in cEnc => "enc" \in Entries(p)
    BY DEF Entries, Pending
  <2>. QED  BY <2>1, <2>3, <2>4, <2>5
<1>3. Removals'
  BY <1>1, <1>2 DEF Removals, Due, Limit, OthersStay
<1>4. Moves'
  BY <1>1, <1>2 DEF Moves, OthersStay
<1>5. Ledger'
  BY <1>1, <1>2 DEF Ledger, Limit, OthersStay
<1>6. OnDisk'
  BY <1>1, <1>2 DEF OnDisk, Due, Limit, OthersStay
<1>. QED  BY <1>3, <1>4, <1>5, <1>6

\* A removal takes only what may go.
LEMMA RemoveAllUnlinkFiles ==
  ASSUME IInv, FilesInv, NEW p \in Procs, NEW e \in {"meta", "enc"}, RemoveAllUnlink(p, e)
  PROVE  FilesInv'
<1>. USE ScheduleConstants, ProcsFact DEF FilesInv
<1>1. UNCHANGED <<pDir, written, pData, cDir, left, cData, want, origin, known, told, used,
               lock, pass, expired, stale, acked, ended, published, served, doomed,
               deleted, crashes, broken>>
  BY DEF RemoveAllUnlink, pendingVars, completeVars, clientVars, fileVars, timeVars
<1>2. /\ OthersStay(p) /\ job[p].pc = "unlink" /\ job'[p].pc = "unlink"
      /\ job'[p].op = job[p].op /\ job'[p].file = job[p].file
      /\ job[p].op \in {"finalize", "delete", "cleanComplete", "cleanPending"}
      /\ job'[p].names = job[p].names \ {e}
  <2>1. job \in [Procs -> Job] /\ job[p].pc = "unlink"
    BY DEF IInv, TypeOK, RemoveAllUnlink
  <2>2. job' = [job EXCEPT ![p].names = @ \ {e}]
    BY DEF RemoveAllUnlink
  <2>3. job[p].op \in {"finalize", "delete", "cleanComplete", "cleanPending"}
    <3>1. job[p].op \in Ops
      BY <2>1 DEF Job
    <3>. QED  BY <2>1, <3>1 DEF IInv, JobShape, Shape, Ops
  <2>. QED  BY <2>1, <2>2, <2>3 DEF Job, OthersStay
<1>3. /\ cEnc' \subseteq cEnc /\ \A g \in Files : g # job[p].file => (g \in cEnc => g \in cEnc') /\ cMeta'[g] = cMeta[g]
      /\ job[p].op \in {"finalize", "cleanPending"} => cEnc' = cEnc /\ cMeta' = cMeta
      /\ job[p].op \in {"delete", "cleanComplete"} /\ e = "enc" => job[p].file \notin cEnc'
      /\ \A g \in Files : cMeta'[g] = cMeta[g] \/ cMeta'[g] = "absent"
  BY <1>2 DEF RemoveAllUnlink, Pending, IInv, TypeOK
<1>4. published \subseteq Files /\ deleted \subseteq Files /\ \A q \in Procs : job[q].op = "finalize" /\ job[q].pc \notin {"list", "unlink"} => job[q].file \notin published /\ job[q].file \in Files
  BY DEF IInv, TypeOK, History, JobShape, Shape
<1>5. Removals'
  BY <1>1, <1>2, <1>3, <1>4 DEF Removals, Due, Limit, OthersStay
<1>6. Moves'
  BY <1>1, <1>2, <1>3, <1>4 DEF Moves, OthersStay, Removals
<1>7. Ledger'
  BY <1>1, <1>2, <1>3, <1>4 DEF Ledger, Limit, OthersStay
<1>8. OnDisk'
  BY <1>1, <1>2, <1>3, <1>4 DEF OnDisk, Due, Limit, OthersStay, Removals
<1>. QED  BY <1>5, <1>6, <1>7, <1>8

\* The directory goes last, and Delete answers then.
LEMMA RemoveAllDirFiles ==
  ASSUME IInv, FilesInv, NEW p \in Procs, RemoveAllDir(p)
  PROVE  FilesInv'
<1>. USE ScheduleConstants, ProcsFact DEF FilesInv
<1>1. UNCHANGED <<pMeta, written, pEnc, pData, cMeta, left, cEnc, cData, want, origin, known,
               used, lock, pass, expired, stale, acked, published, served, doomed,
               crashes, broken>>
  BY DEF RemoveAllDir, pendingVars, completeVars, clientVars, fileVars, timeVars
<1>2. /\ OthersStay(p) /\ job[p].pc = "unlink" /\ job[p].names = {} /\ job'[p].op = "idle"
      /\ job[p].op \in {"finalize", "delete", "cleanComplete", "cleanPending"}
      /\ \A g \in cDir : g # job[p].file \/ job[p].op \in {"finalize", "cleanPending"} => g \in cDir'
      /\ deleted' = IF job[p].op = "delete" THEN deleted \cup {job[p].file} ELSE deleted
  <2>1. job \in [Procs -> Job] /\ job[p].pc = "unlink" /\ Return(p)
    BY DEF IInv, TypeOK, RemoveAllDir
  <2>3. job[p].op \in {"finalize", "delete", "cleanComplete", "cleanPending"}
    <3>1. job[p].op \in Ops
      BY <2>1 DEF Job
    <3>. QED  BY <2>1, <3>1 DEF IInv, JobShape, Shape, Ops
  <2>. QED  BY <2>1, <2>3, ReturnJob DEF RemoveAllDir, Pending
<1>3. \A q \in Procs : job[q].op = "finalize" /\ job[q].pc \notin {"list", "unlink"} => job[q].file \notin published
  BY DEF IInv, History
<1>4. Removals'
  BY <1>1, <1>2, <1>3 DEF Removals, Due, Limit, OthersStay
<1>5. Moves'
  BY <1>1, <1>2, <1>3 DEF Moves, OthersStay, Removals
<1>6. Ledger'
  BY <1>1, <1>2, <1>3 DEF Ledger, Limit, OthersStay
<1>7. OnDisk'
  BY <1>1, <1>2, <1>3 DEF OnDisk, Due, Limit, OthersStay, Removals
<1>. QED  BY <1>4, <1>5, <1>6, <1>7

\* A download takes its number from the meta.
LEMMA OpenDownloadFiles ==
  ASSUME IInv, FilesInv, NEW w \in Workers, NEW f \in Files, OpenDownload(w, f)
  PROVE  FilesInv'
<1>. USE ScheduleConstants, ProcsFact DEF FilesInv
<1>1. UNCHANGED <<pDir, pMeta, written, pEnc, pData, cDir, cMeta, left, cEnc, cData, want,
               origin, known, told, used, pass, expired, stale, acked, ended, published,
               served, doomed, deleted, crashes, broken>>
  BY DEF OpenDownload, pendingVars, completeVars, clientVars, fileVars, timeVars
<1>2. /\ OthersStay(w) /\ job'[w].op = "download" /\ job'[w].file = f /\ job'[w].n = left[f]
      /\ cMeta[f] = "ok" /\ f \in published /\ job[w].op = "idle"
  <2>1. job \in [Procs -> Job] /\ left[f] \in Int /\ Begin(w, "download", "open", None, f, left[f])
    BY DEF IInv, TypeOK, OpenDownload
  <2>. QED  BY <2>1, BeginFact, IdleJob, NamesFact DEF OpenDownload, IInv, Counting
<1>3. Removals'
  BY <1>1, <1>2 DEF Removals, Due, Limit, OthersStay
<1>4. Moves'
  BY <1>1, <1>2 DEF Moves, OthersStay
<1>5. Ledger'
  BY <1>1, <1>2 DEF Ledger, Limit, OthersStay
<1>6. OnDisk'
  BY <1>1, <1>2 DEF OnDisk, Due, Limit, OthersStay
<1>. QED  BY <1>3, <1>4, <1>5, <1>6

\* It is granted at once, goes on or fails.
LEMMA OpenEncFiles ==
  ASSUME IInv, FilesInv, NEW w \in Workers, OpenEnc(w)
  PROVE  FilesInv'
<1>. USE ScheduleConstants, ProcsFact DEF FilesInv
<1>1. UNCHANGED <<pDir, pMeta, written, pEnc, pData, cDir, cMeta, left, cEnc, cData, want,
               origin, known, told, used, pass, expired, stale, acked, ended, published,
               doomed, deleted, crashes, broken>>
  BY DEF OpenEnc, Granted, pendingVars, completeVars, clientVars, fileVars, timeVars
<1>2. /\ OthersStay(w) /\ job[w].op = "download" /\ job[w].pc = "open"
      /\ \A g \in published : served'[g] >= served[g] /\ served'[g] \in Nat /\ served[g] \in Nat
      /\ \A q \in Procs : job[q].op = "download" => q = w /\ job[q].file \in published
      /\ \/ job'[w].op = "idle"
         \/ /\ job'[w].op = "download" /\ job'[w].file = job[w].file /\ job'[w].n = job[w].n
            /\ job'[w].pc = "truncate" /\ served' = served
  <2>1. /\ job \in [Procs -> Job] /\ job[w].op = "download" /\ job[w].pc = "open" /\ job[w].file \in Files
        /\ served \in [Files -> Nat] /\ published \subseteq Files
        /\ \A q \in Procs : job[q].op = "download" => q = w /\ job[q].file \in published
    BY DEF IInv, TypeOK, JobShape, Shape, Counting, OpenEnc, At
  <2>2. CASE Return(w) /\ (UNCHANGED served \/ served' = [served EXCEPT ![job[w].file] = @ + 1])
    BY <2>1, <2>2, ReturnJob
  <2>3. CASE Goto(w, "truncate") /\ UNCHANGED served
    BY <2>1, <2>3, GotoJob, NamesFact
  <2>. QED  BY <2>2, <2>3 DEF OpenEnc, Granted
<1>3. \A f \in published : Limit(f) \in Nat /\ (cMeta[f] = "ok" => left[f] \in Int)
  BY DEF IInv, TypeOK, History, Limit
<1>4. Removals'
  BY <1>1, <1>2, <1>3 DEF Removals, Due, Limit, OthersStay
<1>5. Moves'
  BY <1>1, <1>2, <1>3 DEF Moves, OthersStay
<1>6. Ledger'
  BY <1>1, <1>2, <1>3 DEF Ledger, Limit, OthersStay
<1>7. OnDisk'
  BY <1>1, <1>2, <1>3 DEF OnDisk, Due, Limit, OthersStay
<1>. QED  BY <1>4, <1>5, <1>6, <1>7

\* Its meta is torn while it is rewritten.
LEMMA TruncateCounterFiles ==
  ASSUME IInv, FilesInv, NEW w \in Workers, TruncateCounter(w)
  PROVE  FilesInv'
<1>. USE ScheduleConstants, ProcsFact DEF FilesInv
<1>1. UNCHANGED <<pDir, pMeta, written, pEnc, pData, cDir, left, cEnc, cData, want, origin,
               known, told, used, pass, expired, stale, acked, ended, published, served,
               doomed, deleted, crashes, broken>>
  BY DEF TruncateCounter, pendingVars, completeVars, clientVars, fileVars, timeVars
<1>2. /\ OthersStay(w) /\ job[w].op = "download" /\ job[w].pc = "truncate" /\ job[w].file \in Files
      /\ \/ job'[w].op = "idle" /\ cMeta' = cMeta
         \/ /\ job'[w].op = "download" /\ job'[w].file = job[w].file /\ job'[w].n = job[w].n
            /\ job'[w].pc = "write" /\ cMeta' = [cMeta EXCEPT ![job[w].file] = "torn"]
  <2>1. /\ job \in [Procs -> Job] /\ job[w].op = "download" /\ job[w].pc = "truncate" /\ job[w].file \in Files
    BY DEF IInv, TypeOK, JobShape, Shape, TruncateCounter, At
  <2>2. CASE Return(w) /\ UNCHANGED cMeta
    BY <2>1, <2>2, ReturnJob
  <2>3. CASE Goto(w, "write") /\ cMeta' = [cMeta EXCEPT ![job[w].file] = "torn"]
    BY <2>1, <2>3, GotoJob, NamesFact
  <2>. QED  BY <2>2, <2>3 DEF TruncateCounter
<1>3. cMeta \in [Files -> MetaStates] /\ published \subseteq Files
  BY DEF IInv, TypeOK
<1>4. Removals'
  BY <1>1, <1>2, <1>3 DEF Removals, Due, Limit, OthersStay
<1>5. Moves'
  BY <1>1, <1>2, <1>3 DEF Moves, OthersStay
<1>6. Ledger'
  BY <1>1, <1>2, <1>3 DEF Ledger, Limit, OthersStay
<1>7. OnDisk'
  BY <1>1, <1>2, <1>3 DEF OnDisk, Due, Limit, OthersStay
<1>. QED  BY <1>4, <1>5, <1>6, <1>7

\* The counter is stored and the download granted.
LEMMA WriteCounterFiles ==
  ASSUME IInv, FilesInv, NEW w \in Workers, WriteCounter(w)
  PROVE  FilesInv'
<1>. USE ScheduleConstants, ProcsFact DEF FilesInv
<1>1. UNCHANGED <<pDir, pMeta, written, pEnc, pData, cDir, cEnc, cData, want, origin, known,
               told, used, pass, expired, stale, acked, ended, published, doomed,
               deleted, crashes, broken>>
  BY DEF WriteCounter, Granted, pendingVars, completeVars, clientVars, fileVars, timeVars
<1>2. /\ OthersStay(w) /\ job[w].op = "download" /\ job[w].pc = "write" /\ job'[w].op = "idle"
      /\ job[w].file \in published /\ job[w].n \in Int /\ job[w].n > 0
      /\ \A q \in Procs : job[q].op = "download" => q = w
  <2>1. /\ job \in [Procs -> Job] /\ job[w].op = "download" /\ job[w].pc = "write" /\ Return(w)
        /\ job[w].file \in published /\ job[w].n > 0
        /\ \A q \in Procs : job[q].op = "download" => q = w
    BY DEF IInv, TypeOK, Counting, WriteCounter, At, Granted
  <2>2. job[w].n \in Int
    BY <2>1 DEF Job
  <2>. QED  BY <2>1, <2>2, ReturnJob
<1>3. /\ published \subseteq Files /\ cMeta \in [Files -> MetaStates] /\ left \in [Files -> Int]
      /\ served \in [Files -> Nat] /\ \A g \in published : Limit(g) \in Nat
  BY DEF IInv, TypeOK, History, Limit
<1>4. /\ \A g \in published : served'[g] = IF g = job[w].file THEN served[g] + 1 ELSE served[g]
      /\ \A g \in published : g # job[w].file => cMeta'[g] = cMeta[g] /\ left'[g] = left[g]
      /\ \/ cMeta[job[w].file] = "absent" /\ cMeta'[job[w].file] = "absent"
         \/ cMeta'[job[w].file] = "ok" /\ left'[job[w].file] = job[w].n - 1
  BY <1>2, <1>3 DEF WriteCounter, Granted
<1>5. Removals'
  BY <1>1, <1>2, <1>3, <1>4 DEF Removals, Due, Limit, OthersStay
<1>6. Moves'
  BY <1>1, <1>2, <1>3, <1>4 DEF Moves, OthersStay
<1>7. Ledger'
  BY <1>1, <1>2, <1>3, <1>4 DEF Ledger, Limit, OthersStay
<1>8. OnDisk'
  BY <1>1, <1>2, <1>3, <1>4 DEF OnDisk, Due, Limit, OthersStay
<1>. QED  BY <1>5, <1>6, <1>7, <1>8

\* Delete dooms what it removes.
LEMMA DeleteFiles ==
  ASSUME IInv, FilesInv, NEW w \in Workers, NEW f \in Files, Delete(w, f)
  PROVE  FilesInv'
<1>. USE ScheduleConstants, ProcsFact DEF FilesInv
<1>1. UNCHANGED <<pDir, pMeta, written, pEnc, pData, cDir, cMeta, left, cEnc, cData, want,
               origin, known, told, used, lock, pass, expired, stale, acked, ended,
               published, served, deleted, crashes, broken>>
  BY DEF Delete, pendingVars, completeVars, clientVars, fileVars, timeVars
<1>2. /\ OthersStay(w) /\ job'[w].op = "delete" /\ job'[w].file = f /\ job'[w].pc = "list"
      /\ f \in published /\ job[w].op = "idle" /\ doomed' = doomed \cup {f}
  <2>1. job \in [Procs -> Job] /\ Begin(w, "delete", "list", None, f, 0)
    BY DEF IInv, TypeOK, Delete
  <2>. QED  BY <2>1, BeginFact, IdleJob, NamesFact DEF Delete, IInv, Counting
<1>3. Removals'
  BY <1>1, <1>2 DEF Removals, Due, Limit, OthersStay
<1>4. Moves'
  BY <1>1, <1>2 DEF Moves, OthersStay
<1>5. Ledger'
  BY <1>1, <1>2 DEF Ledger, Limit, OthersStay
<1>6. OnDisk'
  BY <1>1, <1>2 DEF OnDisk, Due, Limit, OthersStay
<1>. QED  BY <1>3, <1>4, <1>5, <1>6

\* A cleanup pass removes what is due.
LEMMA CleanCompleteFiles ==
  ASSUME IInv, FilesInv, NEW f \in Files, CleanComplete(f)
  PROVE  FilesInv'
<1>. USE ScheduleConstants, ProcsFact DEF FilesInv
<1>1. UNCHANGED <<pDir, pMeta, written, pEnc, pData, cDir, cMeta, left, cEnc, cData, want,
               origin, known, told, used, lock, expired, stale, acked, ended, published,
               served, doomed, deleted, crashes, broken>>
  BY DEF CleanComplete, pendingVars, completeVars, clientVars, fileVars, timeVars
<1>2. /\ OthersStay(Cleaner) /\ job[Cleaner].op = "idle" /\ pass'.expired = pass.expired
      /\ \/ job' = job
         \/ /\ job'[Cleaner].op = "cleanComplete" /\ job'[Cleaner].file = f
            /\ job'[Cleaner].pc = "list" /\ f \in published /\ Due(f)
  <2>1. job \in [Procs -> Job] /\ job[Cleaner].op = "idle" /\ pass \in Passes
    BY IdleJob DEF IInv, TypeOK, Passes, CleanComplete
  <2>2. pass'.expired = pass.expired
    BY <2>1 DEF CleanComplete, Passes
  <2>3. CASE UNCHANGED job
    BY <2>1, <2>2, <2>3 DEF OthersStay
  <2>4. CASE /\ Begin(Cleaner, "cleanComplete", "list", None, f, 0)
             /\ cMeta[f] = "ok" /\ (origin[f] \in pass.expired \/ left[f] = 0)
    <3>1. f \in published
      BY <2>4 DEF IInv, Counting
    <3>2. Limit(f) \in Nat /\ served[f] \in Nat
      BY <3>1 DEF IInv, TypeOK, History, Limit
    <3>3. Due(f)
      BY <2>4, <3>1, <3>2 DEF Due, Removals, Ledger
    <3>. QED  BY <2>1, <2>2, <2>4, <3>1, <3>3, BeginFact, NamesFact
  <2>. QED  BY <2>3, <2>4 DEF CleanComplete
<1>3. Removals'
  BY <1>1, <1>2 DEF Removals, Due, Limit, OthersStay
<1>4. Moves'
  BY <1>1, <1>2 DEF Moves, OthersStay
<1>5. Ledger'
  BY <1>1, <1>2 DEF Ledger, Limit, OthersStay
<1>6. OnDisk'
  BY <1>1, <1>2 DEF OnDisk, Due, Limit, OthersStay
<1>. QED  BY <1>3, <1>4, <1>5, <1>6

\* It may remove pending uploads too.
LEMMA CleanPendingFiles ==
  ASSUME IInv, FilesInv, NEW u \in Uploads, CleanPending(u)
  PROVE  FilesInv'
<1>. USE ScheduleConstants, ProcsFact DEF FilesInv
<1>1. UNCHANGED <<pDir, pMeta, written, pEnc, pData, cDir, cMeta, left, cEnc, cData, want,
               origin, known, told, used, lock, expired, stale, acked, ended, published,
               served, doomed, deleted, crashes, broken>>
  BY DEF CleanPending, pendingVars, completeVars, clientVars, fileVars, timeVars
<1>2. /\ OthersStay(Cleaner) /\ job[Cleaner].op = "idle" /\ pass'.expired = pass.expired
      /\ job' = job \/ job'[Cleaner].op = "cleanPending"
  <2>1. job \in [Procs -> Job] /\ pass \in Passes /\ job[Cleaner].op = "idle"
    BY IdleJob DEF IInv, TypeOK, Passes, CleanPending
  <2>2. pass'.expired = pass.expired
    BY <2>1 DEF CleanPending, Passes
  <2>3. CASE UNCHANGED job
    BY <2>1, <2>2, <2>3 DEF OthersStay
  <2>4. CASE Begin(Cleaner, "cleanPending", "list", u, None, 0)
    BY <2>1, <2>2, <2>4, BeginFact, NamesFact
  <2>. QED  BY <2>3, <2>4 DEF CleanPending
<1>3. Removals'
  BY <1>1, <1>2 DEF Removals, Due, Limit, OthersStay
<1>4. Moves'
  BY <1>1, <1>2 DEF Moves, OthersStay
<1>5. Ledger'
  BY <1>1, <1>2 DEF Ledger, Limit, OthersStay
<1>6. OnDisk'
  BY <1>1, <1>2 DEF OnDisk, Due, Limit, OthersStay
<1>. QED  BY <1>3, <1>4, <1>5, <1>6

\* What leaves the files and the jobs alone, and does not turn back the clock.
LEMMA QuietFiles ==
  ASSUME IInv, FilesInv, expired \subseteq expired', pass'.expired \subseteq expired',
         UNCHANGED <<pendingVars, completeVars, clientVars, fileVars, crashes, broken, job>>
  PROVE  FilesInv'
<1>1. UNCHANGED <<cDir, cMeta, left, cEnc, want, origin, job, published, served, doomed, deleted,
                  crashes, broken>>
  BY DEF pendingVars, completeVars, clientVars, fileVars
<1>. QED  BY <1>1 DEF FilesInv, Removals, Moves, Ledger, OnDisk, Due, Limit

\* After a crash a torn meta may stay torn: the download that was rewriting it has gone.
LEMMA CrashFiles ==
  ASSUME IInv, FilesInv, Crash
  PROVE  FilesInv'
<1>. USE ScheduleConstants DEF FilesInv
<1>1. /\ UNCHANGED <<cDir, cMeta, left, cEnc, want, origin, expired, published, served, doomed, deleted>>
      /\ \A p \in Procs : job'[p].op = "idle"
      /\ pass'.expired = {}
  BY IdleFact DEF Crash, completeVars, fileVars, IInv, TypeOK, NoPass
<1>2. Removals' /\ Moves' /\ Ledger'
  BY <1>1 DEF Removals, Moves, Ledger, Due, Limit
<1>3. \A f \in Files : f \in broken \/ (cMeta[f] # "ok" /\ \E p \in Procs : job[p].file = f)
                        => f \in broken'
  BY DEF Crash
<1>4. published \subseteq Files
  BY DEF IInv, TypeOK
<1>5. OnDisk'
  BY <1>1, <1>3, <1>4 DEF OnDisk, Due, Limit
<1>. QED  BY <1>2, <1>5

\* So may it when its write fails; nothing else on disk changes.
LEMMA CallFailsFiles ==
  ASSUME IInv, FilesInv, NEW w \in Workers, CallFails(w)
  PROVE  FilesInv'
<1>. USE ScheduleConstants, ProcsFact DEF FilesInv
<1>1. UNCHANGED <<cDir, cMeta, left, cEnc, want, origin, expired, published, served, doomed,
               deleted, pass>>
  BY DEF CallFails, Fail, completeVars, clientVars, fileVars
<1>2. /\ OthersStay(w) /\ job'[w].op = "idle"
      /\ broken \subseteq broken'
      /\ job[w].op = "download" /\ job[w].pc = "write" => job[w].file \in broken'
  <2>1. job \in [Procs -> Job] /\ Return(w)
    BY DEF CallFails, Fail, IInv, TypeOK
  <2>. QED  BY <2>1, ReturnJob DEF CallFails
<1>3. Removals'
  BY <1>1, <1>2 DEF Removals, Due, Limit, OthersStay
<1>4. Moves'
  BY <1>1, <1>2 DEF Moves, OthersStay
<1>5. Ledger'
  BY <1>1, <1>2 DEF Ledger, Limit, OthersStay
<1>6. OnDisk'
  BY <1>1, <1>2 DEF OnDisk, Due, Limit, OthersStay
<1>. QED  BY <1>3, <1>4, <1>5, <1>6

-----------------------------------------------------------------------------
(* Every step preserves ChunksInv.                                         *)

\* Handler w goes on with what it is doing.
KeepsOn(w) ==
  /\ job'[w].op = job[w].op /\ job'[w].upload = job[w].upload
  /\ job'[w].file = job[w].file /\ job'[w].n = job[w].n
  /\ job[w].op = "chunk" => (job[w].pc = "append" <=> job'[w].pc = "append")
  /\ job[w].op = "finalize" => \/ job'[w].pc = job[w].pc
                               \/ job'[w].pc \in {"list", "unlink"}
                               \/ job[w].pc = "truncate" /\ job'[w].pc = "write"

\* Handler w has nothing to do with an upload any more, or its client has given up.
Drops(w) ==
  /\ job'[w].op \in {"idle", "download", "delete"} /\ job'[w].upload = None
  /\ job[w].upload = None \/ job[w].upload \in ended'

\* What every client of the project relies on between its own steps.
LEMMA QuietChunks ==
  ASSUME IInv, ChunksInv, \A w \in Workers : KeepsOn(w) \/ Drops(w),
         UNCHANGED <<pData, cData, want, known, acked, origin, published>>,
         \A u \in Uploads : u \in told' <=> u \in told, ended \subseteq ended'
  PROVE  ChunksInv'
<1>. SUFFICES ASSUME OwnClient
              PROVE  Requests' /\ Contents'
  BY DEF ChunksInv
<1>1. Requests /\ Contents
  BY DEF ChunksInv
<1>2. \A w \in Workers : job[w].upload \in Uploads \cup {None}
  BY ProcsFact DEF IInv, TypeOK, Job
<1>3. Requests'
  <2>1. \A w \in Workers : job'[w].upload # None => job'[w].upload = job[w].upload
    BY DEF KeepsOn, Drops
  <2>2. \A w \in Workers : job'[w].op \in {"chunk", "finalize"} => job'[w].upload \in told'
    <3>. SUFFICES ASSUME NEW w \in Workers, job'[w].op \in {"chunk", "finalize"}
                  PROVE  job'[w].upload \in told'
      OBVIOUS
    <3>1. KeepsOn(w) /\ job[w].op \in {"chunk", "finalize"}
      BY DEF KeepsOn, Drops
    <3>2. job[w].upload \in told /\ job[w].upload \in Uploads
      BY <1>1, <3>1, ProcsFact DEF Requests, IInv, JobShape, Shape
    <3>. QED  BY <3>1, <3>2 DEF KeepsOn
  <2>3. \A w \in Workers : /\ job'[w].op \notin {"cleanComplete", "cleanPending"}
                           /\ job'[w].op \in {"idle", "download", "delete"} => job'[w].upload = None
    BY <1>1 DEF Requests, KeepsOn, Drops
  <2>4. \A v, w \in Workers : job'[v].upload # None /\ job'[v].upload = job'[w].upload => v = w
    BY <1>1, <2>1 DEF Requests
  <2>5. \A w \in Workers : job'[w].upload # None => job'[w].upload \in known'
    BY <1>1, <2>1 DEF Requests
  <2>. QED  BY <2>2, <2>3, <2>4, <2>5 DEF Requests
<1>4. Contents'
  <2>1. ASSUME NEW u \in Uploads, u \in told', u \notin ended', \A w \in Workers : job'[w].upload # u
        PROVE  pData'[u] = Count(acked'[u])
    BY <1>1, <2>1, ScheduleConstants DEF Contents, KeepsOn, Drops
  <2>2. ASSUME NEW w \in Workers, job'[w].op = "chunk"
        PROVE  /\ job'[w].n = acked'[job'[w].upload]
               /\ job'[w].pc = "append" => pData'[job'[w].upload] = Count(job'[w].n)
               /\ job'[w].pc # "append" => pData'[job'[w].upload] = Count(job'[w].n + 1)
    BY <1>1, <2>2 DEF Contents, KeepsOn, Drops
  <2>3. ASSUME NEW w \in Workers, job'[w].op = "finalize"
        PROVE  /\ job'[w].pc \in {"rename", "copy", "remove"} =>
                    pData'[job'[w].upload] = Count(want'[job'[w].upload].chunks)
               /\ job'[w].pc \in {"remove", "truncate", "write"} =>
                    cData'[job'[w].file] = Count(want'[job'[w].upload].chunks)
    BY <1>1, <2>3 DEF Contents, KeepsOn, Drops
  <2>4. /\ \A u \in Uploads : u \notin told' => acked'[u] = 0
        /\ \A f \in published' : cData'[f] = Count(want'[origin'[f]].chunks)
    BY <1>1 DEF Contents
  <2>. QED  BY <2>1, <2>2, <2>3, <2>4 DEF Contents
<1>. QED  BY <1>3, <1>4

\* The handlers other than w go on.
LEMMA OthersKeepOn ==
  ASSUME NEW p, OthersStay(p)
  PROVE  \A w \in Workers : w # p => KeepsOn(w)
BY ProcsFact DEF OthersStay, KeepsOn

\* Truncating the meta of an upload changes no chunk.
LEMMA TruncatePendingMetaChunks ==
  ASSUME IInv, ChunksInv, NEW w \in Workers, TruncatePendingMeta(w)
  PROVE  ChunksInv'
<1>. SUFFICES ASSUME OwnClient
              PROVE  ChunksInv'
  BY DEF ChunksInv
<1>. USE ScheduleConstants, ProcsFact
<1>1. Requests
  BY DEF ChunksInv
<1>2. /\ UNCHANGED <<pData, cData, want, known, acked, origin, published>> /\ ended \subseteq ended'
      /\ \A u \in Uploads : u \in told' <=> u \in told
  BY DEF TruncatePendingMeta, Fail, pendingVars, completeVars, clientVars, fileVars, timeVars
<1>3. OthersStay(w) /\ (KeepsOn(w) \/ Drops(w))
  <2>1. job \in [Procs -> Job] /\ job[w].op = "chunk" /\ job[w].pc = "truncate"
    BY DEF IInv, TypeOK, TruncatePendingMeta, At
  <2>2. CASE Fail(w, job[w].upload)
    BY <2>1, <2>2, ReturnJob DEF Fail, Drops
  <2>3. CASE Goto(w, "write")
    BY <2>1, <2>3, GotoJob, NamesFact DEF KeepsOn
  <2>. QED  BY <2>2, <2>3 DEF TruncatePendingMeta
<1>. QED  BY <1>2, <1>3, OthersKeepOn, QuietChunks

\* Nor does opening the meta of a file.
LEMMA TruncateFileMetaChunks ==
  ASSUME IInv, ChunksInv, NEW w \in Workers, TruncateFileMeta(w)
  PROVE  ChunksInv'
<1>. SUFFICES ASSUME OwnClient
              PROVE  ChunksInv'
  BY DEF ChunksInv
<1>. USE ScheduleConstants, ProcsFact
<1>1. Requests
  BY DEF ChunksInv
<1>2. /\ UNCHANGED <<pData, cData, want, known, acked, origin, published>> /\ ended \subseteq ended'
      /\ \A u \in Uploads : u \in told' <=> u \in told
  BY DEF TruncateFileMeta, pendingVars, completeVars, clientVars, fileVars, timeVars
<1>3. OthersStay(w) /\ (KeepsOn(w) \/ Drops(w))
  <2>1. job \in [Procs -> Job] /\ job[w].op = "finalize" /\ job[w].pc = "truncate" /\ Goto(w, "write")
    BY DEF IInv, TypeOK, TruncateFileMeta, At
  <2>. QED  BY <2>1, GotoJob, NamesFact DEF KeepsOn
<1>. QED  BY <1>2, <1>3, OthersKeepOn, QuietChunks

\* Listing a directory changes nothing.
LEMMA RemoveAllListChunks ==
  ASSUME IInv, ChunksInv, NEW p \in Procs, RemoveAllList(p)
  PROVE  ChunksInv'
<1>. SUFFICES ASSUME OwnClient
              PROVE  ChunksInv'
  BY DEF ChunksInv
<1>. USE ScheduleConstants, ProcsFact
<1>1. Requests
  BY DEF ChunksInv
<1>2. /\ UNCHANGED <<pData, cData, want, known, acked, origin, published>> /\ ended \subseteq ended'
      /\ \A u \in Uploads : u \in told' <=> u \in told
  BY DEF RemoveAllList, pendingVars, completeVars, clientVars, fileVars, timeVars
<1>3. OthersStay(p) /\ KeepsOn(p)
  <2>1. /\ job \in [Procs -> Job] /\ job[p].pc = "list"
        /\ job' = [job EXCEPT ![p].names = Entries(p), ![p].pc = "unlink"]
    BY DEF IInv, TypeOK, RemoveAllList
  <2>2. job[p].op # "chunk"
    BY <2>1 DEF IInv, JobShape, Shape
  <2>. QED  BY <2>1, <2>2 DEF Job, OthersStay, KeepsOn
<1>. QED  BY <1>2, <1>3, OthersKeepOn, QuietChunks

\* Unlinking data.enc takes its chunks from no one.
LEMMA RemoveAllUnlinkChunks ==
  ASSUME IInv, ChunksInv, NEW p \in Procs, NEW e \in {"meta", "enc"}, RemoveAllUnlink(p, e)
  PROVE  ChunksInv'
<1>. SUFFICES ASSUME OwnClient
              PROVE  ChunksInv'
  BY DEF ChunksInv
<1>. USE ScheduleConstants, ProcsFact
<1>1. Requests
  BY DEF ChunksInv
<1>2. /\ UNCHANGED <<pData, cData, want, known, acked, origin, published>> /\ ended \subseteq ended'
      /\ \A u \in Uploads : u \in told' <=> u \in told
  BY DEF RemoveAllUnlink, pendingVars, completeVars, clientVars, fileVars, timeVars
<1>3. OthersStay(p) /\ KeepsOn(p)
  <2>1. /\ job \in [Procs -> Job] /\ job[p].pc = "unlink"
        /\ job' = [job EXCEPT ![p].names = @ \ {e}]
    BY DEF IInv, TypeOK, RemoveAllUnlink
  <2>2. job[p].op # "chunk"
    BY <2>1 DEF IInv, JobShape, Shape
  <2>. QED  BY <2>1, <2>2 DEF Job, OthersStay, KeepsOn
<1>. QED  BY <1>2, <1>3, OthersKeepOn, QuietChunks

\* A client that has its file sends no more.
LEMMA RemoveAllDirChunks ==
  ASSUME IInv, ChunksInv, NEW p \in Procs, RemoveAllDir(p)
  PROVE  ChunksInv'
<1>. SUFFICES ASSUME OwnClient
              PROVE  ChunksInv'
  BY DEF ChunksInv
<1>. USE ScheduleConstants, ProcsFact
<1>1. Requests
  BY DEF ChunksInv
<1>2. /\ UNCHANGED <<pData, cData, want, known, acked, origin, published>> /\ ended \subseteq ended'
      /\ \A u \in Uploads : u \in told' <=> u \in told
  BY DEF RemoveAllDir, pendingVars, completeVars, clientVars, fileVars, timeVars, IInv, JobShape, Shape
<1>3. OthersStay(p) /\ (p \in Workers => Drops(p))
  <2>1. job \in [Procs -> Job] /\ job[p].pc = "unlink" /\ Return(p) /\ job[p].op \in Ops
    BY DEF IInv, TypeOK, RemoveAllDir, Job
  <2>2. job[p].op \in {"finalize", "delete", "cleanComplete", "cleanPending"}
    BY <2>1 DEF IInv, JobShape, Shape, Ops
  <2>3. p \in Workers => job[p].op \in {"finalize", "delete"}
    BY <1>1, <2>2 DEF Requests
  <2>. QED  BY <1>1, <2>1, <2>3, ReturnJob DEF RemoveAllDir, Drops, Requests
<1>. QED  BY <1>2, <1>3, OthersKeepOn, QuietChunks

\* Downloads do not touch uploads.
LEMMA OpenDownloadChunks ==
  ASSUME IInv, ChunksInv, NEW w \in Workers, NEW f \in Files, OpenDownload(w, f)
  PROVE  ChunksInv'
<1>. SUFFICES ASSUME OwnClient
              PROVE  ChunksInv'
  BY DEF ChunksInv
<1>. USE ScheduleConstants, ProcsFact
<1>1. Requests
  BY DEF ChunksInv
<1>2. /\ UNCHANGED <<pData, cData, want, known, acked, origin, published>> /\ ended \subseteq ended'
      /\ \A u \in Uploads : u \in told' <=> u \in told
  BY DEF OpenDownload, pendingVars, completeVars, clientVars, fileVars, timeVars
<1>3. OthersStay(w) /\ (KeepsOn(w) \/ Drops(w))
  <2>1. job \in [Procs -> Job] /\ left[f] \in Int /\ Begin(w, "download", "open", None, f, left[f])
    BY DEF IInv, TypeOK, OpenDownload
  <2>. QED  BY <2>1, BeginFact, IdleJob, NamesFact DEF OpenDownload, Drops
<1>. QED  BY <1>2, <1>3, OthersKeepOn, QuietChunks

\* A download is granted, goes on or fails.
LEMMA OpenEncChunks ==
  ASSUME IInv, ChunksInv, NEW w \in Workers, OpenEnc(w)
  PROVE  ChunksInv'
<1>. SUFFICES ASSUME OwnClient
              PROVE  ChunksInv'
  BY DEF ChunksInv
<1>. USE ScheduleConstants, ProcsFact
<1>1. Requests
  BY DEF ChunksInv
<1>2. /\ UNCHANGED <<pData, cData, want, known, acked, origin, published>> /\ ended \subseteq ended'
      /\ \A u \in Uploads : u \in told' <=> u \in told
  BY DEF OpenEnc, pendingVars, completeVars, clientVars, fileVars, timeVars
<1>3. OthersStay(w) /\ (KeepsOn(w) \/ Drops(w))
  <2>1. job \in [Procs -> Job] /\ job[w].op = "download"
    BY DEF IInv, TypeOK, OpenEnc, At
  <2>2. CASE Return(w)
    BY <1>1, <2>1, <2>2, ReturnJob DEF Drops, Requests
  <2>3. CASE Goto(w, "truncate")
    BY <2>1, <2>3, GotoJob, NamesFact DEF KeepsOn
  <2>. QED  BY <2>2, <2>3 DEF OpenEnc, Granted
<1>. QED  BY <1>2, <1>3, OthersKeepOn, QuietChunks

\* Its counter is opened.
LEMMA TruncateCounterChunks ==
  ASSUME IInv, ChunksInv, NEW w \in Workers, TruncateCounter(w)
  PROVE  ChunksInv'
<1>. SUFFICES ASSUME OwnClient
              PROVE  ChunksInv'
  BY DEF ChunksInv
<1>. USE ScheduleConstants, ProcsFact
<1>1. Requests
  BY DEF ChunksInv
<1>2. /\ UNCHANGED <<pData, cData, want, known, acked, origin, published>> /\ ended \subseteq ended'
      /\ \A u \in Uploads : u \in told' <=> u \in told
  BY DEF TruncateCounter, pendingVars, completeVars, clientVars, fileVars, timeVars
<1>3. OthersStay(w) /\ (KeepsOn(w) \/ Drops(w))
  <2>1. job \in [Procs -> Job] /\ job[w].op = "download"
    BY DEF IInv, TypeOK, TruncateCounter, At
  <2>2. CASE Return(w)
    BY <1>1, <2>1, <2>2, ReturnJob DEF Drops, Requests
  <2>3. CASE Goto(w, "write")
    BY <2>1, <2>3, GotoJob, NamesFact DEF KeepsOn
  <2>. QED  BY <2>2, <2>3 DEF TruncateCounter
<1>. QED  BY <1>2, <1>3, OthersKeepOn, QuietChunks

\* Its counter is stored.
LEMMA WriteCounterChunks ==
  ASSUME IInv, ChunksInv, NEW w \in Workers, WriteCounter(w)
  PROVE  ChunksInv'
<1>. SUFFICES ASSUME OwnClient
              PROVE  ChunksInv'
  BY DEF ChunksInv
<1>. USE ScheduleConstants, ProcsFact
<1>1. Requests
  BY DEF ChunksInv
<1>2. /\ UNCHANGED <<pData, cData, want, known, acked, origin, published>> /\ ended \subseteq ended'
      /\ \A u \in Uploads : u \in told' <=> u \in told
  BY DEF WriteCounter, pendingVars, completeVars, clientVars, fileVars, timeVars
<1>3. OthersStay(w) /\ (KeepsOn(w) \/ Drops(w))
  <2>1. job \in [Procs -> Job] /\ job[w].op = "download" /\ Return(w)
    BY DEF IInv, TypeOK, WriteCounter, At, Granted
  <2>. QED  BY <1>1, <2>1, ReturnJob DEF Drops, Requests
<1>. QED  BY <1>2, <1>3, OthersKeepOn, QuietChunks

\* Nor does Delete touch uploads.
LEMMA DeleteChunks ==
  ASSUME IInv, ChunksInv, NEW w \in Workers, NEW f \in Files, Delete(w, f)
  PROVE  ChunksInv'
<1>. SUFFICES ASSUME OwnClient
              PROVE  ChunksInv'
  BY DEF ChunksInv
<1>. USE ScheduleConstants, ProcsFact
<1>1. Requests
  BY DEF ChunksInv
<1>2. /\ UNCHANGED <<pData, cData, want, known, acked, origin, published>> /\ ended \subseteq ended'
      /\ \A u \in Uploads : u \in told' <=> u \in told
  BY DEF Delete, pendingVars, completeVars, clientVars, fileVars, timeVars
<1>3. OthersStay(w) /\ (KeepsOn(w) \/ Drops(w))
  <2>1. job \in [Procs -> Job] /\ Begin(w, "delete", "list", None, f, 0)
    BY DEF IInv, TypeOK, Delete
  <2>. QED  BY <2>1, BeginFact, IdleJob, NamesFact DEF Delete, Drops
<1>. QED  BY <1>2, <1>3, OthersKeepOn, QuietChunks

\* What the cleaner and the clock do is no handler's step.
LEMMA CleanChunks ==
  ASSUME IInv, ChunksInv, OthersStay(Cleaner), UNCHANGED <<pendingVars, completeVars, clientVars, fileVars>>
  PROVE  ChunksInv'
<1>1. \A w \in Workers : KeepsOn(w)
  BY ScheduleConstants, OthersKeepOn
<1>. QED  BY <1>1, QuietChunks DEF pendingVars, completeVars, clientVars, fileVars

\* The clients whose request a crash has cut off give up.
LEMMA CrashChunks ==
  ASSUME IInv, ChunksInv, Crash
  PROVE  ChunksInv'
<1>1. \A w \in Workers : Drops(w)
  <2>. SUFFICES ASSUME NEW w \in Workers
                PROVE  Drops(w)
    OBVIOUS
  <2>1. job'[w] = Idle
    BY ProcsFact DEF Crash
  <2>2. job[w].upload \in Uploads \cup {None}
    BY ProcsFact DEF IInv, TypeOK, Job
  <2>3. job[w].upload \in Uploads => job[w].upload \in ended'
    BY DEF Crash, InFlight
  <2>. QED  BY <2>1, <2>2, <2>3 DEF Drops, Idle
<1>. QED  BY <1>1, QuietChunks DEF Crash, pendingVars, completeVars, fileVars

\* So does the client whose request a failing call has ended.
LEMMA CallFailsChunks ==
  ASSUME IInv, ChunksInv, NEW w \in Workers, CallFails(w)
  PROVE  ChunksInv'
<1>. SUFFICES ASSUME OwnClient
              PROVE  ChunksInv'
  BY DEF ChunksInv
<1>. USE ScheduleConstants, ProcsFact
<1>1. Requests
  BY DEF ChunksInv
<1>2. /\ UNCHANGED <<pData, cData, want, known, acked, origin, published>> /\ ended \subseteq ended'
      /\ \A u \in Uploads : u \in told' <=> u \in told
  BY DEF CallFails, Fail, pendingVars, completeVars, clientVars, fileVars
<1>3. OthersStay(w) /\ Drops(w)
  <2>1. job \in [Procs -> Job]
    BY DEF IInv, TypeOK
  <2>2. CASE Fail(w, job[w].upload)
    BY <2>1, <2>2, ReturnJob DEF Fail, Drops
  <2>3. CASE job[w].op = "download" /\ Return(w)
    BY <1>1, <2>1, <2>3, ReturnJob DEF Drops, Requests
  <2>. QED  BY <2>2, <2>3 DEF CallFails
<1>. QED  BY <1>2, <1>3, OthersKeepOn, QuietChunks

\* A new upload: nothing is known of it yet.
LEMMA InitUploadChunks ==
  ASSUME IInv, ChunksInv, NEW w \in Workers, NEW u \in Uploads, NEW chunks \in Totals,
         NEW limit \in Requested, InitUpload(w, u, chunks, limit)
  PROVE  ChunksInv'
<1>. SUFFICES ASSUME OwnClient
              PROVE  ChunksInv'
  BY DEF ChunksInv
<1>. USE ScheduleConstants, ProcsFact
<1>1. Requests /\ Contents /\ job \in [Procs -> Job]
  BY DEF ChunksInv, IInv, TypeOK
<1>2. UNCHANGED <<pData, cData, told, acked, ended, origin, published>>
  BY DEF InitUpload, pendingVars, completeVars, clientVars, fileVars, timeVars
<1>3. /\ \A v \in Workers : v # w => job'[v] = job[v]
      /\ job'[w].op = "init" /\ job'[w].upload = u /\ job[w].upload = None
      /\ u \notin known /\ known' = known \cup {u}
  <2>1. \A v \in Workers : v # w => job'[v] = job[v]
    BY <1>1, BeginFact, NamesFact DEF InitUpload, OthersStay
  <2>. QED  BY <1>1, <2>1, BeginFact, NamesFact, IdleJob DEF InitUpload
<1>4. \A v \in Uploads : v \in known => want'[v] = want[v]
  BY <1>3 DEF InitUpload, IInv, TypeOK
<1>5. Requests'
  BY <1>1, <1>2, <1>3 DEF Requests
<1>6. Contents'
  <2>1. \A v \in Uploads : v \in told => v \in known
    BY DEF IInv, History
  <2>2. \A f \in published : origin[f] \in Uploads /\ origin[f] \in told
    BY DEF IInv, History
  <2>3. \A v \in Workers : job[v].op \in {"chunk", "finalize"} => job[v].upload \in Uploads /\ job[v].upload \in told
    BY <1>1 DEF Requests, IInv, JobShape, Shape
  <2>4. \A v \in Workers : job'[v].op \in {"chunk", "finalize"} => v # w
    BY <1>3
  <2>5. \A v \in Uploads : v \in told => v # u
    BY <1>3, <2>1
  <2>6. \A v \in Uploads : v # u => ((\A x \in Workers : job'[x].upload # v) => (\A x \in Workers : job[x].upload # v))
    BY <1>3
  <2>. QED  BY <1>1, <1>2, <1>3, <1>4, <2>1, <2>2, <2>3, <2>4, <2>5, <2>6 DEF Contents
<1>. QED  BY <1>5, <1>6 DEF ChunksInv

\* Its data.enc is empty when its client hears of it.
LEMMA CreateEncChunks ==
  ASSUME IInv, ChunksInv, NEW w \in Workers, CreateEnc(w)
  PROVE  ChunksInv'
<1>. SUFFICES ASSUME OwnClient
              PROVE  ChunksInv'
  BY DEF ChunksInv
<1>. USE ScheduleConstants, ProcsFact
<1>1. Requests /\ Contents /\ job \in [Procs -> Job]
  BY DEF ChunksInv, IInv, TypeOK
<1>2. UNCHANGED <<cData, want, known, acked, origin, published>>
  BY DEF CreateEnc, Fail, pendingVars, completeVars, clientVars, fileVars, timeVars
<1>3. PICK u \in Uploads : u = job[w].upload /\ u \notin told /\ job[w].op = "init"
  BY DEF CreateEnc, At, IInv, JobShape, Shape, History
<1>4. /\ OthersStay(w) /\ \A v \in Workers : v # w => job'[v] = job[v]
      /\ job'[w].op = "idle" /\ job'[w].upload = None
  <2>1. Return(w)
    BY DEF CreateEnc, Fail
  <2>. QED  BY <1>1, <2>1, ReturnJob DEF OthersStay
<1>5. CASE pData' = pData /\ told' = told /\ ended' = ended \cup {u}
  BY <1>2, <1>3, <1>4, <1>5, OthersKeepOn, QuietChunks DEF Drops
<1>6. CASE pData' = [pData EXCEPT ![u] = << >>] /\ told' = told \cup {u} /\ ended' = ended
  <2>1. /\ pData'[u] = << >> /\ acked[u] = 0
        /\ \A v \in Uploads : v # u => pData'[v] = pData[v]
    BY <1>1, <1>3, <1>6 DEF IInv, TypeOK, Contents
  <2>2. Requests'
    BY <1>1, <1>2, <1>4, <1>6 DEF Requests
  <2>3. \A v \in Workers : job'[v].op \in {"chunk", "finalize"} =>
          v # w /\ job[v].upload \in Uploads /\ job[v].upload # u
    BY <1>1, <1>3, <1>4 DEF Requests, IInv, JobShape, Shape
  <2>4. \A v \in Uploads : v # u => ((\A x \in Workers : job'[x].upload # v) => (\A x \in Workers : job[x].upload # v))
    BY <1>3, <1>4
  <2>5. Contents'
    <3>1. ASSUME NEW v \in Uploads, v \in told', v \notin ended', \A x \in Workers : job'[x].upload # v
          PROVE  pData'[v] = Count(acked'[v])
      <4>1. CASE v = u
        BY <1>2, <2>1, <4>1, CountFact
      <4>2. CASE v # u
        BY <1>1, <1>2, <1>6, <2>1, <2>4, <3>1, <4>2 DEF Contents
      <4>. QED  BY <4>1, <4>2
    <3>2. /\ \A v \in Uploads : v \notin told' => acked'[v] = 0
          /\ \A f \in published' : cData'[f] = Count(want'[origin'[f]].chunks)
      BY <1>1, <1>2, <1>6 DEF Contents
    <3>3. ASSUME NEW v \in Workers, job'[v].op \in {"chunk", "finalize"}
          PROVE  job'[v] = job[v] /\ pData'[job[v].upload] = pData[job[v].upload]
      BY <1>4, <2>1, <2>3, <3>3
    <3>. QED  BY <1>1, <1>2, <3>1, <3>2, <3>3 DEF Contents
  <2>. QED  BY <2>2, <2>5 DEF ChunksInv
<1>. QED  BY <1>3, <1>5, <1>6 DEF CreateEnc, Fail

\* The next chunk is the one after those that were acknowledged.
LEMMA AppendChunkChunks ==
  ASSUME IInv, ChunksInv, NEW w \in Workers, NEW u \in Uploads,
         NEW i \in 0 .. MaxChunks, AppendChunk(w, u, i)
  PROVE  ChunksInv'
<1>. SUFFICES ASSUME OwnClient
              PROVE  ChunksInv'
  BY DEF ChunksInv
<1>. USE ScheduleConstants, ProcsFact
<1>1. Requests /\ Contents /\ job \in [Procs -> Job]
  BY DEF ChunksInv, IInv, TypeOK
<1>2. /\ UNCHANGED <<pData, cData, want, known, told, acked, origin, published>>
      /\ job[w].upload = None /\ i \in Int
  BY IdleJob DEF AppendChunk, Fail, pendingVars, completeVars, clientVars, fileVars, timeVars
<1>3. CASE Fail(w, u)
  BY <1>1, <1>2, <1>3, ReturnJob, OthersKeepOn, QuietChunks DEF Fail, Drops
<1>4. CASE Begin(w, "chunk", "append", u, None, i) /\ UNCHANGED ended
  <2>1. /\ \A v \in Workers : v # w => job'[v] = job[v]
        /\ job'[w].op = "chunk" /\ job'[w].pc = "append" /\ job'[w].upload = u /\ job'[w].n = i
    BY <1>1, <1>2, <1>4, BeginFact, NamesFact DEF OthersStay
  <2>2. u \in told /\ u \notin ended /\ i = acked[u] /\ \A v \in Workers : job[v].upload # u
    BY DEF AppendChunk, MaySendChunk, MaySend, InFlight
  <2>3. pData[u] = Count(i) /\ u \in known
    BY <1>1, <2>2 DEF Contents, IInv, History
  <2>4. Requests'
    BY <1>1, <1>2, <2>1, <2>2, <2>3 DEF Requests
  <2>5. \A v \in Uploads : (\A x \in Workers : job'[x].upload # v) => (\A x \in Workers : job[x].upload # v)
    BY <1>2, <2>1
  <2>6. Contents'
    BY <1>1, <1>2, <1>4, <2>1, <2>2, <2>3, <2>5 DEF Contents
  <2>. QED  BY <2>4, <2>6 DEF ChunksInv
<1>. QED  BY <1>3, <1>4 DEF AppendChunk, clientVars

\* It is appended to data.enc.
LEMMA WriteChunkChunks ==
  ASSUME IInv, ChunksInv, NEW w \in Workers, WriteChunk(w)
  PROVE  ChunksInv'
<1>. SUFFICES ASSUME OwnClient
              PROVE  ChunksInv'
  BY DEF ChunksInv
<1>. USE ScheduleConstants, ProcsFact
<1>1. Requests /\ Contents /\ job \in [Procs -> Job]
  BY DEF ChunksInv, IInv, TypeOK
<1>2. UNCHANGED <<cData, want, known, told, acked, origin, published>>
  BY DEF WriteChunk, Fail, pendingVars, completeVars, clientVars, fileVars, timeVars
<1>3. PICK u \in Uploads : u = job[w].upload /\ job[w].op = "chunk" /\ job[w].pc = "append" /\ job[w].n \in Nat
  BY DEF WriteChunk, At, IInv, JobShape, Shape
<1>4. CASE Fail(w, u) /\ UNCHANGED pData
  BY <1>1, <1>2, <1>3, <1>4, ReturnJob, OthersKeepOn, QuietChunks DEF Fail, Drops
<1>5. CASE /\ pData' = [pData EXCEPT ![u] = Append(@, job[w].n)]
           /\ Goto(w, "truncate") /\ UNCHANGED ended
  <2>1. /\ \A v \in Workers : v # w => job'[v] = job[v]
        /\ job'[w].op = "chunk" /\ job'[w].pc = "truncate" /\ job'[w].upload = u
        /\ job'[w].n = job[w].n
    BY <1>1, <1>3, <1>5, GotoJob, NamesFact DEF OthersStay
  <2>2. pData[u] = Count(job[w].n) /\ job[w].n = acked[u]
    BY <1>1, <1>3 DEF Contents
  <2>3. pData'[u] = Count(job[w].n + 1) /\ \A v \in Uploads : v # u => pData'[v] = pData[v]
    <3>1. Append(pData[u], job[w].n) = Count(job[w].n + 1)
      BY <1>3, <2>2, CountFact
    <3>2. DOMAIN pData = Uploads
      BY DEF IInv, TypeOK
    <3>. QED  BY <1>5, <3>1, <3>2
  <2>4. Requests'
    BY <1>1, <1>2, <1>3, <2>1 DEF Requests
  <2>5. \A v \in Uploads : (\A x \in Workers : job'[x].upload # v) => v # u /\ (\A x \in Workers : job[x].upload # v)
    BY <1>3, <2>1
  <2>6. \A v \in Workers : v # w /\ job[v].op \in {"chunk", "finalize"} => job[v].upload \in Uploads /\ job[v].upload # u
    BY <1>1, <1>3 DEF Requests, IInv, JobShape, Shape
  <2>7. Contents'
    BY <1>1, <1>2, <1>3, <1>5, <2>1, <2>2, <2>3, <2>5, <2>6 DEF Contents
  <2>. QED  BY <2>4, <2>7 DEF ChunksInv
<1>. QED  BY <1>3, <1>4, <1>5 DEF WriteChunk, clientVars

\* And acknowledged.
LEMMA WritePendingMetaChunks ==
  ASSUME IInv, ChunksInv, NEW w \in Workers, WritePendingMeta(w)
  PROVE  ChunksInv'
<1>. SUFFICES ASSUME OwnClient
              PROVE  ChunksInv'
  BY DEF ChunksInv
<1>. USE ScheduleConstants, ProcsFact
<1>1. Requests /\ Contents /\ job \in [Procs -> Job]
  BY DEF ChunksInv, IInv, TypeOK
<1>2. UNCHANGED <<pData, cData, want, known, told, ended, origin, published>>
  BY DEF WritePendingMeta, pendingVars, completeVars, clientVars, fileVars, timeVars
<1>3. PICK u \in Uploads : u = job[w].upload /\ job[w].pc = "write" /\ job[w].op \in {"init", "chunk"}
  BY DEF WritePendingMeta, IInv, JobShape, Shape
<1>4. CASE job[w].op = "init"
  <2>1. Goto(w, "create") /\ UNCHANGED acked
    BY <1>4 DEF WritePendingMeta
  <2>. QED  BY <1>1, <1>2, <1>3, <1>4, <2>1, GotoJob, NamesFact, OthersKeepOn, QuietChunks DEF KeepsOn
<1>5. CASE job[w].op = "chunk"
  <2>1. Return(w) /\ acked' = [acked EXCEPT ![u] = job[w].n + 1]
    BY <1>3, <1>5 DEF WritePendingMeta
  <2>2. /\ \A v \in Workers : v # w => job'[v] = job[v]
        /\ job'[w].op = "idle" /\ job'[w].upload = None
    BY <1>1, <2>1, ReturnJob DEF OthersStay
  <2>3. acked'[u] = job[w].n + 1 /\ \A v \in Uploads : v # u => acked'[v] = acked[v]
    BY <2>1 DEF IInv, TypeOK
  <2>4. pData[u] = Count(job[w].n + 1) /\ u \in told
    BY <1>1, <1>3, <1>5 DEF Contents, Requests
  <2>5. Requests'
    BY <1>1, <1>2, <1>3, <2>2 DEF Requests
  <2>6. \A v \in Workers : v # w /\ job[v].op \in {"chunk", "finalize"} => job[v].upload \in Uploads /\ job[v].upload # u
    BY <1>1, <1>3 DEF Requests, IInv, JobShape, Shape
  <2>7. \A v \in Uploads : v # u => ((\A x \in Workers : job'[x].upload # v) => (\A x \in Workers : job[x].upload # v))
    BY <1>3, <2>2
  <2>8. Contents'
    BY <1>1, <1>2, <1>3, <2>2, <2>3, <2>4, <2>6, <2>7 DEF Contents
  <2>. QED  BY <2>5, <2>8 DEF ChunksInv
<1>. QED  BY <1>3, <1>4, <1>5

\* A client finalizes when all its chunks have been acknowledged.
LEMMA FinalizeUploadChunks ==
  ASSUME IInv, ChunksInv, NEW w \in Workers, NEW u \in Uploads, NEW f \in Files, FinalizeUpload(w, u, f)
  PROVE  ChunksInv'
<1>. SUFFICES ASSUME OwnClient
              PROVE  ChunksInv'
  BY DEF ChunksInv
<1>. USE ScheduleConstants, ProcsFact
<1>1. Requests /\ Contents /\ job \in [Procs -> Job]
  BY DEF ChunksInv, IInv, TypeOK
<1>2. UNCHANGED <<pData, cData, want, known, told, acked, published>> /\ job[w].upload = None
  BY IdleJob DEF FinalizeUpload, Fail, pendingVars, completeVars, clientVars, fileVars, timeVars
<1>3. CASE Fail(w, u) /\ UNCHANGED origin
  BY <1>1, <1>2, <1>3, ReturnJob, OthersKeepOn, QuietChunks DEF Fail, Drops
<1>4. CASE /\ Begin(w, "finalize", IF SameDevice THEN "rename" ELSE "copy", u, f, 0)
           /\ origin' = [origin EXCEPT ![f] = u] /\ UNCHANGED ended
  <2>1. (IF SameDevice THEN "rename" ELSE "copy") \in Labels \cap {"rename", "copy"}
    BY NamesFact
  <2>2. /\ \A v \in Workers : v # w => job'[v] = job[v]
        /\ job'[w].op = "finalize" /\ job'[w].upload = u /\ job'[w].file = f
        /\ job'[w].pc \in {"rename", "copy"}
    BY <1>1, <1>4, <2>1, BeginFact, NamesFact DEF OthersStay
  <2>3. u \in told /\ u \notin ended /\ acked[u] = want[u].chunks /\ \A v \in Workers : job[v].upload # u
    BY DEF FinalizeUpload, MayFinalize, MaySend, InFlight
  <2>4. pData[u] = Count(want[u].chunks) /\ u \in known
    BY <1>1, <2>3 DEF Contents, IInv, History
  <2>5. \A g \in published : origin'[g] = origin[g]
    BY <1>4 DEF FinalizeUpload, IInv, TypeOK, History
  <2>6. Requests'
    BY <1>1, <1>2, <2>2, <2>3, <2>4 DEF Requests
  <2>7. \A v \in Uploads : (\A x \in Workers : job'[x].upload # v) => (\A x \in Workers : job[x].upload # v)
    BY <1>2, <2>2
  <2>8. Contents'
    BY <1>1, <1>2, <1>4, <2>2, <2>4, <2>5, <2>7 DEF Contents
  <2>. QED  BY <2>6, <2>8 DEF ChunksInv
<1>. QED  BY <1>3, <1>4 DEF FinalizeUpload, clientVars

\* What is moved is the whole of data.enc.
LEMMA MoveFileChunks ==
  ASSUME IInv, ChunksInv, NEW w \in Workers, MoveFile(w)
  PROVE  ChunksInv'
<1>. SUFFICES ASSUME OwnClient
              PROVE  ChunksInv'
  BY DEF ChunksInv
<1>. USE ScheduleConstants, ProcsFact
<1>1. Requests /\ Contents /\ job \in [Procs -> Job]
  BY DEF ChunksInv, IInv, TypeOK
<1>2. UNCHANGED <<pData, want, known, told, acked, origin, published>>
  BY DEF MoveFile, Fail, pendingVars, completeVars, clientVars, fileVars, timeVars
<1>3. PICK u \in Uploads, f \in Files :
        /\ u = job[w].upload /\ f = job[w].file /\ job[w].op = "finalize"
        /\ job[w].pc \in {"rename", "copy", "remove"} /\ f \notin published
  BY DEF MoveFile, IInv, JobShape, Shape, History
<1>4. CASE Fail(w, u) /\ UNCHANGED cData
  BY <1>1, <1>2, <1>3, <1>4, ReturnJob, OthersKeepOn, QuietChunks DEF Fail, Drops
<1>5. CASE /\ Goto(w, IF job[w].pc = "copy" THEN "remove" ELSE "truncate") /\ UNCHANGED ended
           /\ cData' = IF job[w].pc = "remove" THEN cData ELSE [cData EXCEPT ![f] = pData[u]]
  <2>1. (IF job[w].pc = "copy" THEN "remove" ELSE "truncate") \in Labels \cap {"remove", "truncate"}
    BY NamesFact
  <2>2. /\ \A v \in Workers : v # w => job'[v] = job[v]
        /\ job'[w].op = "finalize" /\ job'[w].upload = u /\ job'[w].file = f
        /\ job'[w].pc \in {"remove", "truncate"}
    BY <1>1, <1>3, <1>5, <2>1, GotoJob DEF OthersStay
  <2>3. /\ cData'[f] = Count(want[u].chunks) /\ pData[u] = Count(want[u].chunks)
        /\ \A g \in Files : g # f => cData'[g] = cData[g]
    BY <1>1, <1>3, <1>5 DEF Contents, IInv, TypeOK
  <2>4. \A v \in Workers : v # w /\ job[v].op = "finalize" => job[v].file \in Files /\ job[v].file # f
    BY <1>3 DEF IInv, JobShape, Shape, History
  <2>5. Requests'
    BY <1>1, <1>2, <1>3, <2>2 DEF Requests
  <2>6. \A v \in Uploads : (\A x \in Workers : job'[x].upload # v) => (\A x \in Workers : job[x].upload # v)
    BY <1>3, <2>2
  <2>7. \A g \in published : cData'[g] = cData[g]
    BY <1>3, <2>3 DEF IInv, TypeOK
  <2>8. Contents'
    BY <1>1, <1>2, <1>3, <1>5, <2>2, <2>3, <2>4, <2>6, <2>7 DEF Contents
  <2>. QED  BY <2>5, <2>8 DEF ChunksInv
<1>. QED  BY <1>3, <1>4, <1>5 DEF MoveFile, clientVars

\* And what is published is what was moved.
LEMMA WriteFileMetaChunks ==
  ASSUME IInv, ChunksInv, NEW w \in Workers, WriteFileMeta(w)
  PROVE  ChunksInv'
<1>. SUFFICES ASSUME OwnClient
              PROVE  ChunksInv'
  BY DEF ChunksInv
<1>. USE ScheduleConstants, ProcsFact
<1>1. Requests /\ Contents /\ job \in [Procs -> Job]
  BY DEF ChunksInv, IInv, TypeOK
<1>2. UNCHANGED <<pData, cData, want, known, told, acked, ended, origin>>
  BY DEF WriteFileMeta, pendingVars, completeVars, clientVars, fileVars, timeVars
<1>3. PICK u \in Uploads, f \in Files :
        /\ u = job[w].upload /\ f = job[w].file /\ job[w].op = "finalize" /\ job[w].pc = "write"
        /\ origin[f] = u /\ published' = published \cup {f}
  BY DEF WriteFileMeta, At, IInv, JobShape, Shape, History
<1>4. /\ \A v \in Workers : v # w => job'[v] = job[v]
      /\ job'[w].op = "finalize" /\ job'[w].upload = u /\ job'[w].pc = "list"
  <2>1. Goto(w, "list")
    BY DEF WriteFileMeta
  <2>. QED  BY <1>1, <1>3, <2>1, GotoJob, NamesFact DEF OthersStay
<1>5. cData[f] = Count(want[origin[f]].chunks)
  BY <1>1, <1>3 DEF Contents
<1>6. Requests'
  BY <1>1, <1>2, <1>3, <1>4 DEF Requests
<1>7. \A v \in Uploads : (\A x \in Workers : job'[x].upload # v) => (\A x \in Workers : job[x].upload # v)
  BY <1>3, <1>4
<1>8. Contents'
  BY <1>1, <1>2, <1>3, <1>4, <1>5, <1>7 DEF Contents
<1>. QED  BY <1>6, <1>8 DEF ChunksInv

-----------------------------------------------------------------------------
(* The theorems.                                                           *)

Inv == IInv /\ FilesInv /\ ChunksInv

\* The store at its start.
LEMMA InitFiles ==
  ASSUME Init
  PROVE  Inv
<1>1. IInv
  BY InitInv
<1>2. /\ \A p \in Procs : job[p].op = "idle" /\ job[p].upload = None
      /\ published = {} /\ deleted = {} /\ pass.expired = {} /\ told = {}
      /\ acked = [u \in Uploads |-> 0]
  BY DEF Init, Idle, NoPass
<1>3. FilesInv
  BY <1>2 DEF FilesInv, Removals, Moves, Ledger, OnDisk
<1>4. ChunksInv
  BY <1>2, ProcsFact DEF ChunksInv, Requests, Contents
<1>. QED  BY <1>1, <1>3, <1>4 DEF Inv

\* Every step of the handlers, the cleaner, the clock and a crash.
LEMMA NextFiles ==
  ASSUME Inv, [Next]_vars
  PROVE  Inv'
<1>. USE DEF Inv
<1>1. IInv'
  BY StepInv
<1>2. ASSUME NEW w \in Workers, UploadStep(w) PROVE FilesInv' /\ ChunksInv'
  <2>1. FilesInv'
    BY <1>2, InitUploadFiles, CreateEncFiles, AppendChunkFiles, WriteChunkFiles,
       TruncatePendingMetaFiles, WritePendingMetaFiles, FinalizeUploadFiles, MoveFileFiles,
       TruncateFileMetaFiles, WriteFileMetaFiles DEF UploadStep
  <2>2. ChunksInv'
    BY <1>2, InitUploadChunks, CreateEncChunks, AppendChunkChunks, WriteChunkChunks,
       TruncatePendingMetaChunks, WritePendingMetaChunks, FinalizeUploadChunks, MoveFileChunks,
       TruncateFileMetaChunks, WriteFileMetaChunks DEF UploadStep
  <2>. QED  BY <2>1, <2>2
<1>3. ASSUME NEW w \in Workers, DownloadStep(w) PROVE FilesInv' /\ ChunksInv'
  <2>1. FilesInv'
    BY <1>3, OpenDownloadFiles, OpenEncFiles, TruncateCounterFiles, WriteCounterFiles, DeleteFiles
       DEF DownloadStep
  <2>2. ChunksInv'
    BY <1>3, OpenDownloadChunks, OpenEncChunks, TruncateCounterChunks, WriteCounterChunks,
       DeleteChunks DEF DownloadStep
  <2>. QED  BY <2>1, <2>2
<1>4. ASSUME NEW p \in Procs, RemoveStep(p) PROVE FilesInv' /\ ChunksInv'
  <2>1. FilesInv'
    BY <1>4, RemoveAllListFiles, RemoveAllUnlinkFiles, RemoveAllDirFiles DEF RemoveStep
  <2>2. ChunksInv'
    BY <1>4, RemoveAllListChunks, RemoveAllUnlinkChunks, RemoveAllDirChunks DEF RemoveStep
  <2>. QED  BY <2>1, <2>2
<1>5. ASSUME OthersStay(Cleaner), UNCHANGED <<pendingVars, completeVars, clientVars, fileVars>>
      PROVE  ChunksInv'
  BY <1>5, CleanChunks
<1>6. ASSUME UNCHANGED job PROVE OthersStay(Cleaner)
  BY <1>6 DEF OthersStay
<1>7. pass \in Passes /\ pass.expired \subseteq expired /\ job \in [Procs -> Job]
  BY DEF IInv, TypeOK, Passes, FilesInv, Removals
<1>8. ASSUME UNCHANGED <<pendingVars, completeVars, clientVars, fileVars, crashes, broken, job>>,
             expired \subseteq expired', pass'.expired \subseteq expired'
      PROVE  FilesInv' /\ ChunksInv'
  BY <1>5, <1>6, <1>8, QuietFiles
<1>9. CASE CleanStep
  <2>1. CASE CleanExpired
    <3>1. pass'.expired = expired /\ expired' = expired
      BY <2>1 DEF CleanExpired, timeVars
    <3>. QED  BY <1>1, <1>8, <2>1, <3>1 DEF CleanExpired, timeVars
  <2>2. CASE ListPending
    <3>1. pass'.expired = pass.expired /\ expired' = expired
      BY <1>7, <2>2 DEF ListPending, timeVars, Passes
    <3>. QED  BY <1>1, <1>7, <1>8, <2>2, <3>1 DEF ListPending, timeVars
  <2>3. CASE CleanEnd
    <3>1. pass'.expired = {} /\ expired' = expired
      BY <2>3 DEF CleanEnd, NoPass, timeVars
    <3>. QED  BY <1>1, <1>8, <2>3, <3>1 DEF CleanEnd, timeVars
  <2>4. ASSUME NEW f \in Files, CleanComplete(f) PROVE FilesInv' /\ ChunksInv'
    <3>1. OthersStay(Cleaner)
      BY <1>6, <1>7, <2>4, BeginFact, NamesFact, ProcsFact, SMTT(30) DEF CleanComplete
    <3>. QED  BY <1>5, <2>4, <3>1, CleanCompleteFiles DEF CleanComplete
  <2>5. ASSUME NEW u \in Uploads, CleanPending(u) PROVE FilesInv' /\ ChunksInv'
    <3>1. OthersStay(Cleaner)
      <4>1. CASE Begin(Cleaner, "cleanPending", "list", u, None, 0)
        BY <1>7, <4>1, BeginFact, NamesFact, ProcsFact
      <4>. QED  BY <1>6, <2>5, <4>1 DEF CleanPending
    <3>. QED  BY <1>5, <2>5, <3>1, CleanPendingFiles DEF CleanPending
  <2>. QED  BY <1>1, <1>9, <2>1, <2>2, <2>3, <2>4, <2>5 DEF CleanStep
<1>10. ASSUME NEW u \in Uploads, Expire(u) \/ GrowStale(u) PROVE FilesInv' /\ ChunksInv'
  <2>1. expired \subseteq expired' /\ pass' = pass
    BY <1>10 DEF Expire, GrowStale
  <2>. QED  BY <1>7, <1>8, <1>10, <2>1 DEF Expire, GrowStale
<1>11. CASE Crash
  BY <1>1, <1>11, CrashFiles, CrashChunks
<1>13. ASSUME NEW w \in Workers, CallFails(w) PROVE FilesInv' /\ ChunksInv'
  BY <1>13, CallFailsFiles, CallFailsChunks
<1>12. CASE UNCHANGED vars
  BY <1>1, <1>7, <1>8, <1>12 DEF vars, timeVars
<1>. QED  BY <1>1, <1>2, <1>3, <1>4, <1>9, <1>10, <1>11, <1>12, <1>13 DEF Next

\* The invariant holds in every reachable state.
LEMMA FilesInvariance == Spec => []Inv
<1>1. Init => Inv
  BY InitFiles
<1>2. Inv /\ [Next]_vars => Inv'
  BY NextFiles
<1>. QED  BY <1>1, <1>2, PTL DEF Spec

\* Whatever clients, cleanup passes, downloads, failing calls and crashes do: a file that
\* is neither expired nor used up nor deleted stays on disk, and its meta is readable but
\* while a download rewrites it or after a crash or a failed write in the middle of that
\* (CleanExpired, OpenDownload, writeFileMeta).
THEOREM KeptHolds == Spec => []Kept
<1>1. Inv => Kept
  <2>. SUFFICES ASSUME Inv, NEW f \in published
                PROVE  \/ origin[f] \in expired
                       \/ want[origin[f]].limit > 0 /\ served[f] >= want[origin[f]].limit
                       \/ f \in doomed
                       \/ /\ f \in cDir /\ f \in cEnc
                          /\ \/ cMeta[f] = "ok"
                             \/ /\ cMeta[f] = "torn"
                                /\ \/ f \in broken
                                   \/ \E w \in Workers : At(w, "download", "write") /\ job[w].file = f
    BY DEF Kept
  <2>1. cMeta[f] \in {"absent", "torn", "ok"}
    BY DEF Inv, IInv, TypeOK, MetaStates
  <2>2. \A p \in Procs : job[p].op = "download" => p \in Workers
    BY ScheduleConstants DEF Inv, IInv, TypeOK, Counting, Procs
  <2>. QED  BY <2>1, <2>2 DEF Inv, FilesInv, OnDisk, Due, Limit, At
<1>. QED  BY <1>1, FilesInvariance, PTL

\* When Delete has answered, the content is gone and never comes back (Delete, RemoveAll).
THEOREM DeletedHolds == Spec => []DeletedGone
<1>1. Inv => DeletedGone
  BY DEF Inv, FilesInv, Removals, DeletedGone
<1>. QED  BY <1>1, FilesInvariance, PTL

\* If all uploads come from the project's own clients, every file that can be downloaded
\* holds each chunk once and in order, across crashes (AppendChunk, moveFile).
THEOREM ContentHolds == Spec => [](OwnClient => ContentExact)
<1>1. Inv => (OwnClient => ContentExact)
  BY DEF Inv, ChunksInv, Contents, ContentExact, Count
<1>. QED  BY <1>1, FilesInvariance, PTL
=============================================================================
