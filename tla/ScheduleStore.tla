--------------------------- MODULE ScheduleStore ---------------------------
(***************************************************************************)
(* Scheduled uploads: the file store of internal/schedule/store.go, the    *)
(* HTTP handlers of handler.go that call it and the cleanup pass that runs *)
(* beside them.                                                            *)
(*                                                                         *)
(* An upload lives in pending/<uploadID>/ and a finished file in           *)
(* complete/<fileID>/, each a directory with data.enc and meta.json.  Only *)
(* downloads take a lock.  Every handler is a goroutine and every file     *)
(* system call it makes that another process can observe is a step of its  *)
(* own; os.WriteFile is two, because it truncates the file before it       *)
(* writes it.  A crash stops every process between two steps, and any call *)
(* but an unlink may fail.                                                 *)
(*                                                                         *)
(* The immutable part of a meta.json is kept by its id (want, origin); its *)
(* one counter is on disk (written, left) and readable when the file is    *)
(* "ok".  A chunk is known by its index.                                   *)
(***************************************************************************)
EXTENDS Integers, Sequences, FiniteSets

CONSTANTS
  Workers,        \* HTTP handler goroutines
  Cleaner,        \* the process that runs CleanExpired
  Uploads,        \* upload ids, random and never reused
  Files,          \* file ids, random and never reused
  None,           \* no process, no upload, no file
  Totals,         \* chunk counts clients announce
  Requested,      \* download limits clients ask for
  Cap,            \* GMMFF_SCHEDULE_MAX_DOWNLOADS, 0 for no cap
  SameDevice,     \* pending/ and complete/ are on one file system
  OwnClient,      \* uploads come from the project's own clients only
  MaxChunks,      \* bound: chunks appended to one upload
  MaxServed,      \* bound: downloads of a file without limit
  MaxCrashes      \* bound: crashes of the server

Procs == Workers \cup {Cleaner}

ASSUME ScheduleConstants ==
  /\ Cleaner \notin Workers
  /\ None \notin Procs \cup Uploads \cup Files
  /\ Uploads \cap Files = {}
  /\ Totals \subseteq Nat \ {0}
  /\ Requested \subseteq Int
  /\ Cap \in Nat
  /\ SameDevice \in BOOLEAN /\ OwnClient \in BOOLEAN
  /\ MaxChunks \in Nat /\ MaxServed \in Nat /\ MaxCrashes \in Nat

VARIABLES
  pDir, pMeta, written, pEnc, pData,   \* pending/: directories, meta.json, data.enc
  cDir, cMeta, left, cEnc, cData,      \* complete/: the same, left is DownloadsLeft
  want,       \* UploadMeta as InitUpload made it: chunks and download limit
  origin,     \* the upload a file was finalized from
  known,      \* upload ids that InitUpload has generated
  told,       \* ids an answer has carried to a client: uploads and files
  used,       \* file ids that FinalizeUpload has generated
  lock,       \* the holder of Store.dlMu
  job,        \* what every process is doing
  pass,       \* the cleaner's pass over the two directories
  expired,    \* uploads whose ExpiresAt has passed
  stale,      \* uploads made more than 24 hours ago
  acked,      \* chunks the uploader has seen accepted
  ended,      \* uploads whose client has stopped: finished, or a request failed
  published,  \* files whose FileMeta has been written
  served,     \* downloads OpenDownload has granted, for each file
  doomed,     \* files whose removal a Delete has begun
  deleted,    \* files for which Delete has returned success
  crashes,    \* crashes so far
  broken      \* ids whose meta.json a crash or a failed write left unreadable or unlinked

pendingVars  == <<pDir, pMeta, written, pEnc, pData>>
completeVars == <<cDir, cMeta, left, cEnc, cData>>
clientVars   == <<want, known, told, acked, ended>>
fileVars     == <<origin, used, published, served, doomed, deleted>>
timeVars     == <<expired, stale, crashes, broken>>
vars == <<pendingVars, completeVars, clientVars, fileVars, timeVars, lock, job, pass>>

\* A handler between two requests.
Idle == [op |-> "idle", pc |-> "idle", upload |-> None, file |-> None, n |-> 0, names |-> {}]

\* A cleaner between two passes.
NoPass == [at |-> "off", todo |-> {}, expired |-> {}, stale |-> {}]

Init ==
  /\ pDir = {} /\ pEnc = {} /\ cDir = {} /\ cEnc = {}
  /\ pMeta = [u \in Uploads |-> "absent"] /\ cMeta = [f \in Files |-> "absent"]
  /\ written = [u \in Uploads |-> 0] /\ left = [f \in Files |-> 0]
  /\ pData = [u \in Uploads |-> <<>>] /\ cData = [f \in Files |-> <<>>]
  /\ want = [u \in Uploads |-> [chunks |-> 0, limit |-> 0]]
  /\ origin = [f \in Files |-> None]
  /\ known = {} /\ told = {} /\ used = {} /\ published = {} /\ doomed = {} /\ deleted = {}
  /\ lock = None
  /\ job = [p \in Procs |-> Idle]
  /\ pass = NoPass
  /\ expired = {} /\ stale = {}
  /\ acked = [u \in Uploads |-> 0] /\ ended = {}
  /\ served = [f \in Files |-> 0]
  /\ crashes = 0 /\ broken = {}

\* Helpers for the steps of a process.
At(p, op, pc) == job[p].op = op /\ job[p].pc = pc
Goto(p, pc)   == job' = [job EXCEPT ![p].pc = pc]
Return(p)     == job' = [job EXCEPT ![p] = Idle]
Begin(p, op, pc, u, f, n) ==
  job' = [job EXCEPT ![p] =
            [op |-> op, pc |-> pc, upload |-> u, file |-> f, n |-> n, names |-> {}]]

\* An error answer to an upload request: the project's clients give up.
Fail(p, u) == Return(p) /\ ended' = ended \cup {u} /\ UNCHANGED <<want, known, told, acked>>

-----------------------------------------------------------------------------
(* What clients send.  The project's own clients upload one chunk at a     *)
(* time, ask for the next one only after the last was accepted, and stop   *)
(* at the first error; other clients may send any request at any time.     *)

InFlight(u) == \E w \in Workers : job[w].upload = u

\* A client that goes on after an error, sending the same request again.
MaySendAgain(u) == OwnClient => ~ InFlight(u)

MaySend(u) == OwnClient => u \notin ended /\ ~ InFlight(u)

MaySendChunk(u, i) ==
  /\ MaySend(u)
  /\ OwnClient => i = acked[u] /\ i < want[u].chunks

MayFinalize(u) ==
  /\ MaySend(u)
  /\ OwnClient => acked[u] = want[u].chunks

-----------------------------------------------------------------------------
(* Upload.                                                                 *)

\* ClampDownloads without the lower bound: a negative limit passes as unlimited.
ClampDownloadsAbove(n) == IF Cap > 0 /\ (n = 0 \/ n > Cap) THEN Cap ELSE n

\* The download limit handleUploadInit stores: 0 is unlimited.
ClampDownloads(n) ==
  LET atLeast0 == IF n < 0 THEN 0 ELSE n
  IN  IF Cap > 0 /\ (atLeast0 = 0 \/ atLeast0 > Cap) THEN Cap ELSE atLeast0

\* InitUpload makes the directory and opens a new meta.json in it.
InitUpload(w, u, chunks, limit) ==
  /\ job[w] = Idle
  /\ u \notin known
  /\ known' = known \cup {u}
  /\ want' = [want EXCEPT ![u] = [chunks |-> chunks, limit |-> ClampDownloads(limit)]]
  /\ pDir' = pDir \cup {u}
  /\ pMeta' = [pMeta EXCEPT ![u] = "torn"]
  /\ Begin(w, "init", "write", u, None, 0)
  /\ UNCHANGED <<written, pEnc, pData, completeVars, told, acked, ended, fileVars, timeVars,
                 lock, pass>>

\* InitUpload creates the empty data.enc and answers.
CreateEnc(w) ==
  LET u == job[w].upload
  IN  /\ At(w, "init", "create")
      /\ IF u \in pDir
           THEN /\ pEnc' = pEnc \cup {u}
                /\ pData' = [pData EXCEPT ![u] = <<>>]
                /\ told' = told \cup {u}
                /\ Return(w)
                /\ UNCHANGED <<want, known, acked, ended>>
           ELSE Fail(w, u) /\ UNCHANGED <<pEnc, pData>>
      /\ UNCHANGED <<pDir, pMeta, written, completeVars, fileVars, timeVars, lock, pass>>

\* AppendChunk reads the meta and accepts the next chunk only.
AppendChunk(w, u, i) ==
  /\ job[w] = Idle
  /\ u \in told /\ MaySendChunk(u, i)
  /\ IF pMeta[u] = "ok" /\ written[u] = i
       THEN /\ Begin(w, "chunk", "append", u, None, i)
            /\ UNCHANGED clientVars
       ELSE Fail(w, u)
  /\ UNCHANGED <<pendingVars, completeVars, fileVars, timeVars, lock, pass>>

\* AppendChunk appends the chunk to data.enc, which must exist.
WriteChunk(w) ==
  LET u == job[w].upload
  IN  /\ At(w, "chunk", "append")
      /\ IF u \in pEnc
           THEN /\ Len(pData[u]) < MaxChunks
                /\ pData' = [pData EXCEPT ![u] = Append(@, job[w].n)]
                /\ Goto(w, "truncate")
                /\ UNCHANGED clientVars
           ELSE Fail(w, u) /\ UNCHANGED pData
      /\ UNCHANGED <<pDir, pMeta, written, pEnc, completeVars, fileVars, timeVars, lock, pass>>

\* writePendingMeta opens meta.json for writing, truncating or creating it.
TruncatePendingMeta(w) ==
  LET u == job[w].upload
  IN  /\ At(w, "chunk", "truncate")
      /\ IF u \in pDir
           THEN /\ pMeta' = [pMeta EXCEPT ![u] = "torn"]
                /\ Goto(w, "write")
                /\ UNCHANGED clientVars
           ELSE Fail(w, u) /\ UNCHANGED pMeta
      /\ UNCHANGED <<pDir, written, pEnc, pData, completeVars, fileVars, timeVars, lock, pass>>

\* writePendingMeta writes it; a file unlinked meanwhile stays gone.
WritePendingMeta(w) ==
  LET u     == job[w].upload
      count == IF job[w].op = "chunk" THEN job[w].n + 1 ELSE 0
  IN  /\ job[w].op \in {"init", "chunk"} /\ job[w].pc = "write"
      /\ IF pMeta[u] # "absent"
           THEN /\ pMeta' = [pMeta EXCEPT ![u] = "ok"]
                /\ written' = [written EXCEPT ![u] = count]
           ELSE UNCHANGED <<pMeta, written>>
      /\ IF job[w].op = "chunk"
           THEN Return(w) /\ acked' = [acked EXCEPT ![u] = count]
           ELSE Goto(w, "create") /\ UNCHANGED acked
      /\ UNCHANGED <<pDir, pEnc, pData, completeVars, want, known, told, ended, fileVars,
                     timeVars, lock, pass>>

\* FinalizeUpload checks the upload, draws a file id and makes its directory.
FinalizeUpload(w, u, f) ==
  /\ job[w] = Idle
  /\ u \in told /\ MayFinalize(u)
  /\ f \notin used
  /\ IF pMeta[u] = "ok" /\ written[u] = want[u].chunks /\ u \in pEnc
       THEN /\ used' = used \cup {f}
            /\ origin' = [origin EXCEPT ![f] = u]
            /\ cDir' = cDir \cup {f}
            /\ Begin(w, "finalize", IF SameDevice THEN "rename" ELSE "copy", u, f, 0)
            /\ UNCHANGED clientVars
       ELSE Fail(w, u) /\ UNCHANGED <<used, origin, cDir>>
  /\ UNCHANGED <<pendingVars, cMeta, left, cEnc, cData, published, served,
                 doomed, deleted, timeVars, lock, pass>>

\* moveFile that leaves the source of a copy behind.
CopyFile(w) ==
  LET u == job[w].upload
      f == job[w].file
  IN  /\ job[w].op = "finalize" /\ job[w].pc \in {"rename", "copy", "remove"}
      /\ IF u \in pEnc
           THEN /\ cEnc' = cEnc \cup {f}
                /\ cData' = [cData EXCEPT ![f] = pData[u]]
                /\ Goto(w, "truncate")
                /\ UNCHANGED clientVars
           ELSE Fail(w, u) /\ UNCHANGED <<cEnc, cData>>
      /\ UNCHANGED <<pDir, pMeta, written, pEnc, pData, cDir, cMeta, left, fileVars,
                     timeVars, lock, pass>>

\* moveFile: one rename, or across devices a copy followed by a removal.
MoveFile(w) ==
  LET u == job[w].upload
      f == job[w].file
  IN  /\ job[w].op = "finalize" /\ job[w].pc \in {"rename", "copy", "remove"}
      /\ IF u \in pEnc
           THEN /\ pEnc' = IF job[w].pc = "copy" THEN pEnc ELSE pEnc \ {u}
                /\ IF job[w].pc = "remove"
                     THEN UNCHANGED <<cEnc, cData>>
                     ELSE /\ cEnc' = cEnc \cup {f}
                          /\ cData' = [cData EXCEPT ![f] = pData[u]]
                /\ Goto(w, IF job[w].pc = "copy" THEN "remove" ELSE "truncate")
                /\ UNCHANGED clientVars
           ELSE Fail(w, u) /\ UNCHANGED <<pEnc, cEnc, cData>>
      /\ UNCHANGED <<pDir, pMeta, written, pData, cDir, cMeta, left, fileVars, timeVars,
                     lock, pass>>

\* FinalizeUpload opens the new meta.json.
TruncateFileMeta(w) ==
  /\ At(w, "finalize", "truncate")
  /\ cMeta' = [cMeta EXCEPT ![job[w].file] = "torn"]
  /\ Goto(w, "write")
  /\ UNCHANGED <<pendingVars, cDir, left, cEnc, cData, clientVars, fileVars, timeVars, lock, pass>>

\* FinalizeUpload writes it and goes on to remove the pending directory.
WriteFileMeta(w) ==
  LET f     == job[w].file
      limit == want[job[w].upload].limit
  IN  /\ At(w, "finalize", "write")
      /\ cMeta' = [cMeta EXCEPT ![f] = "ok"]
      /\ left' = [left EXCEPT ![f] = IF limit = 0 THEN -1 ELSE limit]
      /\ published' = published \cup {f}
      /\ Goto(w, "list")
      /\ UNCHANGED <<pendingVars, cDir, cEnc, cData, clientVars, origin, used, served,
                     doomed, deleted, timeVars, lock, pass>>

-----------------------------------------------------------------------------
(* os.RemoveAll: list the entries, unlink each, remove the directory if it *)
(* is empty then.  A missing entry is no error, and the caller ignores the *)
(* result.  finalize and the cleaner's second loop remove a pending        *)
(* directory, delete and its first loop a complete one.                    *)

Pending(p) == job[p].op \in {"finalize", "cleanPending"}

\* The entries of the directory p is removing.
Entries(p) ==
  LET u == job[p].upload
      f == job[p].file
  IN  IF Pending(p)
        THEN {e \in {"meta", "enc"} : IF e = "meta" THEN pMeta[u] # "absent" ELSE u \in pEnc}
        ELSE {e \in {"meta", "enc"} : IF e = "meta" THEN cMeta[f] # "absent" ELSE f \in cEnc}

RemoveAllList(p) ==
  /\ job[p].pc = "list"
  /\ job' = [job EXCEPT ![p].names = Entries(p), ![p].pc = "unlink"]
  /\ UNCHANGED <<pendingVars, completeVars, clientVars, fileVars, timeVars, lock, pass>>

RemoveAllUnlink(p, e) ==
  LET u == job[p].upload
      f == job[p].file
  IN  /\ job[p].pc = "unlink" /\ e \in job[p].names
      /\ job' = [job EXCEPT ![p].names = @ \ {e}]
      /\ IF Pending(p)
           THEN /\ pMeta' = IF e = "meta" THEN [pMeta EXCEPT ![u] = "absent"] ELSE pMeta
                /\ pEnc' = IF e = "enc" THEN pEnc \ {u} ELSE pEnc
                /\ UNCHANGED <<cMeta, cEnc>>
           ELSE /\ cMeta' = IF e = "meta" THEN [cMeta EXCEPT ![f] = "absent"] ELSE cMeta
                /\ cEnc' = IF e = "enc" THEN cEnc \ {f} ELSE cEnc
                /\ UNCHANGED <<pMeta, pEnc>>
      /\ UNCHANGED <<pDir, written, pData, cDir, left, cData, clientVars, fileVars,
                     timeVars, lock, pass>>

\* The last call of RemoveAll, after which its caller answers or goes on.
RemoveAllDir(p) ==
  LET u == job[p].upload
      f == job[p].file
  IN  /\ job[p].pc = "unlink" /\ job[p].names = {}
      /\ pDir' = IF Pending(p) /\ Entries(p) = {} THEN pDir \ {u} ELSE pDir
      /\ cDir' = IF ~ Pending(p) /\ Entries(p) = {} THEN cDir \ {f} ELSE cDir
      /\ deleted' = IF job[p].op = "delete" THEN deleted \cup {f} ELSE deleted
      /\ ended' = IF job[p].op = "finalize" THEN ended \cup {u} ELSE ended
      /\ told' = IF job[p].op = "finalize" THEN told \cup {f} ELSE told
      /\ Return(p)
      /\ UNCHANGED <<pMeta, written, pEnc, pData, cMeta, left, cEnc, cData, want, known,
                     acked, origin, used, published, served, doomed, timeVars, lock, pass>>

-----------------------------------------------------------------------------
(* Download.                                                               *)

\* OpenDownload that reads the counter before it waits for the lock.
OpenDownloadUnlocked(w, f) ==
  /\ job[w] = Idle
  /\ f \in told /\ cMeta[f] = "ok"
  /\ origin[f] \notin expired
  /\ left[f] # 0
  /\ left[f] < 0 => served[f] < MaxServed
  /\ lock' = w
  /\ Begin(w, "download", "open", None, f, left[f])
  /\ UNCHANGED <<pendingVars, completeVars, clientVars, fileVars, timeVars, pass>>

\* OpenDownload takes the lock and reads a meta that grants a download.  A
\* request that finds none is answered with an error and changes nothing.
OpenDownload(w, f) ==
  /\ job[w] = Idle
  /\ lock = None
  /\ f \in told /\ cMeta[f] = "ok"
  /\ origin[f] \notin expired
  /\ left[f] # 0
  /\ left[f] < 0 => served[f] < MaxServed
  /\ lock' = w
  /\ Begin(w, "download", "open", None, f, left[f])
  /\ UNCHANGED <<pendingVars, completeVars, clientVars, fileVars, timeVars, pass>>

Granted(w, f) ==
  /\ served' = [served EXCEPT ![f] = @ + 1]
  /\ lock' = None
  /\ Return(w)

\* OpenDownload opens data.enc; a file without limit is granted at once.
OpenEnc(w) ==
  LET f == job[w].file
  IN  /\ At(w, "download", "open")
      /\ \/ /\ f \in cEnc /\ job[w].n > 0
            /\ Goto(w, "truncate")
            /\ UNCHANGED <<served, lock>>
         \/ /\ f \in cEnc /\ job[w].n < 0
            /\ Granted(w, f)
         \/ /\ f \notin cEnc
            /\ Return(w) /\ lock' = None
            /\ UNCHANGED served
      /\ UNCHANGED <<pendingVars, completeVars, clientVars, origin, used, published,
                     doomed, deleted, timeVars, pass>>

\* OpenDownload opens meta.json to store the lower counter; this fails when the
\* directory has gone and creates the file when only the file has.
TruncateCounter(w) ==
  LET f == job[w].file
  IN  /\ At(w, "download", "truncate")
      /\ IF f \in cDir
           THEN /\ cMeta' = [cMeta EXCEPT ![f] = "torn"]
                /\ Goto(w, "write")
                /\ UNCHANGED lock
           ELSE Return(w) /\ lock' = None /\ UNCHANGED cMeta
      /\ UNCHANGED <<pendingVars, cDir, left, cEnc, cData, clientVars, fileVars, timeVars, pass>>

\* OpenDownload stores the counter, grants the download and unlocks.
WriteCounter(w) ==
  LET f == job[w].file
  IN  /\ At(w, "download", "write")
      /\ IF cMeta[f] # "absent"
           THEN /\ cMeta' = [cMeta EXCEPT ![f] = "ok"]
                /\ left' = [left EXCEPT ![f] = job[w].n - 1]
           ELSE UNCHANGED <<cMeta, left>>
      /\ Granted(w, f)
      /\ UNCHANGED <<pendingVars, cDir, cEnc, cData, clientVars, origin, used, published,
                     doomed, deleted, timeVars, pass>>

\* Delete that removes the meta and leaves the content.
DeleteMetaOnly(w, f) ==
  /\ job[w] = Idle
  /\ f \in told /\ cMeta[f] = "ok"
  /\ job' = [job EXCEPT ![w] = [op |-> "delete", pc |-> "unlink", upload |-> None, file |-> f,
                               n |-> 0, names |-> {"meta"}]]
  /\ doomed' = doomed \cup {f}
  /\ UNCHANGED <<pendingVars, completeVars, clientVars, origin, used, published, served,
                 deleted, timeVars, lock, pass>>

\* Delete reads the meta, finds its key and removes the directory.
Delete(w, f) ==
  /\ job[w] = Idle
  /\ f \in told /\ cMeta[f] = "ok"
  /\ Begin(w, "delete", "list", None, f, 0)
  /\ doomed' = doomed \cup {f}
  /\ UNCHANGED <<pendingVars, completeVars, clientVars, origin, used, published, served,
                 deleted, timeVars, lock, pass>>

-----------------------------------------------------------------------------
(* CleanExpired.  It looks at the clock once and lists each of the two     *)
(* directories once; it takes no lock.                                     *)

CleanExpired ==
  /\ pass.at = "off"
  /\ pass' = [at |-> "complete", todo |-> cDir, expired |-> expired, stale |-> stale]
  /\ UNCHANGED <<pendingVars, completeVars, clientVars, fileVars, timeVars, lock, job>>

\* The first loop with a comparison that takes "unlimited" for exhausted.
CleanCompleteUnlimited(f) ==
  LET due == cMeta[f] = "ok" /\ (origin[f] \in pass.expired \/ left[f] <= 0)
  IN  /\ pass.at = "complete" /\ f \in pass.todo /\ job[Cleaner] = Idle
      /\ pass' = [pass EXCEPT !.todo = @ \ {f}]
      /\ IF due THEN Begin(Cleaner, "cleanComplete", "list", None, f, 0) ELSE UNCHANGED job
      /\ UNCHANGED <<pendingVars, completeVars, clientVars, fileVars, timeVars, lock>>

\* The first loop with expiry forgotten.
CleanCompleteExhausted(f) ==
  LET due == cMeta[f] = "ok" /\ left[f] = 0
  IN  /\ pass.at = "complete" /\ f \in pass.todo /\ job[Cleaner] = Idle
      /\ pass' = [pass EXCEPT !.todo = @ \ {f}]
      /\ IF due THEN Begin(Cleaner, "cleanComplete", "list", None, f, 0) ELSE UNCHANGED job
      /\ UNCHANGED <<pendingVars, completeVars, clientVars, fileVars, timeVars, lock>>

CleanComplete(f) ==
  LET due == cMeta[f] = "ok" /\ (origin[f] \in pass.expired \/ left[f] = 0)
  IN  /\ pass.at = "complete" /\ f \in pass.todo /\ job[Cleaner] = Idle
      /\ pass' = [pass EXCEPT !.todo = @ \ {f}]
      /\ IF due THEN Begin(Cleaner, "cleanComplete", "list", None, f, 0) ELSE UNCHANGED job
      /\ UNCHANGED <<pendingVars, completeVars, clientVars, fileVars, timeVars, lock>>

\* The first loop is done: list the pending directory.
ListPending ==
  /\ pass.at = "complete" /\ pass.todo = {} /\ job[Cleaner] = Idle
  /\ pass' = [pass EXCEPT !.at = "pending", !.todo = pDir]
  /\ UNCHANGED <<pendingVars, completeVars, clientVars, fileVars, timeVars, lock, job>>

CleanPending(u) ==
  LET due == pMeta[u] = "ok" /\ u \in pass.stale
  IN  /\ pass.at = "pending" /\ u \in pass.todo /\ job[Cleaner] = Idle
      /\ pass' = [pass EXCEPT !.todo = @ \ {u}]
      /\ IF due THEN Begin(Cleaner, "cleanPending", "list", u, None, 0) ELSE UNCHANGED job
      /\ UNCHANGED <<pendingVars, completeVars, clientVars, fileVars, timeVars, lock>>

CleanEnd ==
  /\ pass.at = "pending" /\ pass.todo = {} /\ job[Cleaner] = Idle
  /\ pass' = NoPass
  /\ UNCHANGED <<pendingVars, completeVars, clientVars, fileVars, timeVars, lock, job>>

-----------------------------------------------------------------------------
(* Time, failing calls and crashes.                                        *)

Expire(u) ==
  /\ u \in known \ expired
  /\ expired' = expired \cup {u}
  /\ UNCHANGED <<pendingVars, completeVars, clientVars, fileVars, stale, crashes, broken,
                 lock, job, pass>>

\* A day passes; the request that made the upload has long been answered.
GrowStale(u) ==
  /\ u \in known \ stale
  /\ \A w \in Workers : job[w].op = "init" => job[w].upload # u
  /\ stale' = stale \cup {u}
  /\ UNCHANGED <<pendingVars, completeVars, clientVars, fileVars, expired, crashes, broken,
                 lock, job, pass>>

\* The next call of a request fails (a full disk, too many open files): it is answered
\* with an error and what it did before stays.  A failing write of a meta leaves the
\* truncated file; a chunk or a copy that fails half-way is one whose next call fails.
CallFails(w) ==
  LET j == job[w]
  IN  /\ j.op \in {"init", "chunk", "finalize", "download"} /\ j.pc \notin {"list", "unlink"}
      /\ broken' = IF j.pc # "write" THEN broken
                   ELSE broken \cup {IF j.op \in {"init", "chunk"} THEN j.upload ELSE j.file}
      /\ IF j.op = "download"
           THEN Return(w) /\ lock' = None /\ UNCHANGED clientVars
           ELSE Fail(w, j.upload) /\ UNCHANGED lock
      /\ UNCHANGED <<pendingVars, completeVars, fileVars, expired, stale, crashes, pass>>

\* The server dies and is started again: the files stay, the requests fail.
Crash ==
  /\ crashes < MaxCrashes
  /\ crashes' = crashes + 1
  /\ broken' = broken \cup {u \in Uploads : pMeta[u] # "ok" /\ \E p \in Procs : job[p].upload = u}
                     \cup {f \in Files : cMeta[f] # "ok" /\ \E p \in Procs : job[p].file = f}
  /\ job' = [p \in Procs |-> Idle]
  /\ lock' = None
  /\ pass' = NoPass
  /\ ended' = ended \cup {u \in Uploads : InFlight(u)}
  /\ UNCHANGED <<pendingVars, completeVars, want, known, told, acked, fileVars, expired, stale>>

UploadStep(w) ==
  \/ \E u \in Uploads, chunks \in Totals, limit \in Requested : InitUpload(w, u, chunks, limit)
  \/ \E u \in Uploads, i \in 0..MaxChunks : AppendChunk(w, u, i)
  \/ \E u \in Uploads, f \in Files : FinalizeUpload(w, u, f)
  \/ CreateEnc(w) \/ WriteChunk(w) \/ TruncatePendingMeta(w) \/ WritePendingMeta(w)
  \/ MoveFile(w) \/ TruncateFileMeta(w) \/ WriteFileMeta(w)

DownloadStep(w) ==
  \/ \E f \in Files : OpenDownload(w, f) \/ Delete(w, f)
  \/ OpenEnc(w) \/ TruncateCounter(w) \/ WriteCounter(w)

RemoveStep(p) ==
  RemoveAllList(p) \/ (\E e \in {"meta", "enc"} : RemoveAllUnlink(p, e)) \/ RemoveAllDir(p)

CleanStep ==
  \/ CleanExpired \/ ListPending \/ CleanEnd
  \/ \E f \in Files : CleanComplete(f)
  \/ \E u \in Uploads : CleanPending(u)

Next ==
  \/ \E w \in Workers : UploadStep(w) \/ DownloadStep(w)
  \/ \E p \in Procs : RemoveStep(p)
  \/ CleanStep
  \/ \E u \in Uploads : Expire(u) \/ GrowStale(u)
  \/ \E w \in Workers : CallFails(w)
  \/ Crash

Spec == Init /\ [][Next]_vars

-----------------------------------------------------------------------------
(* Fairness: a request that has begun goes on, and the cleanup schedule    *)
(* keeps firing.  Nothing is assumed of clients or of the clock.           *)

Continue(w) == job[w] # Idle /\ (UploadStep(w) \/ DownloadStep(w) \/ RemoveStep(w))

Fairness ==
  /\ \A w \in Workers : WF_vars(Continue(w))
  /\ WF_vars(RemoveStep(Cleaner))
  /\ WF_vars(CleanStep)

FairSpec == Spec /\ Fairness

-----------------------------------------------------------------------------
(* Properties.                                                             *)

Ops == {"idle", "init", "chunk", "finalize", "download", "delete", "cleanComplete", "cleanPending"}
Labels == {"idle", "write", "create", "append", "truncate", "rename", "copy", "remove",
           "list", "unlink", "open"}

Job == [op : Ops, pc : Labels, upload : Uploads \cup {None}, file : Files \cup {None},
        n : Int, names : SUBSET {"meta", "enc"}]

MetaStates == {"absent", "torn", "ok"}

\* Every variable keeps its type, and a stored limit is a number of downloads.
TypeOK ==
  /\ pDir \subseteq Uploads /\ pEnc \subseteq Uploads
  /\ cDir \subseteq Files /\ cEnc \subseteq Files
  /\ pMeta \in [Uploads -> MetaStates] /\ cMeta \in [Files -> MetaStates]
  /\ written \in [Uploads -> Nat] /\ left \in [Files -> Int]
  /\ pData \in [Uploads -> Seq(Nat)] /\ cData \in [Files -> Seq(Nat)]
  /\ want \in [Uploads -> [chunks : Nat, limit : Nat]]
  /\ origin \in [Files -> Uploads \cup {None}]
  /\ known \subseteq Uploads /\ told \subseteq Uploads \cup Files
  /\ ended \subseteq Uploads
  /\ expired \subseteq Uploads /\ stale \subseteq Uploads
  /\ used \subseteq Files /\ published \subseteq Files
  /\ doomed \subseteq Files /\ deleted \subseteq Files
  /\ acked \in [Uploads -> Nat] /\ served \in [Files -> Nat]
  /\ lock \in Workers \cup {None}
  /\ job \in [Procs -> Job]
  /\ pass \in [at : {"off", "complete", "pending"}, todo : SUBSET (Files \cup Uploads),
               expired : SUBSET Uploads, stale : SUBSET Uploads]
  /\ crashes \in Nat /\ broken \subseteq Uploads \cup Files

\* OpenDownload never grants more downloads of a file than its limit, nor more
\* than the server's cap, whatever downloads, deletes, cleanup passes and
\* crashes interleave.
DownloadLimit ==
  \A f \in published :
    LET limit == want[origin[f]].limit
    IN  /\ limit > 0 => served[f] <= limit
        /\ Cap > 0 => served[f] <= Cap

\* An upload becomes at most one file, however often and however concurrently
\* clients finalize it and wherever a crash falls, so its limit cannot be
\* multiplied (FinalizeUpload, moveFile).
SinglePublication ==
  \A f, g \in published : origin[f] = origin[g] => f = g

\* What can be downloaded is what was uploaded: every chunk once and in order,
\* for the project's own clients and across crashes (AppendChunk, moveFile).
ContentExact ==
  \A f \in published \cap cEnc : cData[f] = [i \in 1..want[origin[f]].chunks |-> i - 1]

\* A file that is neither expired nor exhausted nor deleted stays on disk and
\* readable: no cleanup pass takes it.  Its meta is unreadable only while a download
\* is rewriting it, or for ever after a crash in the middle of that or a write that
\* failed after the truncation; the content is there even then (CleanExpired,
\* OpenDownload, writeFileMeta).
Kept ==
  \A f \in published :
    \/ origin[f] \in expired
    \/ want[origin[f]].limit > 0 /\ served[f] >= want[origin[f]].limit
    \/ f \in doomed
    \/ /\ f \in cDir /\ f \in cEnc
       /\ \/ cMeta[f] = "ok"
          \/ /\ cMeta[f] = "torn"
             /\ f \in broken \/ \E w \in Workers : At(w, "download", "write") /\ job[w].file = f

\* An expired file is eventually removed with its directory, and so is a pending
\* upload of more than a day, as docs/SCHEDULE.md promises of cleanup.  The exception
\* are the directories whose meta a crash or a failed write has left truncated, or a
\* crash in the middle of RemoveAll has unlinked: CleanExpired skips a directory
\* whose meta it cannot read.
Reclaimed ==
  /\ \A f \in Files : (f \in published /\ origin[f] \in expired) ~> (f \notin cDir \/ f \in broken)
  /\ \A u \in Uploads : (u \in pDir /\ u \in stale) ~> (u \notin pDir \/ u \in broken)

\* After Delete has answered, the content is gone for good, whatever downloads and
\* cleanup passes do meanwhile.  Its meta.json may come back: a download that is
\* storing its counter writes it again, and RemoveAll's error is dropped.
DeletedGone ==
  \A f \in deleted : f \notin cEnc
=============================================================================
