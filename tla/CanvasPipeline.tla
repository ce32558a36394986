--------------------------- MODULE CanvasPipeline ---------------------------
(***************************************************************************)
(* The write path of one room's canvas: the handleDraw handlers of the     *)
(* server (one per stroke, any number at a time, on any server), the       *)
(* idle-snapshot worker of the processor, and what they share: the Redis   *)
(* hash of pending strokes, the Redis snapshot, the Redis lock, the BullMQ *)
(* job named after the room, and the newest row of the table Snapshots.    *)
(* Every await of the code is a step boundary.                             *)
(*                                                                         *)
(* Simplifications:                                                        *)
(*  - a stroke is its id; a merged snapshot is the union of two sets       *)
(*    (dedupe by id; the order of drawing is left to MergeEvents);         *)
(*  - only the newest row of Snapshots is kept, the one every reader takes;*)
(*  - the clocks of the machines agree;                                    *)
(*  - an operation that fails either took effect or did not, and costs one *)
(*    unit of the budget MaxFaults, as does the crash of a handler or of   *)
(*    the worker. A crash of a whole server is several handler crashes.    *)
(***************************************************************************)
EXTENDS Integers, FiniteSets

CONSTANTS
  Events,         \* the strokes drawn in this run, one handleDraw call each
  History,        \* strokes that may have been in the database before it
  Worker,         \* the idle-snapshot worker
  Free,           \* the lock key does not exist
  MaxDrawEvents,  \* MAX_NUMBER_OF_DRAW_EVENTS
  MaxAttempts,    \* attempts of a BullMQ job
  MaxFaults,      \* how many operations may fail or processes crash
  Timely,         \* handlers end within LOCK_TTL, and LOCK_TTL within MINUTES_5_MS
  CanExpire       \* the one-day TTLs of the snapshot and the hash may elapse

ASSUME ProcsAssumption == Worker \notin Events /\ Free \notin Events \cup {Worker}
ASSUME HistoryAssumption == Events \cap History = {}
ASSUME BoundsAssumption ==
  MaxDrawEvents \in Nat \ {0} /\ MaxAttempts \in Nat \ {0} /\ MaxFaults \in Nat
ASSUME SwitchAssumption == Timely \in BOOLEAN /\ CanExpire \in BOOLEAN

Procs == Events \cup {Worker}
Strokes == Events \cup History

VARIABLES
  pc,        \* pc[p]: the operation process p performs next
  work,      \* work[p]: strokes p has read so far for the snapshot it makes
  row,       \* row[p]: the database row p read and will store in the cache
  stamp,     \* stamp[p]: the value of new Date() for the row p inserts
  pending,   \* the Redis hash of pending draw events
  snap,      \* the Redis snapshot: there or not, its strokes, with a TTL or not
  db,        \* the newest row of Snapshots; timestamp 0 when there is none
  lock,      \* the lock key: Free, or the process that set it
  job,       \* the idle-snapshot job of the room
  clock,     \* wall clock, advanced when a timestamp is taken
  faults,    \* failures so far
  accepted,  \* strokes broadcast to the room as USER_DRAW
  raced,     \* strokes hashed while a flusher was between hGetAll and del
  unwatched  \* strokes hashed while a flusher was between hGetAll and its end

handlers == <<pc, work, row, stamp>>
ghosts == <<accepted, raced, unwatched>>
vars == <<pc, work, row, stamp, pending, snap, db, lock, job, clock, faults,
          accepted, raced, unwatched>>

-----------------------------------------------------------------------------
(* Where a process is. The lock is held from "read" to "unlock".           *)

BeforeDel == {"cache", "find", "fill", "encode", "del"}
WorkerBeforeDel == {"cache", "find", "encode", "insert", "del"}
Critical == {"read", "cache", "find", "fill", "encode", "del", "insert",
             "unjob", "unlock"}
Labels == Critical \cup {"hset", "remove", "add", "hlen", "lock", "idle",
                         "complete", "done"}

\* p has read the hash and has not deleted it yet.
Racing(p) == pc[p] \in IF p = Worker THEN WorkerBeforeDel ELSE BeforeDel

\* p has read the hash, or decided not to, and may still drop the job.
Finishing(p) == pc[p] \in (Critical \ {"read"}) \cup {"complete"}

NoRow == [timestamp |-> 0, strokes |-> {}]
NoSnap == [there |-> FALSE, strokes |-> {}, ttl |-> FALSE]
NoJob == [state |-> "none", attempts |-> 0, stalled |-> FALSE]
\* Faulty variant: the job is added without its delay.
NewJobUndelayed == [state |-> "waiting", attempts |-> 0, stalled |-> FALSE]
NewJob == [state |-> "delayed", attempts |-> 0, stalled |-> FALSE]
Stored(strokes, ttl) == [there |-> TRUE, strokes |-> strokes, ttl |-> ttl]

Snapshots == [there : BOOLEAN, strokes : SUBSET Strokes, ttl : BOOLEAN]
Rows == [timestamp : Nat, strokes : SUBSET Strokes]
Jobs == [state : {"none", "delayed", "active", "stalled", "failed"},
         attempts : 0..MaxAttempts, stalled : BOOLEAN]

\* What a user who joins now is sent: pending strokes over the latest snapshot.
Canvas == pending \cup IF snap.there THEN snap.strokes ELSE db.strokes

TypeOK ==
  /\ pc \in [Procs -> Labels]
  /\ work \in [Procs -> SUBSET Strokes]
  /\ row \in [Procs -> SUBSET Strokes]
  /\ stamp \in [Procs -> Nat]
  /\ pending \subseteq Events
  /\ snap \in Snapshots
  /\ db \in Rows
  /\ lock \in Procs \cup {Free}
  /\ job \in Jobs
  /\ clock \in Nat
  /\ faults \in 0..MaxFaults
  /\ accepted \subseteq Events /\ raced \subseteq Events /\ unwatched \subseteq Events

Init ==
  /\ pc = [p \in Procs |-> IF p = Worker THEN "idle" ELSE "hset"]
  /\ work = [p \in Procs |-> {}]
  /\ row = [p \in Procs |-> {}]
  /\ stamp = [p \in Procs |-> 0]
  /\ pending = {}
  /\ db \in {NoRow, [timestamp |-> IF History = {} THEN 0 ELSE 1, strokes |-> History]}
  /\ snap \in {NoSnap} \cup IF db = NoRow THEN {} ELSE {Stored(History, TRUE)}
  /\ lock = Free
  /\ job = NoJob
  /\ clock = 1
  /\ faults = 0
  /\ accepted = {} /\ raced = {} /\ unwatched = {}

-----------------------------------------------------------------------------
(* Steps shared by the handlers and the worker.                            *)

Goto(p, label) == pc' = [pc EXCEPT ![p] = label]
Works(p, strokes) == work' = [work EXCEPT ![p] = strokes]

\* An operation succeeds (ok) or fails; a failure uses up the budget.
Outcome(ok) ==
  IF ok THEN UNCHANGED faults ELSE faults < MaxFaults /\ faults' = faults + 1

\* A variable takes its new value; after a failure it may have kept the old one.
Applied(ok, new, old) == {new} \cup IF ok THEN {} ELSE {old}

\* A finished process forgets what it had read.
Forget(p) ==
  /\ work' = [work EXCEPT ![p] = {}]
  /\ row' = [row EXCEPT ![p] = {}]
  /\ stamp' = [stamp EXCEPT ![p] = 0]

\* Faulty variant: readers take the oldest row.
InsertedOldest(p) == IF db.timestamp = 0 THEN [timestamp |-> stamp[p], strokes |-> work[p]] ELSE db

\* INSERT INTO "Snapshots": the newest row is the one with the latest timestamp.
Inserted(p) ==
  IF stamp[p] > db.timestamp THEN [timestamp |-> stamp[p], strokes |-> work[p]] ELSE db

-----------------------------------------------------------------------------
(* handleDraw, for the stroke e.                                           *)

\* A failed call of an early step ends the handler, whatever it holds.
Step(e, ok, label) == Outcome(ok) /\ Goto(e, IF ok THEN label ELSE "done")

\* hSetInCache is HSET then EXPIRE; when either fails the drawer gets
\* ROOM_UNDO_DRAW, though the HSET may have been carried out.
HashStroke(e) ==
  /\ pc[e] = "hset"
  /\ \E ok \in BOOLEAN :
       /\ Step(e, ok, "remove")
       /\ pending' \in Applied(ok, pending \cup {e}, pending)
       /\ accepted' = IF ok THEN accepted \cup {e} ELSE accepted
  /\ raced' = raced \cup {s \in pending' \ pending : \E p \in Procs : Racing(p)}
  /\ unwatched' = unwatched \cup {s \in pending' \ pending : \E p \in Procs : Finishing(p)}
  /\ UNCHANGED <<work, row, stamp, snap, db, lock, job, clock>>

\* Queue.remove: an active job stays; the job of a worker that died stays
\* until its BullMQ lock is gone.
Removed ==
  CASE job.state = "active" -> {job}
    [] job.state = "stalled" -> {job, NoJob}
    [] OTHER -> {NoJob}

\* rescheduleIdleSnapshotJob, first half. A failure skips the second half.
RemoveOldJob(e) ==
  /\ pc[e] = "remove"
  /\ \E ok \in BOOLEAN :
       /\ Outcome(ok)
       /\ Goto(e, IF ok THEN "add" ELSE "hlen")
       /\ job' \in Removed \cup IF ok THEN {} ELSE {job}
  /\ UNCHANGED <<work, row, stamp, pending, snap, db, lock, clock, ghosts>>

\* Second half. Queue.add ignores a jobId that exists.
AddJob(e) ==
  /\ pc[e] = "add"
  /\ \E ok \in BOOLEAN :
       /\ Outcome(ok)
       /\ job' \in Applied(ok, IF job = NoJob THEN NewJob ELSE job, job)
  /\ Goto(e, "hlen")
  /\ UNCHANGED <<work, row, stamp, pending, snap, db, lock, clock, ghosts>>

\* Below the threshold the handler is done.
CountPending(e) ==
  /\ pc[e] = "hlen"
  /\ \E ok \in BOOLEAN :
       Step(e, ok, IF Cardinality(pending) < MaxDrawEvents THEN "done" ELSE "lock")
  /\ UNCHANGED <<work, row, stamp, pending, snap, db, lock, job, clock, ghosts>>

\* Faulty variant: SET without NX.
AcquireLockPlainSet(e) ==
  /\ pc[e] = "lock"
  /\ \E ok \in BOOLEAN : Step(e, ok, "read") /\ lock' \in Applied(ok, e, lock)
  /\ UNCHANGED <<work, row, stamp, pending, snap, db, job, clock, ghosts>>

\* SET NX. A failed call may have set the key: nobody then owns it.
AcquireLock(e) ==
  /\ pc[e] = "lock"
  /\ \E ok \in BOOLEAN :
       /\ Step(e, ok, IF lock = Free THEN "read" ELSE "done")
       /\ lock' \in Applied(ok, IF lock = Free THEN e ELSE lock, lock)
  /\ UNCHANGED <<work, row, stamp, pending, snap, db, job, clock, ghosts>>

ReadPending(e) ==
  /\ pc[e] = "read"
  /\ \E ok \in BOOLEAN :
       /\ Step(e, ok, "cache")
       /\ Works(e, IF ok THEN pending ELSE {})
  /\ UNCHANGED <<row, stamp, pending, snap, db, lock, job, clock, ghosts>>

\* getLatestSnapshot: the cached snapshot.
ReadCache(e) ==
  /\ pc[e] = "cache"
  /\ \E ok \in BOOLEAN :
       /\ Step(e, ok, IF snap.there THEN "encode" ELSE "find")
       /\ Works(e, IF ok THEN work[e] \cup snap.strokes ELSE {})
  /\ UNCHANGED <<row, stamp, pending, snap, db, lock, job, clock, ghosts>>

\* getLatestSnapshot: the newest row, when the cache has nothing.
FindLatest(e) ==
  /\ pc[e] = "find"
  /\ \E ok \in BOOLEAN :
       /\ Step(e, ok, IF db.timestamp = 0 THEN "encode" ELSE "fill")
       /\ row' = [row EXCEPT ![e] = IF ok THEN db.strokes ELSE {}]
       /\ Works(e, IF ok THEN work[e] ELSE {})
  /\ UNCHANGED <<stamp, pending, snap, db, lock, job, clock, ghosts>>

\* getLatestSnapshot: the row is stored in the cache; a failure is only logged.
FillCache(e) ==
  /\ pc[e] = "fill"
  /\ \E ok \in BOOLEAN :
       /\ Outcome(ok)
       /\ snap' \in Applied(ok, Stored(row[e], TRUE), snap)
  /\ Goto(e, "encode")
  /\ Works(e, work[e] \cup row[e])
  /\ row' = [row EXCEPT ![e] = {}]
  /\ UNCHANGED <<stamp, pending, db, lock, job, clock, ghosts>>

\* Faulty variant: a snapshot that could not be stored does not end the handler.
EncodeSnapshotGoesOn(e) ==
  /\ pc[e] = "encode"
  /\ \E ok \in BOOLEAN :
       /\ Outcome(ok)
       /\ snap' \in Applied(ok, Stored(work[e], TRUE), snap)
  /\ Goto(e, "del")
  /\ UNCHANGED <<work, row, stamp, pending, db, lock, job, clock, ghosts>>

\* encodeSnapshot: SET EX DAYS_1.
EncodeSnapshot(e) ==
  /\ pc[e] = "encode"
  /\ \E ok \in BOOLEAN :
       /\ Step(e, ok, "del")
       /\ snap' \in Applied(ok, Stored(work[e], TRUE), snap)
       /\ Works(e, IF ok THEN work[e] ELSE {})
  /\ UNCHANGED <<row, stamp, pending, db, lock, job, clock, ghosts>>

\* DEL of the hash, whatever it holds by now; a failure is only logged. Then
\* new Date() for the row.
DeletePending(e) ==
  /\ pc[e] = "del"
  /\ \E ok \in BOOLEAN : Outcome(ok) /\ pending' \in Applied(ok, {}, pending)
  /\ Goto(e, "insert")
  /\ clock' = clock + 1
  /\ stamp' = [stamp EXCEPT ![e] = clock + 1]
  /\ UNCHANGED <<work, row, snap, db, lock, job, ghosts>>

\* snapshots.create; a failure goes to the catch and ends the handler.
CreateSnapshot(e) ==
  /\ pc[e] = "insert"
  /\ \E ok \in BOOLEAN : Step(e, ok, "unjob") /\ db' \in Applied(ok, Inserted(e), db)
  /\ Forget(e)
  /\ UNCHANGED <<pending, snap, lock, job, clock, ghosts>>

\* removeIdleSnapshotJob; a failure is only logged.
RemoveIdleJob(e) ==
  /\ pc[e] = "unjob"
  /\ \E ok \in BOOLEAN : Outcome(ok) /\ job' \in Removed \cup IF ok THEN {} ELSE {job}
  /\ Goto(e, "unlock")
  /\ UNCHANGED <<work, row, stamp, pending, snap, db, lock, clock, ghosts>>

\* DEL of the lock key, whoever set it.
Unlock(e) ==
  /\ pc[e] = "unlock"
  /\ \E ok \in BOOLEAN : Step(e, ok, "done") /\ lock' \in Applied(ok, Free, lock)
  /\ UNCHANGED <<work, row, stamp, pending, snap, db, job, clock, ghosts>>

\* The server dies in the middle of the handler.
CrashHandler(e) ==
  /\ pc[e] \notin {"hset", "done"}
  /\ Outcome(FALSE)
  /\ Goto(e, "done")
  /\ Forget(e)
  /\ UNCHANGED <<pending, snap, db, lock, job, clock, ghosts>>

HandleDraw(e) ==
  \/ RemoveOldJob(e) \/ AddJob(e) \/ CountPending(e)
  \/ AcquireLock(e) \/ ReadPending(e) \/ ReadCache(e) \/ FindLatest(e) \/ FillCache(e)
  \/ EncodeSnapshot(e) \/ DeletePending(e) \/ CreateSnapshot(e)
  \/ RemoveIdleJob(e) \/ Unlock(e)

-----------------------------------------------------------------------------
(* The idle-snapshot worker. BullMQ runs one job per jobId at a time.      *)

\* No handler that could have replaced the job is still running, and the lock
\* of any earlier flush is gone: 5 minutes have passed since the job was added.
Quiet == lock = Free /\ \A e \in Events : pc[e] \in {"hset", "remove", "done"}

\* The delay of the job (or its backoff, after a failure) is over.
StartJob ==
  /\ pc[Worker] = "idle"
  /\ job.state = "delayed"
  /\ Timely /\ job.attempts = 0 => Quiet
  /\ job' = [job EXCEPT !.state = "active"]
  /\ Goto(Worker, "lock")
  /\ UNCHANGED <<work, row, stamp, pending, snap, db, lock, clock, faults, ghosts>>

\* The handler throws: the job is retried after a backoff, or given up.
JobThrows ==
  /\ Outcome(FALSE)
  /\ Goto(Worker, "idle")
  /\ job' = [job EXCEPT !.attempts = @ + 1,
               !.state = IF job.attempts + 1 < MaxAttempts THEN "delayed" ELSE "failed"]
  /\ Forget(Worker)

\* A step of the worker succeeds; the job itself does not change.
JobContinues(label) == UNCHANGED <<faults, job>> /\ Goto(Worker, label)

\* SET NX. ioredis sends the command again when the connection breaks before the
\* reply: the second time it finds its own key and reports that the lock is taken.
JobAcquiresLock ==
  /\ pc[Worker] = "lock"
  /\ \/ JobContinues(IF lock = Free THEN "read" ELSE "complete")
        /\ lock' = (IF lock = Free THEN Worker ELSE lock)
        /\ UNCHANGED <<work, row, stamp>>
     \/ Outcome(FALSE) /\ Goto(Worker, "complete") /\ lock = Free /\ lock' = Worker
        /\ UNCHANGED <<work, row, stamp, job>>
     \/ JobThrows /\ UNCHANGED lock
  /\ UNCHANGED <<pending, snap, db, clock, ghosts>>

\* Faulty variant: off by one in the test for an empty batch.
JobReadsPendingOffByOne ==
  /\ pc[Worker] = "read"
  /\ \/ JobContinues(IF Cardinality(pending) <= 1 THEN "complete" ELSE "cache")
        /\ Works(Worker, pending) /\ UNCHANGED <<row, stamp>>
     \/ JobThrows
  /\ UNCHANGED <<pending, snap, db, lock, clock, ghosts>>

\* HGETALL. With nothing to flush the job is done, and the lock is kept.
JobReadsPending ==
  /\ pc[Worker] = "read"
  /\ \/ JobContinues(IF pending = {} THEN "complete" ELSE "cache")
        /\ Works(Worker, pending) /\ UNCHANGED <<row, stamp>>
     \/ JobThrows
  /\ UNCHANGED <<pending, snap, db, lock, clock, ghosts>>

\* takeSnapshot starts: new Date().
TakeStamp == clock' = clock + 1 /\ stamp' = [stamp EXCEPT ![Worker] = clock + 1]

\* Faulty variant: the previous snapshot is not merged into the batch.
JobFindsLatestUnmerged ==
  /\ pc[Worker] = "find"
  /\ \/ JobContinues("encode") /\ TakeStamp /\ UNCHANGED <<work, row>>
     \/ JobThrows /\ UNCHANGED clock
  /\ UNCHANGED <<pending, snap, db, lock, ghosts>>

\* getPreviousSnapshot: the cached snapshot.
JobReadsCache ==
  /\ pc[Worker] = "cache"
  /\ \/ snap.there /\ JobContinues("encode") /\ TakeStamp
        /\ Works(Worker, work[Worker] \cup snap.strokes) /\ UNCHANGED row
     \/ ~snap.there /\ JobContinues("find") /\ UNCHANGED <<work, row, stamp, clock>>
     \/ JobThrows /\ UNCHANGED clock
  /\ UNCHANGED <<pending, snap, db, lock, ghosts>>

\* getPreviousSnapshot: the newest row. Unlike the server it does not fill the cache.
JobFindsLatest ==
  /\ pc[Worker] = "find"
  /\ \/ JobContinues("encode") /\ TakeStamp
        /\ Works(Worker, work[Worker] \cup db.strokes) /\ UNCHANGED row
     \/ JobThrows /\ UNCHANGED clock
  /\ UNCHANGED <<pending, snap, db, lock, ghosts>>

\* takeSnapshot: SET without a TTL.
JobEncodes ==
  /\ pc[Worker] = "encode"
  /\ \/ JobContinues("insert")
        /\ snap' = Stored(work[Worker], FALSE)
        /\ UNCHANGED <<work, row, stamp>>
     \/ JobThrows /\ UNCHANGED snap
  /\ UNCHANGED <<pending, db, lock, clock, ghosts>>

\* takeSnapshot: INSERT. A failed one may have been committed.
JobInserts ==
  /\ pc[Worker] = "insert"
  /\ \/ JobContinues("del") /\ db' = Inserted(Worker) /\ Forget(Worker)
     \/ JobThrows /\ db' \in {Inserted(Worker), db}
  /\ UNCHANGED <<pending, snap, lock, clock, ghosts>>

JobDeletesPending ==
  /\ pc[Worker] = "del"
  /\ \/ JobContinues("unlock") /\ pending' = {} /\ UNCHANGED <<work, row, stamp>>
     \/ JobThrows /\ UNCHANGED pending
  /\ UNCHANGED <<snap, db, lock, clock, ghosts>>

JobUnlocks ==
  /\ pc[Worker] = "unlock"
  /\ \/ JobContinues("complete") /\ lock' = Free /\ UNCHANGED <<work, row, stamp>>
     \/ JobThrows /\ UNCHANGED lock
  /\ UNCHANGED <<pending, snap, db, clock, ghosts>>

\* BullMQ moves the job to completed, and removeOnComplete deletes it.
CompleteJob ==
  /\ pc[Worker] = "complete"
  /\ job' = NoJob
  /\ Goto(Worker, "idle")
  /\ Forget(Worker)
  /\ UNCHANGED <<pending, snap, db, lock, clock, faults, ghosts>>

\* The processor dies; BullMQ finds the job stalled 30 seconds later, later than
\* LOCK_TTL, and starts it once more, the first time.
CrashWorker ==
  /\ pc[Worker] # "idle"
  /\ Outcome(FALSE)
  /\ Goto(Worker, "idle")
  /\ Forget(Worker)
  /\ job' = [job EXCEPT !.state = "stalled"]
  /\ UNCHANGED <<pending, snap, db, lock, clock, ghosts>>

RestartStalledJob ==
  /\ job.state = "stalled"
  /\ Timely => lock # Worker
  /\ IF job.stalled
       THEN job' = [job EXCEPT !.state = "failed"] /\ UNCHANGED pc
       ELSE job' = [job EXCEPT !.state = "active", !.stalled = TRUE] /\ Goto(Worker, "lock")
  /\ UNCHANGED <<work, row, stamp, pending, snap, db, lock, clock, faults, ghosts>>

RunJob ==
  \/ JobAcquiresLock \/ JobReadsPending \/ JobReadsCache \/ JobFindsLatest
  \/ JobEncodes \/ JobInserts \/ JobDeletesPending \/ JobUnlocks \/ CompleteJob

-----------------------------------------------------------------------------
(* Time.                                                                   *)

\* Faulty variant: the lock is set without a TTL.
ExpireLockNever == FALSE /\ UNCHANGED vars

\* LOCK_TTL elapses.
ExpireLock ==
  /\ lock # Free
  /\ Timely => pc[lock] \notin Critical
  /\ lock' = Free
  /\ UNCHANGED <<handlers, pending, snap, db, job, clock, faults, ghosts>>

\* DAYS_1 elapses since the server stored the snapshot.
ExpireSnapshot ==
  /\ CanExpire /\ snap.there /\ snap.ttl
  /\ \A e \in Events : pc[e] \notin {"del", "insert", "unjob", "unlock"}
  /\ snap' = NoSnap
  /\ UNCHANGED <<handlers, pending, db, lock, job, clock, faults, ghosts>>

\* DAYS_1 elapses since the last stroke: a job would have run long before.
ExpirePending ==
  /\ CanExpire /\ pending # {}
  /\ \A e \in Events : pc[e] \in {"hset", "done"}
  /\ job.state \in {"none", "failed"}
  /\ pending' = {}
  /\ UNCHANGED <<handlers, snap, db, lock, job, clock, faults, ghosts>>

\* Nothing runs: the system waits for a stroke, a delay or a TTL.
AtRest == \A p \in Procs : pc[p] \in {"hset", "idle", "done"}
Rest == AtRest /\ UNCHANGED vars

\* Everything that goes on once strokes have been hashed.
Background ==
  \/ \E e \in Events : HandleDraw(e) \/ CrashHandler(e)
  \/ StartJob \/ RunJob \/ CrashWorker \/ RestartStalledJob
  \/ ExpireLock \/ ExpireSnapshot \/ ExpirePending
  \/ Rest

Next == Background \/ \E e \in Events : HashStroke(e)

Spec == Init /\ [][Next]_vars

\* Awaited calls return, delays and the TTL of the lock elapse, BullMQ finds
\* stalled jobs. Nobody has to draw, and the one-day TTLs may never matter.
Fairness ==
  /\ \A e \in Events : WF_vars(HandleDraw(e))
  /\ WF_vars(StartJob) /\ WF_vars(RunJob) /\ WF_vars(RestartStalledJob)
  /\ WF_vars(ExpireLock)

FairSpec == Spec /\ Fairness

-----------------------------------------------------------------------------
(* Properties.                                                             *)

\* A flusher in its critical section is the owner of the lock, so there is at
\* most one: the SET NX of handleDraw and of the worker exclude each other
\* across servers and the processor, as long as none outlives LOCK_TTL.
FlushMutex == Timely => \A p \in Procs : pc[p] \in Critical => lock = p

\* A stroke leaves the canvas that joiners are sent only if it was hashed while
\* a flusher was between its HGETALL and its DEL. No interleaving of handlers,
\* worker, failures and crashes loses any other stroke.
OnlyRacedStrokesVanish == [][Canvas \ Canvas' \subseteq raced]_vars

\* What a flusher relies on in each phase, as long as none outlives LOCK_TTL and
\* the snapshot is not evicted: its batch has every pending stroke that is not
\* raced, its merged snapshot has every such stroke of the canvas, and when it
\* deletes the hash or inserts the row the cached snapshot has them.
FlushPhase(p) ==
  /\ pc[p] \in {"cache", "find", "fill"} => pending \ raced \subseteq work[p]
  /\ pc[p] \in {"find", "fill"} => ~snap.there
  /\ pc[p] = "fill" => p # Worker /\ row[p] = db.strokes
  /\ pc[p] = "encode" => Canvas \ raced \subseteq work[p]
  /\ pc[p] \in {"del", "insert"} => snap.there
  /\ pc[p] \in {"del", "insert"} /\ Racing(p) => pending \ raced \subseteq snap.strokes
FlushPhases ==
  Timely /\ ~CanExpire => \A p \in Procs : FlushPhase(p)

\* With the one-day TTLs of the hash and of the snapshot: as long as nothing fails,
\* they only ever remove what the database holds, or a stroke hashed while a flusher
\* was finishing.
OnlyUnwatchedStrokesExpire ==
  [][faults' = 0 => Canvas \ Canvas' \subseteq unwatched]_vars

\* The lock is never kept for good, whatever fails and whoever dies: the error
\* paths keep it and rely on its TTL.
LockIsReleased == lock # Free ~> lock = Free

-----------------------------------------------------------------------------
(* What the documentation says and the code does not do.                   *)

\* docs/ADRs/002: the job queue ensures that "no user actions are lost". The DEL
\* of a flush also deletes the strokes hashed after its HGETALL.
NoStrokeIsLost == accepted \subseteq Canvas

=============================================================================
